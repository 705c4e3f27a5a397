-------------------------------- MODULE Bvlc --------------------------------
(***************************************************************************)
(* BACnet/IP broadcasts (bvlc.c), which is the data link of the firmware: a *)
(* broadcast reaches one IP subnet, and the broadcast management device    *)
(* (BBMD) each subnet has forwards it to the BBMDs of its broadcast        *)
(* distribution table (BDT) and to the foreign devices registered in its   *)
(* foreign device table (FDT).                                             *)
(*                                                                         *)
(* Several BBMDs, each running bvlc.c, plain devices on their subnets and  *)
(* foreign devices on subnets of their own exchange datagrams, which may be *)
(* reordered and lost.  The network does not hand a broadcast back to its  *)
(* sender.  No handler keeps anything of a message, so messages do not     *)
(* interfere and one broadcast at a time is sent.                          *)
(***************************************************************************)
EXTENDS Integers, FiniteSets, Sequences, Bags, BagsExt

CONSTANTS
  BBMDs, Devices, ForeignDevices,
  Subnet,             \* of every BBMD and device, one BBMD to a subnet
  Tables,             \* the BDTs a configuration tool writes
  MAX_BBMD_ENTRIES, MAX_FD_ENTRIES,
  TimesToLive, Grace, \* in seconds; Grace is 30
  Elapsed,            \* the seconds that pass at a time
  TimerCalls          \* whether dlenv_maintenance_timer is then called: by the
                      \* firmware's main loop never, which is {FALSE}

Nodes == BBMDs \cup Devices \cup ForeignDevices
Masks == {"unicast", "directed"}

ASSUME BvlcAssumption ==
  /\ ForeignDevices \cap (BBMDs \cup Devices) = {} /\ Devices \cap BBMDs = {}
  /\ Subnet \in [BBMDs \cup Devices -> BBMDs]
  /\ \A b \in BBMDs : Subnet[b] = b
  /\ Tables \subseteq Seq([address : BBMDs, mask : Masks])
  /\ MAX_BBMD_ENTRIES \in Nat /\ MAX_FD_ENTRIES \in Nat
  /\ TimesToLive \subseteq Nat /\ Grace \in Nat \ {0}
  /\ Elapsed \subseteq Nat \ {0}
  /\ TimerCalls \subseteq BOOLEAN

VARIABLES
  BBMD_Table,   \* of each BBMD, the valid entries
  FD_Table,     \* of each BBMD
  net,          \* the datagrams under way, one for each receiver
  sent,         \* the broadcast they carry: its origin, and the BBMD a foreign
                \* device handed it to (a device on a subnet: itself)
  heard,        \* how often each node's application got it, up to 2
  undisturbed,  \* history: no table changed and no time passed since it was sent
  lost,         \* history: the network lost a part of it
  lease         \* history: the seconds each registration has left

tables == <<BBMD_Table, FD_Table>>
traffic == <<net, sent, heard, lost>>
vars == <<tables, traffic, undisturbed, lease>>

Slots == 1 .. MAX_FD_ENTRIES
Free == [valid |-> FALSE]
Registration(f, seconds) ==
  [valid |-> TRUE, dest_address |-> f, seconds_remaining |-> seconds]
Leases == {ttl + Grace : ttl \in TimesToLive}
Seconds == {0} \cup UNION {0 .. l : l \in Leases}

FDEntries ==
  {Free} \cup {Registration(f, s) : f \in ForeignDevices, s \in Seconds \ {0}}

Functions == {"original", "distribute", "forwarded"}
Datagram == [function : Functions, from : Nodes, to : Nodes]

TypeOK ==
  /\ \A b \in BBMDs : /\ BBMD_Table[b] \in Seq([address : BBMDs, mask : Masks])
                      /\ Len(BBMD_Table[b]) <= MAX_BBMD_ENTRIES
  /\ FD_Table \in [BBMDs -> [Slots -> FDEntries]]
  /\ IsABag(net) /\ BagToSet(net) \subseteq Datagram
  /\ sent \in [origin : Nodes, bbmd : Nodes]
  /\ heard \in [Nodes -> 0 .. 2]
  /\ undisturbed \in BOOLEAN /\ lost \in BOOLEAN
  /\ lease \in [BBMDs -> [ForeignDevices -> Seconds]]

Init ==
  /\ BBMD_Table = [b \in BBMDs |-> << >>]
  /\ FD_Table = [b \in BBMDs |-> [i \in Slots |-> Free]]
  /\ net = EmptyBag
  /\ sent \in [origin : BBMDs, bbmd : BBMDs] /\ sent.origin = sent.bbmd
  /\ heard = [n \in Nodes |-> 0]
  /\ undisturbed = FALSE /\ lost = FALSE
  /\ lease = [b \in BBMDs |-> [f \in ForeignDevices |-> 0]]

-----------------------------------------------------------------------------
\* Where datagrams go, as the number of copies each node is sent.
OnSubnet(b) == {n \in BBMDs \cup Devices : Subnet[n] = b}

LocalBroadcast(sender) ==
  [n \in Nodes |->
    IF sender \notin ForeignDevices /\ n \in OnSubnet(Subnet[sender]) \ {sender}
    THEN 1 ELSE 0]

\* The inverted mask ORed with the address of a BDT entry is the entry's address
\* or the broadcast address of its subnet; neither may be the BBMD's own.
Reached(b, entry) ==
  IF entry.address = b THEN {}
  ELSE IF entry.mask = "unicast" THEN {entry.address}
  ELSE OnSubnet(entry.address)

\* bvlc_bdt_forward_npdu and bvlc_fdt_forward_npdu
BdtForward(b) ==
  [n \in Nodes |->
    Cardinality({i \in DOMAIN BBMD_Table[b] : n \in Reached(b, BBMD_Table[b][i])})]

RegisteredSlots(b, f) ==
  {i \in Slots : FD_Table[b][i].valid /\ FD_Table[b][i].dest_address = f}
Listed(b, f) == RegisteredSlots(b, f) # {}

FdtForwardToAll(b) ==
  [n \in Nodes |-> Cardinality(RegisteredSlots(b, n))]

FdtForward(b) ==
  [n \in Nodes |-> IF n = sent.origin THEN 0 ELSE Cardinality(RegisteredSlots(b, n))]

Copies(function, from, count) ==
  LET copied == {n \in Nodes : count[n] > 0}
  IN  [d \in {[function |-> function, from |-> from, to |-> n] : n \in copied}
         |-> count[d.to]]

Forwarded(b, count) == Copies("forwarded", b, count)

-----------------------------------------------------------------------------
\* bvlc_send_pdu with a broadcast: on the own subnet, or to the BBMD that a
\* foreign device has registered with.
Broadcast(n, bbmd) ==
  /\ net = EmptyBag
  /\ sent' = [origin |-> n, bbmd |-> bbmd]
  /\ net' = IF n \in ForeignDevices
            THEN SetToBag({[function |-> "distribute", from |-> n, to |-> bbmd]})
            ELSE Copies("original", n, LocalBroadcast(n))
  /\ heard' = [m \in Nodes |-> 0]
  /\ undisturbed' = TRUE /\ lost' = FALSE
  /\ UNCHANGED <<tables, lease>>

Hears(n) ==
  heard' = [heard EXCEPT ![n] = IF @ < 2 THEN @ + 1 ELSE @]

Handled(d, forwarded) ==
  /\ d \in BagToSet(net)
  /\ net' = BagRemove(net, d) (+) forwarded
  /\ UNCHANGED <<tables, sent, undisturbed, lost, lease>>

ReceiveOriginalBroadcast(b, d) ==
  /\ d.to = b /\ d.function = "original"
  /\ Handled(d, Forwarded(b, BdtForward(b)) (+) Forwarded(b, FdtForward(b)))
  /\ Hears(b)

ReceiveDistributeBroadcast(b, d) ==
  /\ d.to = b /\ d.function = "distribute"
  /\ Handled(d, Forwarded(b, LocalBroadcast(b)) (+) Forwarded(b, BdtForward(b))
                  (+) Forwarded(b, FdtForward(b)))
  /\ UNCHANGED heard

\* bvlc_bdt_member_mask_is_unicast, of the BBMD that sent the message
MaskIgnored(b, member) ==
  \E i \in DOMAIN BBMD_Table[b] : member # b /\ BBMD_Table[b][i].address = member

MaskMistaken(b, member) ==
  \E i \in DOMAIN BBMD_Table[b] :
    member # b /\ BBMD_Table[b][i] = [address |-> member, mask |-> "directed"]

MaskIsUnicast(b, member) ==
  \E i \in DOMAIN BBMD_Table[b] :
    member # b /\ BBMD_Table[b][i] = [address |-> member, mask |-> "unicast"]

ReceiveForwarded(b, d) ==
  /\ d.to = b /\ d.function = "forwarded"
  /\ Handled(d, (IF MaskIsUnicast(b, d.from) THEN Forwarded(b, LocalBroadcast(b))
                 ELSE EmptyBag) (+) Forwarded(b, FdtForward(b)))
  /\ Hears(b)

\* A device that is not a BBMD hands the message to its application.
ReceivePlain(n, d) ==
  /\ d.to = n /\ d.function \in {"original", "forwarded"}
  /\ Handled(d, EmptyBag)
  /\ Hears(n)

Lose(d) ==
  /\ d \in BagToSet(net)
  /\ net' = BagRemove(net, d)
  /\ lost' = TRUE
  /\ UNCHANGED <<tables, sent, heard, undisturbed, lease>>

-----------------------------------------------------------------------------
\* bvlc_create_bdt replaces the whole table by what fits of the message.
Created(table) ==
  IF Len(table) <= MAX_BBMD_ENTRIES THEN table ELSE SubSeq(table, 1, MAX_BBMD_ENTRIES)

WriteBDT(b, table) ==
  /\ BBMD_Table' = [BBMD_Table EXCEPT ![b] = Created(table)]
  /\ undisturbed' = FALSE
  /\ UNCHANGED <<FD_Table, traffic, lease>>

FreeSlots(b) == {i \in Slots : ~ FD_Table[b][i].valid}
LowestOf(slots) == CHOOSE i \in slots : \A j \in slots : i <= j

\* bvlc_register_foreign_device: the slot of the device, or the first free one.
SlotForAnyone(b, f) == FreeSlots(b)
SlotOfAnother(b, f) ==
  IF Listed(b, f) THEN RegisteredSlots(b, f)
  ELSE IF FreeSlots(b) # {} THEN FreeSlots(b) ELSE Slots
SlotFor(b, f) == IF Listed(b, f) THEN RegisteredSlots(b, f) ELSE FreeSlots(b)

SecondsUntilPurge(time_to_live) == time_to_live + Grace

RegisterForeignDevice(b, f, time_to_live) ==
  LET slots == SlotFor(b, f)
  IN  /\ slots # {}
      /\ FD_Table' = [FD_Table EXCEPT ![b][LowestOf(slots)] =
                        Registration(f, SecondsUntilPurge(time_to_live))]
      /\ lease' = [lease EXCEPT ![b][f] = time_to_live + Grace]
      /\ undisturbed' = FALSE
      /\ UNCHANGED <<BBMD_Table, traffic>>

DeleteForeignDevice(b, f) ==
  /\ Listed(b, f)
  /\ FD_Table' = [FD_Table EXCEPT ![b][LowestOf(RegisteredSlots(b, f))] = Free]
  /\ lease' = [lease EXCEPT ![b][f] = 0]
  /\ undisturbed' = FALSE
  /\ UNCHANGED <<BBMD_Table, traffic>>

\* bvlc_maintenance_timer
AgedOffByOne(entry, seconds) ==
  IF ~ entry.valid THEN entry
  ELSE IF entry.seconds_remaining < seconds THEN Free
  ELSE [entry EXCEPT !.seconds_remaining = @ - seconds]

Aged(entry, seconds) ==
  IF ~ entry.valid THEN entry
  ELSE IF entry.seconds_remaining <= seconds THEN Free
  ELSE [entry EXCEPT !.seconds_remaining = @ - seconds]

Purged(seconds) ==
  [b \in BBMDs |-> [i \in Slots |-> Aged(FD_Table[b][i], seconds)]]

SecondsPass(seconds) ==
  /\ lease' = [b \in BBMDs |-> [f \in ForeignDevices |->
                 IF lease[b][f] <= seconds THEN 0 ELSE lease[b][f] - seconds]]
  /\ \E called \in TimerCalls : FD_Table' = IF called THEN Purged(seconds) ELSE FD_Table
  /\ undisturbed' = FALSE
  /\ UNCHANGED <<BBMD_Table, traffic>>

-----------------------------------------------------------------------------
Receive(b, d) ==
  \/ ReceiveOriginalBroadcast(b, d)
  \/ ReceiveDistributeBroadcast(b, d)
  \/ ReceiveForwarded(b, d)

Next ==
  \/ \E n \in BBMDs \cup Devices : Broadcast(n, n)
  \/ \E f \in ForeignDevices, b \in BBMDs : Broadcast(f, b)
  \/ \E d \in BagToSet(net) :
       \/ \E b \in BBMDs : Receive(b, d)
       \/ \E n \in Devices \cup ForeignDevices : ReceivePlain(n, d)
       \/ Lose(d)
  \/ \E b \in BBMDs, table \in Tables : WriteBDT(b, table)
  \/ \E b \in BBMDs, f \in ForeignDevices :
       \/ \E ttl \in TimesToLive : RegisterForeignDevice(b, f, ttl)
       \/ DeleteForeignDevice(b, f)
  \/ \E seconds \in Elapsed : SecondsPass(seconds)

Spec == Init /\ [][Next]_vars

-----------------------------------------------------------------------------
\* What J.4 of the standard asks of a set of BBMDs before they forward.
EachOnce ==
  \A b \in BBMDs : \A i, j \in DOMAIN BBMD_Table[b] :
    BBMD_Table[b][i].address = BBMD_Table[b][j].address => i = j
Identical == \A b, c \in BBMDs : BBMD_Table[b] = BBMD_Table[c]
Complete == \A b \in BBMDs : \E i \in DOMAIN BBMD_Table[b] : BBMD_Table[b][i].address = b
UniformMasks ==
  \E mask \in Masks : \A b \in BBMDs : \A i \in DOMAIN BBMD_Table[b] :
    BBMD_Table[b][i].mask = mask
SingleHomed ==
  \A f \in ForeignDevices, b, c \in BBMDs : Listed(b, f) /\ Listed(c, f) => b = c

\* With BDTs of one kind of mask that list a BBMD once, identical or not, and every
\* foreign device registered once, no application gets a broadcast twice: a BBMD
\* broadcasts on its subnet exactly what the subnet has not had, whichever way
\* messages overtake.
AtMostOnce ==
  undisturbed /\ EachOnce /\ UniformMasks /\ SingleHomed
    => \A n \in Nodes : heard[n] <= 1

\* Nobody gets its own broadcast back, whatever is in the tables and while they
\* change: no chain of forwarding leads back to its origin.
NotEchoed == heard[sent.origin] = 0

\* Who should get a broadcast.  A BBMD of this code forwards none of its own,
\* and does not hand its own application what a foreign device gives it.
Audience ==
  IF sent.origin \in BBMDs THEN OnSubnet(sent.origin)
  ELSE BBMDs \cup Devices
         \cup {f \in ForeignDevices : \E b \in BBMDs : Listed(b, f)}

\* If nothing is lost, everyone has had it when the network is quiet.
EveryoneReached ==
  net = EmptyBag /\ undisturbed /\ ~ lost /\ Identical /\ Complete /\ UniformMasks
    => \A n \in Audience \ {sent.origin, sent.bbmd} : heard[n] > 0

\* A foreign device has one entry at most, however often it registers again.
UniqueRegistrations ==
  \A b \in BBMDs, f \in ForeignDevices :
    \A i, j \in RegisteredSlots(b, f) : i = j

\* A registration lasts its time to live and the grace period, to the second: no
\* registration of another, no renewal and no call of the timer, at whatever intervals
\* or never, takes the entry away before; only its own deletion does.
ListedThroughLease ==
  \A b \in BBMDs, f \in ForeignDevices : lease[b][f] > 0 => Listed(b, f)
=============================================================================
