---------------------------- MODULE Bvlc_proofs -----------------------------
(***************************************************************************)
(* Whatever the sizes of the tables and however many BBMDs and foreign     *)
(* devices there are: a foreign device has one entry at most in the FDT of  *)
(* a BBMD, and so is forwarded one copy at most of each message.           *)
(*                                                                         *)
(* Uniqueness is inductive once it is said of pairs of slots: a device that *)
(* is listed keeps its slot, and one that is not may take any slot at all  *)
(* without a second entry of anyone appearing.  Then come the lease of a   *)
(* foreign device, the echo, and whom a broadcast reaches.                 *)
(***************************************************************************)
EXTENDS Bvlc, SlotFacts, TLAPS

Entry == {Free} \cup [valid : {TRUE}, dest_address : ForeignDevices, seconds_remaining : Int]
FDTs == [BBMDs -> [Slots -> Entry]]

Inv == FD_Table \in FDTs /\ UniqueRegistrations

-----------------------------------------------------------------------------
LEMMA EntryFields ==
  ASSUME NEW entry \in Entry
  PROVE  /\ entry.valid \in BOOLEAN
         /\ entry.valid => /\ entry.dest_address \in ForeignDevices
                           /\ entry.seconds_remaining \in Int
                           /\ entry = Registration(entry.dest_address, entry.seconds_remaining)
         /\ ~ entry.valid => entry = Free
<1>1. CASE entry = Free
  BY <1>1 DEF Free
<1>2. CASE entry \in [valid : {TRUE}, dest_address : ForeignDevices, seconds_remaining : Int]
  BY <1>2 DEF Registration
<1>. QED  BY <1>1, <1>2 DEF Entry

\* The timer leaves an entry what it was, of the same device, or clears it.
LEMMA AgedEntry ==
  ASSUME NEW entry \in Entry, NEW seconds \in Int
  PROVE  /\ Aged(entry, seconds) \in Entry
         /\ Aged(entry, seconds).valid =>
              entry.valid /\ Aged(entry, seconds).dest_address = entry.dest_address
<1>1. CASE ~ entry.valid
  BY <1>1, EntryFields DEF Aged
<1>2. CASE entry.valid
  <2>1. PICK f \in ForeignDevices, s \in Int : entry = Registration(f, s)
    BY <1>2, EntryFields
  <2>2. CASE s <= seconds
    <3>1. Aged(entry, seconds) = Free
      BY <1>2, <2>1, <2>2 DEF Aged, Registration
    <3>. QED  BY <3>1 DEF Entry, Free
  <2>3. CASE ~ (s <= seconds)
    <3>1. Aged(entry, seconds) = Registration(f, s - seconds)
      BY <1>2, <2>1, <2>3 DEF Aged, Registration
    <3>2. s - seconds \in Int
      OBVIOUS
    <3>3. Registration(f, s - seconds) \in Entry
      BY <3>2 DEF Entry, Registration
    <3>4. Registration(f, s - seconds).dest_address = f /\ entry.dest_address = f
      BY <2>1 DEF Registration
    <3>. QED  BY <1>2, <3>1, <3>3, <3>4
  <2>. QED  BY <2>2, <2>3
<1>. QED  BY <1>1, <1>2, EntryFields

-----------------------------------------------------------------------------
\* A registration of f in some slot of b: nobody's entries multiply.
LEMMA RegisterKeeps ==
  ASSUME Inv, NEW b \in BBMDs, NEW f \in ForeignDevices, NEW ttl \in TimesToLive,
         RegisterForeignDevice(b, f, ttl)
  PROVE  Inv'
<1> DEFINE slot == LowestOf(SlotFor(b, f))
           entry == Registration(f, SecondsUntilPurge(ttl))
<1>1. FD_Table' = [FD_Table EXCEPT ![b][slot] = entry]
  BY DEF RegisterForeignDevice
<1>2. entry \in Entry /\ entry.valid /\ entry.dest_address = f
  <2>1. SecondsUntilPurge(ttl) \in Int
    BY BvlcAssumption DEF SecondsUntilPurge
  <2>. QED  BY <2>1 DEF Entry, Registration
<1>3. ASSUME Listed(b, f) PROVE RegisteredSlots(b, f) = {slot}
  <2>1. PICK i \in RegisteredSlots(b, f) : TRUE
    BY <1>3 DEF Listed
  <2>2. RegisteredSlots(b, f) = {i}
    BY <2>1 DEF Inv, UniqueRegistrations
  <2>3. i \in Nat
    BY <2>1 DEF RegisteredSlots, Slots
  <2>4. slot = i
    BY <1>3, <2>2, <2>3 DEF SlotFor, LowestOf
  <2>. QED  BY <2>2, <2>4
<1> HIDE DEF slot, entry
<1>4. FD_Table' \in FDTs
  BY <1>1, <1>2 DEF Inv, FDTs
<1>5. ASSUME NEW c \in BBMDs, NEW g \in ForeignDevices, NEW i \in RegisteredSlots(c, g)'
      PROVE  \/ c = b /\ i = slot /\ g = f
             \/ i \in RegisteredSlots(c, g) /\ ~ (c = b /\ i = slot)
  <2>1. i \in Slots /\ FD_Table'[c][i].valid /\ FD_Table'[c][i].dest_address = g
    BY DEF RegisteredSlots
  <2>2. CASE c = b /\ i = slot
    BY <1>1, <1>2, <2>1, <2>2 DEF Inv, FDTs
  <2>3. CASE ~ (c = b /\ i = slot)
    <3>1. FD_Table'[c][i] = FD_Table[c][i]
      BY <1>1, <2>1, <2>3 DEF Inv, FDTs
    <3>. QED  BY <2>1, <2>3, <3>1 DEF RegisteredSlots
  <2>. QED  BY <2>2, <2>3
<1>6. UniqueRegistrations'
  <2> SUFFICES ASSUME NEW c \in BBMDs, NEW g \in ForeignDevices,
                      NEW i \in RegisteredSlots(c, g)', NEW j \in RegisteredSlots(c, g)'
               PROVE  i = j
    BY DEF UniqueRegistrations
  <2>1. CASE i \in RegisteredSlots(c, g) /\ j \in RegisteredSlots(c, g)
    BY <2>1 DEF Inv, UniqueRegistrations
  <2>2. CASE c = b /\ g = f
    <3>1. i # slot => i \in RegisteredSlots(b, f) /\ Listed(b, f)
      BY <1>5, <2>2 DEF Listed
    <3>2. j # slot => j \in RegisteredSlots(b, f) /\ Listed(b, f)
      BY <1>5, <2>2 DEF Listed
    <3>. QED  BY <1>3, <3>1, <3>2
  <2>. QED  BY <1>5, <2>1, <2>2
<1>. QED  BY <1>4, <1>6 DEF Inv

LEMMA DeleteKeeps ==
  ASSUME Inv, NEW b \in BBMDs, NEW f \in ForeignDevices, DeleteForeignDevice(b, f)
  PROVE  Inv'
<1> DEFINE slot == LowestOf(RegisteredSlots(b, f))
<1>1. FD_Table' = [FD_Table EXCEPT ![b][slot] = Free]
  BY DEF DeleteForeignDevice
<1> HIDE DEF slot
<1>2. FD_Table' \in FDTs
  <2>1. Free \in Entry
    BY DEF Entry
  <2>. QED  BY <1>1, <2>1 DEF Inv, FDTs
<1>3. ASSUME NEW c \in BBMDs, NEW g \in ForeignDevices
      PROVE  RegisteredSlots(c, g)' \subseteq RegisteredSlots(c, g)
  BY <1>1 DEF Inv, FDTs, RegisteredSlots, Free
<1>. QED  BY <1>2, <1>3 DEF Inv, UniqueRegistrations

LEMMA SecondsKeep ==
  ASSUME Inv, NEW seconds \in Elapsed, SecondsPass(seconds)
  PROVE  Inv'
<1>1. FD_Table' = FD_Table \/ FD_Table' = Purged(seconds)
  BY DEF SecondsPass
<1>2. CASE FD_Table' = FD_Table
  BY <1>2 DEF Inv, UniqueRegistrations, RegisteredSlots
<1>3. CASE FD_Table' = Purged(seconds)
  <2>1. \A c \in BBMDs, i \in Slots :
          /\ FD_Table[c][i] \in Entry
          /\ FD_Table'[c][i] = Aged(FD_Table[c][i], seconds)
    BY <1>3 DEF Inv, FDTs, Purged
  <2>2. seconds \in Int
    BY BvlcAssumption
  <2>3. FD_Table' \in FDTs
    <3>1. \A c \in BBMDs, i \in Slots : Aged(FD_Table[c][i], seconds) \in Entry
      BY <2>1, <2>2, AgedEntry
    <3>. QED  BY <1>3, <3>1 DEF FDTs, Purged
  <2>4. ASSUME NEW c \in BBMDs, NEW g \in ForeignDevices
        PROVE  RegisteredSlots(c, g)' \subseteq RegisteredSlots(c, g)
    BY <2>1, <2>2, AgedEntry DEF RegisteredSlots
  <2>. QED  BY <2>3, <2>4 DEF Inv, UniqueRegistrations
<1>. QED  BY <1>1, <1>2, <1>3

LEMMA SameTableKeeps ==
  ASSUME Inv, UNCHANGED FD_Table
  PROVE  Inv'
BY DEF Inv, UniqueRegistrations, RegisteredSlots

LEMMA InitInv == Init => Inv
BY DEF Init, Inv, FDTs, Entry, UniqueRegistrations, RegisteredSlots, Free

LEMMA NextInv == Inv /\ [Next]_vars => Inv'
<1> SUFFICES ASSUME Inv, [Next]_vars PROVE Inv'
  OBVIOUS
<1>1. ASSUME NEW n \in Nodes, NEW b \in Nodes, Broadcast(n, b) PROVE Inv'
  BY <1>1, SameTableKeeps DEF Broadcast, tables
<1>2. ASSUME NEW d, NEW forwarded, Handled(d, forwarded) PROVE Inv'
  BY <1>2, SameTableKeeps DEF Handled, tables
<1>3. ASSUME NEW d, NEW b \in BBMDs, Receive(b, d) PROVE Inv'
  BY <1>2, <1>3 DEF Receive, ReceiveOriginalBroadcast, ReceiveDistributeBroadcast, ReceiveForwarded
<1>4. ASSUME NEW d, NEW n \in Devices \cup ForeignDevices, ReceivePlain(n, d) PROVE Inv'
  BY <1>2, <1>4 DEF ReceivePlain
<1>5. ASSUME NEW d, Lose(d) PROVE Inv'
  BY <1>5, SameTableKeeps DEF Lose, tables
<1>6. ASSUME NEW b \in BBMDs, NEW table \in Tables, WriteBDT(b, table) PROVE Inv'
  BY <1>6, SameTableKeeps DEF WriteBDT
<1>7. ASSUME NEW b \in BBMDs, NEW f \in ForeignDevices, NEW ttl \in TimesToLive,
             RegisterForeignDevice(b, f, ttl)
      PROVE  Inv'
  BY <1>7, RegisterKeeps
<1>8. ASSUME NEW b \in BBMDs, NEW f \in ForeignDevices, DeleteForeignDevice(b, f) PROVE Inv'
  BY <1>8, DeleteKeeps
<1>9. ASSUME NEW seconds \in Elapsed, SecondsPass(seconds) PROVE Inv'
  BY <1>9, SecondsKeep
<1>10. CASE UNCHANGED vars
  BY <1>10, SameTableKeeps DEF vars, tables
<1>. QED
  BY <1>1, <1>3, <1>4, <1>5, <1>6, <1>7, <1>8, <1>9, <1>10 DEF Next, Nodes

\* No foreign device is ever listed twice, in tables of any size.
THEOREM RegistrationsUnique == Spec => []UniqueRegistrations
<1>1. Inv => UniqueRegistrations
  BY DEF Inv
<1>. QED  BY <1>1, InitInv, NextInv, PTL DEF Spec
-----------------------------------------------------------------------------
\* The slot found is one of those looked through.
LEMMA LowestProperty ==
  ASSUME NEW S \in SUBSET Nat, S # {}
  PROVE  LowestOf(S) \in S
BY LeastOfNat DEF LowestOf

\* An entry has at least the time left that its lease has: as much while the timer is
\* called whenever time passes, more once a call was left out.
InStep ==
  \A b \in BBMDs, f \in ForeignDevices :
    \A i \in RegisteredSlots(b, f) : FD_Table[b][i].seconds_remaining >= lease[b][f]

LeaseInv ==
  /\ lease \in [BBMDs -> [ForeignDevices -> Nat]]
  /\ ListedThroughLease
  /\ InStep

LEMMA RegisterLease ==
  ASSUME Inv, LeaseInv, NEW b \in BBMDs, NEW f \in ForeignDevices, NEW ttl \in TimesToLive,
         RegisterForeignDevice(b, f, ttl)
  PROVE  LeaseInv'
<1> DEFINE slot == LowestOf(SlotFor(b, f))
           entry == Registration(f, SecondsUntilPurge(ttl))
<1>1. /\ FD_Table' = [FD_Table EXCEPT ![b][slot] = entry]
      /\ lease' = [lease EXCEPT ![b][f] = ttl + Grace]
  BY DEF RegisterForeignDevice
<1>2. ttl + Grace \in Nat /\ ttl + Grace > 0
  BY BvlcAssumption
<1>3. entry.valid /\ entry.dest_address = f /\ entry.seconds_remaining = ttl + Grace
  BY DEF Registration, SecondsUntilPurge
<1>4. slot \in SlotFor(b, f)
  <2>1. SlotFor(b, f) \in SUBSET Nat /\ SlotFor(b, f) # {}
    BY DEF RegisterForeignDevice, SlotFor, RegisteredSlots, FreeSlots, Slots
  <2>2. QED
    BY <2>1, LowestProperty
<1>5. slot \in Slots
  BY <1>4 DEF SlotFor, RegisteredSlots, FreeSlots
<1>6. Listed(b, f) => RegisteredSlots(b, f) = {slot}
  BY <1>4 DEF SlotFor, Inv, UniqueRegistrations
<1>7. ~ Listed(b, f) => ~ FD_Table[b][slot].valid
  BY <1>4 DEF SlotFor, FreeSlots
<1> HIDE DEF slot, entry
<1>8. \A c \in BBMDs, i \in Slots :
        FD_Table'[c][i] = IF c = b /\ i = slot THEN entry ELSE FD_Table[c][i]
  BY <1>1 DEF Inv, FDTs
<1>9. \A c \in BBMDs, g \in ForeignDevices :
        lease'[c][g] = IF c = b /\ g = f THEN ttl + Grace ELSE lease[c][g]
  BY <1>1 DEF LeaseInv
<1>10. RegisteredSlots(b, f)' = {slot}
  <2>1. ASSUME NEW i \in Slots, i # slot PROVE i \notin RegisteredSlots(b, f)'
    BY <1>6, <1>8, <2>1 DEF RegisteredSlots, Listed
  <2>2. slot \in RegisteredSlots(b, f)'
    BY <1>3, <1>5, <1>8 DEF RegisteredSlots
  <2>3. QED
    BY <2>1, <2>2 DEF RegisteredSlots
<1>11. \A c \in BBMDs, g \in ForeignDevices : ~ (c = b /\ g = f) =>
         /\ RegisteredSlots(c, g)' = RegisteredSlots(c, g)
         /\ slot \in RegisteredSlots(c, g) => c # b
  <2> SUFFICES ASSUME NEW c \in BBMDs, NEW g \in ForeignDevices, ~ (c = b /\ g = f)
               PROVE  /\ RegisteredSlots(c, g)' = RegisteredSlots(c, g)
                      /\ slot \in RegisteredSlots(c, g) => c # b
    OBVIOUS
  <2>1. CASE c # b
    BY <1>8, <2>1 DEF RegisteredSlots
  <2>2. CASE c = b
    <3>1. g # f
      BY <2>2
    <3>2. slot \notin RegisteredSlots(b, g)
      BY <1>6, <1>7, <3>1 DEF RegisteredSlots
    <3>3. slot \notin RegisteredSlots(b, g)'
      BY <1>3, <1>5, <1>8, <3>1 DEF RegisteredSlots
    <3>4. \A i \in Slots : i # slot => FD_Table'[b][i] = FD_Table[b][i]
      BY <1>8
    <3>5. QED
      BY <2>2, <3>2, <3>3, <3>4 DEF RegisteredSlots
  <2>3. QED
    BY <2>1, <2>2
<1>12. lease' \in [BBMDs -> [ForeignDevices -> Nat]]
  BY <1>1, <1>2 DEF LeaseInv
<1>13. ListedThroughLease'
  <2> SUFFICES ASSUME NEW c \in BBMDs, NEW g \in ForeignDevices
               PROVE  lease'[c][g] > 0 => RegisteredSlots(c, g)' # {}
    BY DEF ListedThroughLease, Listed
  <2>1. CASE c = b /\ g = f
    BY <1>2, <1>9, <1>10, <2>1
  <2>2. CASE ~ (c = b /\ g = f)
    BY <1>9, <1>11, <2>2 DEF LeaseInv, ListedThroughLease, Listed
  <2>3. QED
    BY <2>1, <2>2
<1>14. InStep'
  <2> SUFFICES ASSUME NEW c \in BBMDs, NEW g \in ForeignDevices, NEW i \in RegisteredSlots(c, g)'
               PROVE  FD_Table'[c][i].seconds_remaining >= lease'[c][g]
    BY DEF InStep
  <2>1. CASE c = b /\ g = f
    <3>1. FD_Table'[c][i].seconds_remaining = ttl + Grace /\ lease'[c][g] = ttl + Grace
      BY <1>3, <1>5, <1>8, <1>9, <1>10, <2>1
    <3>. QED  BY <1>2, <3>1
  <2>2. CASE ~ (c = b /\ g = f)
    <3>1. i \in Slots /\ FD_Table'[c][i] = FD_Table[c][i] /\ i \in RegisteredSlots(c, g)
      BY <1>8, <1>11, <2>2 DEF RegisteredSlots
    <3>2. QED
      BY <1>9, <2>2, <3>1 DEF LeaseInv, InStep
  <2>3. QED
    BY <2>1, <2>2
<1>15. QED
  BY <1>12, <1>13, <1>14 DEF LeaseInv

LEMMA DeleteLease ==
  ASSUME Inv, LeaseInv, NEW b \in BBMDs, NEW f \in ForeignDevices, DeleteForeignDevice(b, f)
  PROVE  LeaseInv'
<1> DEFINE slot == LowestOf(RegisteredSlots(b, f))
<1>1. /\ FD_Table' = [FD_Table EXCEPT ![b][slot] = Free]
      /\ lease' = [lease EXCEPT ![b][f] = 0]
  BY DEF DeleteForeignDevice
<1>2. RegisteredSlots(b, f) = {slot}
  <2>1. RegisteredSlots(b, f) \in SUBSET Nat /\ RegisteredSlots(b, f) # {}
    BY DEF DeleteForeignDevice, Listed, RegisteredSlots, Slots
  <2>2. slot \in RegisteredSlots(b, f)
    BY <2>1, LowestProperty
  <2>3. QED
    BY <2>2 DEF Inv, UniqueRegistrations
<1> HIDE DEF slot
<1>3. slot \in Slots /\ FD_Table[b][slot].dest_address = f
  BY <1>2 DEF RegisteredSlots
<1>4. \A c \in BBMDs, i \in Slots :
        FD_Table'[c][i] = IF c = b /\ i = slot THEN Free ELSE FD_Table[c][i]
  BY <1>1 DEF Inv, FDTs
<1>5. \A c \in BBMDs, g \in ForeignDevices :
        lease'[c][g] = IF c = b /\ g = f THEN 0 ELSE lease[c][g]
  BY <1>1 DEF LeaseInv
<1>6. \A c \in BBMDs, g \in ForeignDevices :
        RegisteredSlots(c, g)' = IF c = b /\ g = f THEN {} ELSE RegisteredSlots(c, g)
  <2> SUFFICES ASSUME NEW c \in BBMDs, NEW g \in ForeignDevices
               PROVE  RegisteredSlots(c, g)' = IF c = b /\ g = f THEN {} ELSE RegisteredSlots(c, g)
    OBVIOUS
  <2>1. ~ Free.valid
    BY DEF Free
  <2>2. slot \notin RegisteredSlots(b, g)'
    BY <1>4, <2>1, <1>3 DEF RegisteredSlots
  <2>3. \A i \in Slots : ~ (c = b /\ i = slot) =>
          (i \in RegisteredSlots(c, g)' <=> i \in RegisteredSlots(c, g))
    BY <1>4 DEF RegisteredSlots
  <2>4. CASE c = b /\ g = f
    BY <1>2, <2>2, <2>3, <2>4 DEF RegisteredSlots
  <2>5. CASE ~ (c = b /\ g = f)
    <3>1. c = b => slot \notin RegisteredSlots(c, g)
      BY <1>3, <2>5 DEF RegisteredSlots
    <3>2. QED
      BY <2>2, <2>3, <2>5, <3>1 DEF RegisteredSlots
  <2>6. QED
    BY <2>4, <2>5
<1>7. lease' \in [BBMDs -> [ForeignDevices -> Nat]]
  BY <1>1 DEF LeaseInv
<1>8. ListedThroughLease'
  BY <1>5, <1>6 DEF LeaseInv, ListedThroughLease, Listed
<1>9. InStep'
  <2> SUFFICES ASSUME NEW c \in BBMDs, NEW g \in ForeignDevices, NEW i \in RegisteredSlots(c, g)'
               PROVE  FD_Table'[c][i].seconds_remaining >= lease'[c][g]
    BY DEF InStep
  <2>1. ~ (c = b /\ g = f) /\ i \in RegisteredSlots(c, g)
    BY <1>6
  <2>2. i \in Slots /\ ~ (c = b /\ i = slot)
    BY <1>3, <2>1 DEF RegisteredSlots
  <2>3. QED
    BY <1>4, <1>5, <2>1, <2>2 DEF LeaseInv, InStep
<1>10. QED
  BY <1>7, <1>8, <1>9 DEF LeaseInv
LEMMA AgedRegistration ==
  ASSUME NEW f, NEW s \in Int, NEW seconds \in Int
  PROVE  Aged(Registration(f, s), seconds) =
           IF s <= seconds THEN Free ELSE Registration(f, s - seconds)
<1> DEFINE entry == Registration(f, s)
<1>1. entry.valid /\ entry.seconds_remaining = s
  BY DEF Registration
<1>2. CASE s <= seconds
  BY <1>1, <1>2 DEF Aged
<1>3. CASE ~ (s <= seconds)
  <2>1. Aged(entry, seconds) = [entry EXCEPT !.seconds_remaining = entry.seconds_remaining - seconds]
    BY <1>1, <1>3 DEF Aged
  <2>2. QED
    BY <1>3, <2>1 DEF Registration
<1>4. QED
  BY <1>2, <1>3

\* Without a call of the timer leases alone grow shorter.
LEMMA SecondsUntold ==
  ASSUME Inv, LeaseInv, NEW seconds \in Elapsed, SecondsPass(seconds), UNCHANGED FD_Table
  PROVE  LeaseInv'
<1>1. lease' = [b \in BBMDs |-> [f \in ForeignDevices |->
                  IF lease[b][f] <= seconds THEN 0 ELSE lease[b][f] - seconds]]
  BY DEF SecondsPass
<1>2. seconds \in Nat \ {0}
  BY BvlcAssumption
<1>3. ASSUME NEW b \in BBMDs, NEW f \in ForeignDevices
      PROVE  /\ lease[b][f] \in Nat /\ lease'[b][f] \in Nat
             /\ lease'[b][f] <= lease[b][f]
  BY <1>1, <1>2 DEF LeaseInv
<1>4. lease' \in [BBMDs -> [ForeignDevices -> Nat]]
  BY <1>1, <1>3
<1>5. \A b \in BBMDs, f \in ForeignDevices : RegisteredSlots(b, f)' = RegisteredSlots(b, f)
  BY DEF RegisteredSlots
<1>6. ListedThroughLease'
  <2> SUFFICES ASSUME NEW b \in BBMDs, NEW f \in ForeignDevices
               PROVE  lease'[b][f] > 0 => RegisteredSlots(b, f)' # {}
    BY DEF ListedThroughLease, Listed
  <2>1. lease[b][f] > 0 => RegisteredSlots(b, f) # {}
    BY DEF LeaseInv, ListedThroughLease, Listed
  <2>. QED  BY <1>3, <1>5, <2>1
<1>7. InStep'
  <2> SUFFICES ASSUME NEW b \in BBMDs, NEW f \in ForeignDevices, NEW i \in RegisteredSlots(b, f)
               PROVE  FD_Table[b][i].seconds_remaining >= lease'[b][f]
    BY <1>5 DEF InStep
  <2>1. FD_Table[b][i].seconds_remaining >= lease[b][f]
    BY DEF LeaseInv, InStep
  <2>2. FD_Table[b][i].seconds_remaining \in Int
    BY EntryFields DEF RegisteredSlots, Inv, FDTs
  <2>. QED  BY <1>3, <2>1, <2>2
<1>. QED  BY <1>4, <1>6, <1>7 DEF LeaseInv

LEMMA SecondsLease ==
  ASSUME Inv, LeaseInv, NEW seconds \in Elapsed, SecondsPass(seconds),
         FD_Table' = Purged(seconds)
  PROVE  LeaseInv'
<1>1. lease' = [b \in BBMDs |-> [f \in ForeignDevices |->
                  IF lease[b][f] <= seconds THEN 0 ELSE lease[b][f] - seconds]]
  BY DEF SecondsPass
<1>2. seconds \in Nat \ {0}
  BY BvlcAssumption
<1>3. \A b \in BBMDs, f \in ForeignDevices :
        /\ lease[b][f] \in Nat
        /\ lease'[b][f] = IF lease[b][f] <= seconds THEN 0 ELSE lease[b][f] - seconds
  BY <1>1 DEF LeaseInv
<1>4. \A b \in BBMDs, i \in Slots :
        FD_Table[b][i] \in Entry /\ FD_Table'[b][i] = Aged(FD_Table[b][i], seconds)
  BY DEF Purged, Inv, FDTs
\* An entry stays with its device as long as the lease outlasts the interval, and
\* loses no more of its time than the interval.
<1>5. ASSUME NEW b \in BBMDs, NEW f \in ForeignDevices, NEW i \in Slots
      PROVE  /\ i \in RegisteredSlots(b, f) /\ lease[b][f] > seconds =>
                  i \in RegisteredSlots(b, f)'
             /\ i \in RegisteredSlots(b, f)' =>
                  /\ FD_Table'[b][i].seconds_remaining \in Int
                  /\ FD_Table'[b][i].seconds_remaining >= lease[b][f] - seconds
                  /\ FD_Table'[b][i].seconds_remaining > 0
  <2>1. CASE ~ FD_Table[b][i].valid
    BY <1>4, <2>1 DEF Aged, RegisteredSlots
  <2>2. CASE FD_Table[b][i].valid
    <3>1. PICK g \in ForeignDevices, s \in Int : FD_Table[b][i] = Registration(g, s)
      BY <1>4, <2>2, EntryFields
    <3>2. i \in RegisteredSlots(b, g) /\ s >= lease[b][g]
      BY <3>1 DEF RegisteredSlots, Registration, LeaseInv, InStep
    <3>3. i \in RegisteredSlots(b, f) <=> f = g
      BY <3>1 DEF RegisteredSlots, Registration
    <3>4. CASE s <= seconds
      <4>1. FD_Table'[b][i] = Free
        BY <1>2, <1>4, <3>1, <3>4, AgedRegistration
      <4>2. i \notin RegisteredSlots(b, f)'
        BY <4>1 DEF RegisteredSlots, Free
      <4>3. ~ (lease[b][g] > seconds)
        BY <1>2, <1>3, <3>2, <3>4
      <4>4. QED
        BY <3>3, <4>2, <4>3
    <3>5. CASE ~ (s <= seconds)
      <4>1. FD_Table'[b][i] = Registration(g, s - seconds)
        BY <1>2, <1>4, <3>1, <3>5, AgedRegistration
      <4>2. /\ i \in RegisteredSlots(b, f)' <=> f = g
            /\ FD_Table'[b][i].seconds_remaining = s - seconds
        BY <4>1 DEF RegisteredSlots, Registration
      <4>3. s - seconds \in Int /\ s - seconds > 0 /\ s - seconds >= lease[b][g] - seconds
        BY <1>2, <1>3, <3>2, <3>5
      <4>4. QED
        BY <3>3, <4>2, <4>3
    <3>6. QED
      BY <3>4, <3>5
  <2>3. QED
    BY <2>1, <2>2
<1>6. lease' \in [BBMDs -> [ForeignDevices -> Nat]]
  <2>1. \A b \in BBMDs, f \in ForeignDevices :
          (IF lease[b][f] <= seconds THEN 0 ELSE lease[b][f] - seconds) \in Nat
    BY <1>2, <1>3
  <2>2. QED
    BY <1>1, <2>1
<1>7. ListedThroughLease'
  <2> SUFFICES ASSUME NEW b \in BBMDs, NEW f \in ForeignDevices, lease'[b][f] > 0
               PROVE  RegisteredSlots(b, f)' # {}
    BY DEF ListedThroughLease, Listed
  <2>1. lease[b][f] > seconds /\ lease[b][f] > 0
    BY <1>2, <1>3
  <2>2. PICK i \in RegisteredSlots(b, f) : TRUE
    BY <2>1 DEF LeaseInv, ListedThroughLease, Listed
  <2>3. i \in Slots
    BY DEF RegisteredSlots
  <2>4. QED
    BY <1>5, <2>1, <2>2, <2>3
<1>8. InStep'
  <2> SUFFICES ASSUME NEW b \in BBMDs, NEW f \in ForeignDevices, NEW i \in RegisteredSlots(b, f)'
               PROVE  FD_Table'[b][i].seconds_remaining >= lease'[b][f]
    BY DEF InStep
  <2>1. i \in Slots
    BY DEF RegisteredSlots
  <2>2. /\ FD_Table'[b][i].seconds_remaining \in Int
        /\ FD_Table'[b][i].seconds_remaining >= lease[b][f] - seconds
        /\ FD_Table'[b][i].seconds_remaining > 0
    BY <1>5, <2>1
  <2>3. QED
    BY <1>2, <1>3, <2>2
<1>9. QED
  BY <1>6, <1>7, <1>8 DEF LeaseInv

LEMMA SameLeaseKeeps ==
  ASSUME LeaseInv, UNCHANGED <<FD_Table, lease>>
  PROVE  LeaseInv'
BY DEF LeaseInv, ListedThroughLease, InStep, Listed, RegisteredSlots

LEMMA InitLease == Init => LeaseInv
BY DEF Init, LeaseInv, ListedThroughLease, InStep, Listed, RegisteredSlots, Free

LEMMA NextLease == Inv /\ LeaseInv /\ [Next]_vars => LeaseInv'
<1> SUFFICES ASSUME Inv, LeaseInv, [Next]_vars PROVE LeaseInv'
  OBVIOUS
<1>1. ASSUME NEW n \in Nodes, NEW b \in Nodes, Broadcast(n, b) PROVE LeaseInv'
  BY <1>1, SameLeaseKeeps DEF Broadcast, tables
<1>2. ASSUME NEW d, NEW forwarded, Handled(d, forwarded) PROVE LeaseInv'
  BY <1>2, SameLeaseKeeps DEF Handled, tables
<1>3. ASSUME NEW d, NEW b \in BBMDs, Receive(b, d) PROVE LeaseInv'
  BY <1>2, <1>3 DEF Receive, ReceiveOriginalBroadcast, ReceiveDistributeBroadcast, ReceiveForwarded
<1>4. ASSUME NEW d, NEW n \in Devices \cup ForeignDevices, ReceivePlain(n, d) PROVE LeaseInv'
  BY <1>2, <1>4 DEF ReceivePlain
<1>5. ASSUME NEW d, Lose(d) PROVE LeaseInv'
  BY <1>5, SameLeaseKeeps DEF Lose, tables
<1>6. ASSUME NEW b \in BBMDs, NEW table \in Tables, WriteBDT(b, table) PROVE LeaseInv'
  BY <1>6, SameLeaseKeeps DEF WriteBDT
<1>7. ASSUME NEW b \in BBMDs, NEW f \in ForeignDevices, NEW ttl \in TimesToLive,
             RegisterForeignDevice(b, f, ttl)
      PROVE  LeaseInv'
  BY <1>7, RegisterLease
<1>8. ASSUME NEW b \in BBMDs, NEW f \in ForeignDevices, DeleteForeignDevice(b, f) PROVE LeaseInv'
  BY <1>8, DeleteLease
<1>9. ASSUME NEW seconds \in Elapsed, SecondsPass(seconds) PROVE LeaseInv'
  <2>1. UNCHANGED FD_Table \/ FD_Table' = Purged(seconds)
    BY <1>9 DEF SecondsPass
  <2>. QED  BY <1>9, <2>1, SecondsLease, SecondsUntold
<1>10. CASE UNCHANGED vars
  BY <1>10, SameLeaseKeeps DEF vars, tables
<1>. QED
  BY <1>1, <1>3, <1>4, <1>5, <1>6, <1>7, <1>8, <1>9, <1>10 DEF Next, Nodes

\* In tables of any size and whenever the timer is called, or never: a registration stays
\* for all of its time to live and the grace period unless its device deletes it.
THEOREM ListedForItsLease == Spec => []ListedThroughLease
<1>1. LeaseInv => ListedThroughLease
  BY DEF LeaseInv
<1>2. Spec => []Inv
  BY InitInv, NextInv, PTL DEF Spec
<1>. QED  BY <1>1, <1>2, InitLease, NextLease, PTL DEF Spec
-----------------------------------------------------------------------------
\* What is under way leads away from the origin of the broadcast: an original one stays
\* on its subnet, and no BBMD is forwarded what comes from its own.
Away(d) ==
  /\ d.to # sent.origin
  /\ d.function = "original" =>
       sent.origin \in BBMDs \cup Devices /\ d.to \in OnSubnet(Subnet[sent.origin])
  /\ d.function = "distribute" => sent.origin \in ForeignDevices
  /\ d.function = "forwarded" /\ d.to \in BBMDs => sent.origin \notin OnSubnet(d.to)

BDTs == [BBMDs -> Seq([address : BBMDs, mask : Masks])]

EchoInv ==
  /\ BBMD_Table \in BDTs
  /\ sent.origin \in Nodes
  /\ heard \in [Nodes -> Nat]
  /\ NotEchoed
  /\ \A d \in BagToSet(net) : Away(d)

\* What is under way once a datagram is handled.
LEMMA UnderWay ==
  ASSUME NEW bag, NEW d, NEW forwarded
  PROVE  /\ BagToSet(BagRemove(bag, d)) \subseteq BagToSet(bag)
         /\ BagToSet(BagRemove(bag, d) (+) forwarded) \subseteq
              BagToSet(bag) \cup BagToSet(forwarded)
<1>1. DOMAIN BagRemove(bag, d) \subseteq DOMAIN bag
  BY DEF BagRemove
<1>2. DOMAIN (BagRemove(bag, d) (+) forwarded) \subseteq
        DOMAIN BagRemove(bag, d) \cup DOMAIN forwarded
  BY DEF (+)
<1>3. QED
  BY <1>1, <1>2 DEF BagToSet

LEMMA Joined ==
  ASSUME NEW bag1, NEW bag2
  PROVE  BagToSet(bag1 (+) bag2) = BagToSet(bag1) \cup BagToSet(bag2)
BY DEF (+), BagToSet

LEMMA CopiesMade ==
  ASSUME NEW function, NEW from, NEW count, NEW d \in BagToSet(Copies(function, from, count))
  PROVE  \E n \in Nodes : count[n] > 0 /\ d = [function |-> function, from |-> from, to |-> n]
BY DEF Copies, BagToSet
\* A node to forward to that is not the origin, nor the BBMD of its subnet.
Elsewhere(n) == n # sent.origin /\ (n \in BBMDs => sent.origin \notin OnSubnet(n))

LEMMA Counted == ASSUME NEW S, Cardinality(S) > 0 PROVE S # {}
<1> SUFFICES ASSUME S = {} PROVE Cardinality(S) = 0
  OBVIOUS
<1>1. QED
  BY DEF Cardinality

LEMMA ForwardedAway ==
  ASSUME NEW b, NEW count, \A n \in Nodes : count[n] > 0 => Elsewhere(n)
  PROVE  \A d \in BagToSet(Forwarded(b, count)) : Away(d)
<1> SUFFICES ASSUME NEW d \in BagToSet(Forwarded(b, count)) PROVE Away(d)
  OBVIOUS
<1>1. PICK n \in Nodes : count[n] > 0 /\ d = [function |-> "forwarded", from |-> b, to |-> n]
  BY CopiesMade DEF Forwarded
<1>2. Elsewhere(n)
  BY <1>1
<1>3. QED
  BY <1>1, <1>2 DEF Away, Elsewhere

LEMMA ElementOf ==
  ASSUME NEW S, NEW list \in Seq(S), NEW i \in DOMAIN list
  PROVE  list[i] \in S
OBVIOUS

\* No entry of the BDT reaches the subnet of the BBMD it is in.
LEMMA BdtElsewhere ==
  ASSUME EchoInv, NEW b \in BBMDs, sent.origin \in ForeignDevices \cup OnSubnet(b)
  PROVE  \A n \in Nodes : BdtForward(b)[n] > 0 => Elsewhere(n)
<1> SUFFICES ASSUME NEW n \in Nodes, BdtForward(b)[n] > 0 PROVE Elsewhere(n)
  OBVIOUS
<1>1. PICK i \in DOMAIN BBMD_Table[b] : n \in Reached(b, BBMD_Table[b][i])
  <2> DEFINE reaching == {i \in DOMAIN BBMD_Table[b] : n \in Reached(b, BBMD_Table[b][i])}
  <2>1. Cardinality(reaching) > 0
    BY DEF BdtForward
  <2>2. reaching # {}
    BY <2>1, Counted
  <2>3. QED
    BY <2>2
<1>2. BBMD_Table[b][i].address \in BBMDs
  <2>1. BBMD_Table[b] \in Seq([address : BBMDs, mask : Masks])
    BY DEF EchoInv, BDTs
  <2>2. BBMD_Table[b][i] \in [address : BBMDs, mask : Masks]
    BY <2>1, ElementOf
  <2>3. QED
    BY <2>2
<1>3. PICK c \in BBMDs : c # b /\ n \in OnSubnet(c)
  BY <1>1, <1>2, BvlcAssumption DEF Reached, OnSubnet
<1>4. n \in BBMDs \cup Devices /\ Subnet[n] = c
  BY <1>3 DEF OnSubnet
<1>5. n \in BBMDs => n = c
  BY <1>4, BvlcAssumption
<1>6. sent.origin \notin OnSubnet(c)
  BY <1>3, BvlcAssumption DEF OnSubnet
<1>7. n # sent.origin
  BY <1>3, <1>6
<1>8. QED
  BY <1>5, <1>6, <1>7 DEF Elsewhere

LEMMA FdtElsewhere ==
  ASSUME Inv, NEW b \in BBMDs
  PROVE  \A n \in Nodes : FdtForward(b)[n] > 0 => Elsewhere(n)
<1> SUFFICES ASSUME NEW n \in Nodes, FdtForward(b)[n] > 0 PROVE Elsewhere(n)
  OBVIOUS
<1>1. n # sent.origin /\ Cardinality(RegisteredSlots(b, n)) > 0
  BY DEF FdtForward
<1>2. RegisteredSlots(b, n) # {}
  BY <1>1, Counted
<1>3. PICK i \in Slots : FD_Table[b][i].valid /\ FD_Table[b][i].dest_address = n
  BY <1>2 DEF RegisteredSlots
<1>4. FD_Table[b][i] \in Entry
  BY DEF Inv, FDTs
<1>5. n \in ForeignDevices
  BY <1>3, <1>4, EntryFields
<1>6. QED
  BY <1>1, <1>5, BvlcAssumption DEF Elsewhere

LEMMA LocalElsewhere ==
  ASSUME NEW b \in BBMDs, sent.origin \notin OnSubnet(b)
  PROVE  \A n \in Nodes : LocalBroadcast(b)[n] > 0 => Elsewhere(n)
<1> SUFFICES ASSUME NEW n \in Nodes, LocalBroadcast(b)[n] > 0 PROVE Elsewhere(n)
  OBVIOUS
<1>1. n \in OnSubnet(b) \ {b}
  BY BvlcAssumption DEF LocalBroadcast
<1>2. n \notin BBMDs
  BY <1>1, BvlcAssumption DEF OnSubnet
<1>3. QED
  BY <1>1, <1>2 DEF Elsewhere

\* Handling what is under way keeps the invariant if what is forwarded leads away.
LEMMA HandledAway ==
  ASSUME EchoInv, NEW d, NEW forwarded, Handled(d, forwarded),
         \A e \in BagToSet(forwarded) : Away(e),
         d.to \in Nodes, Hears(d.to) \/ UNCHANGED heard
  PROVE  EchoInv'
<1>1. d \in BagToSet(net) /\ net' = BagRemove(net, d) (+) forwarded
  BY DEF Handled
<1>2. sent' = sent /\ BBMD_Table' = BBMD_Table
  BY DEF Handled, tables
<1>3. \A e : Away(e)' <=> Away(e)
  BY <1>2 DEF Away
<1>4. \A e \in BagToSet(net') : Away(e)
  <2>1. BagToSet(net') \subseteq BagToSet(net) \cup BagToSet(forwarded)
    BY <1>1, UnderWay
  <2>2. QED
    BY <2>1 DEF EchoInv
<1>5. d.to # sent.origin
  BY <1>1 DEF EchoInv, Away
<1>6. heard' \in [Nodes -> Nat] /\ heard'[sent.origin] = heard[sent.origin]
  <2>1. CASE UNCHANGED heard
    BY <2>1 DEF EchoInv
  <2>2. CASE Hears(d.to)
    <3>1. heard' = [heard EXCEPT ![d.to] = IF heard[d.to] < 2 THEN heard[d.to] + 1 ELSE heard[d.to]]
      BY <2>2 DEF Hears
    <3>2. QED
      BY <1>5, <3>1 DEF EchoInv
  <2>3. QED
    BY <2>1, <2>2
<1>7. QED
  BY <1>2, <1>3, <1>4, <1>6 DEF EchoInv, NotEchoed

LEMMA ReceiveEcho ==
  ASSUME Inv, EchoInv, NEW d \in BagToSet(net), NEW b \in BBMDs, Receive(b, d)
  PROVE  EchoInv'
<1> DEFINE relay == Forwarded(b, BdtForward(b))
           clients == Forwarded(b, FdtForward(b))
           local == Forwarded(b, LocalBroadcast(b))
<1>1. Away(d) /\ sent.origin \in Nodes /\ b \in Nodes
  BY DEF EchoInv, Nodes
<1>2. \A e \in BagToSet(clients) : Away(e)
  BY FdtElsewhere, ForwardedAway
<1>3. sent.origin \in ForeignDevices \cup OnSubnet(b) => \A e \in BagToSet(relay) : Away(e)
  BY BdtElsewhere, ForwardedAway
<1>4. sent.origin \notin OnSubnet(b) => \A e \in BagToSet(local) : Away(e)
  BY LocalElsewhere, ForwardedAway
<1> HIDE DEF relay, clients, local
<1>5. CASE ReceiveOriginalBroadcast(b, d)
  <2>1. d.to = b /\ d.function = "original" /\ Handled(d, relay (+) clients) /\ Hears(b)
    BY <1>5 DEF ReceiveOriginalBroadcast, relay, clients
  <2>2. sent.origin \in OnSubnet(b)
    BY <1>1, <2>1, BvlcAssumption DEF Away, OnSubnet
  <2>3. \A e \in BagToSet(relay (+) clients) : Away(e)
    BY <1>2, <1>3, <2>2, Joined
  <2>4. QED
    BY <1>1, <2>1, <2>3, HandledAway
<1>6. CASE ReceiveDistributeBroadcast(b, d)
  <2>1. /\ d.to = b /\ d.function = "distribute"
        /\ Handled(d, local (+) relay (+) clients)
        /\ UNCHANGED heard
    BY <1>6 DEF ReceiveDistributeBroadcast, relay, clients, local
  <2>2. sent.origin \in ForeignDevices
    BY <1>1, <2>1 DEF Away
  <2>3. sent.origin \notin OnSubnet(b)
    BY <2>2, BvlcAssumption DEF OnSubnet
  <2>4. BagToSet(local (+) relay (+) clients) = BagToSet(local) \cup BagToSet(relay) \cup BagToSet(clients)
    BY Joined
  <2>5. \A e \in BagToSet(local (+) relay (+) clients) : Away(e)
    BY <1>2, <1>3, <1>4, <2>2, <2>3, <2>4
  <2>6. QED
    BY <1>1, <2>1, <2>5, HandledAway
<1>7. CASE ReceiveForwarded(b, d)
  <2> DEFINE subnet == IF MaskIsUnicast(b, d.from) THEN local ELSE EmptyBag
  <2>1. d.to = b /\ d.function = "forwarded" /\ Handled(d, subnet (+) clients) /\ Hears(b)
    BY <1>7 DEF ReceiveForwarded, clients, local
  <2>2. sent.origin \notin OnSubnet(b)
    BY <1>1, <2>1 DEF Away
  <2>3. \A e \in BagToSet(subnet) : Away(e)
    <3>1. BagToSet(EmptyBag) = {}
      BY DEF EmptyBag, SetToBag, BagToSet
    <3>2. QED
      BY <1>4, <2>2, <3>1
  <2> HIDE DEF subnet
  <2>4. \A e \in BagToSet(subnet (+) clients) : Away(e)
    BY <1>2, <2>3, Joined
  <2>5. QED
    BY <1>1, <2>1, <2>4, HandledAway
<1>8. QED
  BY <1>5, <1>6, <1>7 DEF Receive
LEMMA PlainEcho ==
  ASSUME EchoInv, NEW d \in BagToSet(net), NEW n \in Devices \cup ForeignDevices, ReceivePlain(n, d)
  PROVE  EchoInv'
<1>1. d.to = n /\ Handled(d, EmptyBag) /\ Hears(n)
  BY DEF ReceivePlain
<1>2. BagToSet(EmptyBag) = {}
  BY DEF EmptyBag, SetToBag, BagToSet
<1>3. QED
  BY <1>1, <1>2, HandledAway DEF Nodes

LEMMA LoseEcho ==
  ASSUME EchoInv, NEW d \in BagToSet(net), Lose(d)
  PROVE  EchoInv'
<1>1. net' = BagRemove(net, d) /\ UNCHANGED <<BBMD_Table, sent, heard>>
  BY DEF Lose, tables
<1>2. BagToSet(net') \subseteq BagToSet(net)
  BY <1>1, UnderWay
<1>3. QED
  BY <1>1, <1>2 DEF EchoInv, NotEchoed, Away

\* A broadcast starts on the subnet of its origin, or on its way to a BBMD.
LEMMA BroadcastEcho ==
  ASSUME EchoInv, NEW n, NEW bbmd,
         n \in BBMDs \cup Devices \/ (n \in ForeignDevices /\ bbmd \in BBMDs),
         Broadcast(n, bbmd)
  PROVE  EchoInv'
<1>1. /\ sent' = [origin |-> n, bbmd |-> bbmd]
      /\ heard' = [m \in Nodes |-> 0]
      /\ BBMD_Table' = BBMD_Table
      /\ net' = IF n \in ForeignDevices
                THEN SetToBag({[function |-> "distribute", from |-> n, to |-> bbmd]})
                ELSE Copies("original", n, LocalBroadcast(n))
  BY DEF Broadcast, tables
<1>2. sent'.origin = n /\ n \in Nodes
  BY <1>1 DEF Nodes
<1>3. ASSUME NEW d \in BagToSet(net') PROVE Away(d)'
  <2>1. CASE n \in ForeignDevices
    <3>1. bbmd \in BBMDs /\ bbmd # n
      BY <2>1, BvlcAssumption
    <3>2. d = [function |-> "distribute", from |-> n, to |-> bbmd]
      BY <1>1, <2>1 DEF SetToBag, BagToSet
    <3>3. d.function = "distribute" /\ d.to = bbmd
      BY <3>2
    <3>4. QED
      BY <1>2, <2>1, <3>1, <3>3 DEF Away
  <2>2. CASE n \notin ForeignDevices
    <3>1. PICK m \in Nodes : /\ LocalBroadcast(n)[m] > 0
                             /\ d = [function |-> "original", from |-> n, to |-> m]
      BY <1>1, <2>2, CopiesMade
    <3>2. m \in OnSubnet(Subnet[n]) \ {n}
      BY <3>1 DEF LocalBroadcast
    <3>3. d.function = "original" /\ d.to = m
      BY <3>1
    <3>4. n \in BBMDs \cup Devices
      BY <2>2
    <3>5. QED
      BY <1>2, <3>2, <3>3, <3>4 DEF Away
  <2>3. QED
    BY <2>1, <2>2
<1>4. heard' \in [Nodes -> Nat] /\ heard'[sent'.origin] = 0
  BY <1>1, <1>2
<1>5. QED
  BY <1>1, <1>2, <1>3, <1>4 DEF EchoInv, NotEchoed

LEMMA WriteBDTEcho ==
  ASSUME EchoInv, NEW b \in BBMDs, NEW table \in Tables, WriteBDT(b, table)
  PROVE  EchoInv'
<1> DEFINE S == [address : BBMDs, mask : Masks]
<1>1. BBMD_Table' = [BBMD_Table EXCEPT ![b] = Created(table)]
  BY DEF WriteBDT
<1>2. table \in Seq(S)
  BY BvlcAssumption
<1> HIDE DEF S
<1>3. Created(table) \in Seq(S)
  BY <1>2, BvlcAssumption DEF Created
<1>4. BBMD_Table' \in BDTs
  BY <1>1, <1>3 DEF EchoInv, BDTs, S
<1>5. UNCHANGED <<sent, heard, net>>
  BY DEF WriteBDT, traffic
<1>6. QED
  BY <1>4, <1>5 DEF EchoInv, NotEchoed, Away

LEMMA SameTrafficKeeps ==
  ASSUME EchoInv, UNCHANGED <<BBMD_Table, traffic>>
  PROVE  EchoInv'
BY DEF EchoInv, NotEchoed, Away, traffic

LEMMA InitEcho == Init => EchoInv
<1> SUFFICES ASSUME Init PROVE EchoInv
  OBVIOUS
<1>1. BagToSet(net) = {}
  BY DEF Init, EmptyBag, SetToBag, BagToSet
<1>2. sent.origin \in Nodes
  BY DEF Init, Nodes
<1>3. heard \in [Nodes -> Nat] /\ NotEchoed
  BY <1>2 DEF Init, NotEchoed
<1>4. BBMD_Table \in BDTs
  BY DEF Init, BDTs
<1>5. QED
  BY <1>1, <1>2, <1>3, <1>4 DEF EchoInv

LEMMA NextEcho == Inv /\ EchoInv /\ [Next]_vars => EchoInv'
<1> SUFFICES ASSUME Inv, EchoInv, [Next]_vars PROVE EchoInv'
  OBVIOUS
<1>1. ASSUME NEW n \in BBMDs \cup Devices, Broadcast(n, n) PROVE EchoInv'
  BY <1>1, BroadcastEcho
<1>2. ASSUME NEW f \in ForeignDevices, NEW b \in BBMDs, Broadcast(f, b) PROVE EchoInv'
  BY <1>2, BroadcastEcho
<1>3. ASSUME NEW d \in BagToSet(net), NEW b \in BBMDs, Receive(b, d) PROVE EchoInv'
  BY <1>3, ReceiveEcho
<1>4. ASSUME NEW d \in BagToSet(net), NEW n \in Devices \cup ForeignDevices, ReceivePlain(n, d)
      PROVE  EchoInv'
  BY <1>4, PlainEcho
<1>5. ASSUME NEW d \in BagToSet(net), Lose(d) PROVE EchoInv'
  BY <1>5, LoseEcho
<1>6. ASSUME NEW b \in BBMDs, NEW table \in Tables, WriteBDT(b, table) PROVE EchoInv'
  BY <1>6, WriteBDTEcho
<1>7. ASSUME NEW b \in BBMDs, NEW f \in ForeignDevices, NEW ttl \in TimesToLive,
             RegisterForeignDevice(b, f, ttl)
      PROVE  EchoInv'
  BY <1>7, SameTrafficKeeps DEF RegisterForeignDevice
<1>8. ASSUME NEW b \in BBMDs, NEW f \in ForeignDevices, DeleteForeignDevice(b, f) PROVE EchoInv'
  BY <1>8, SameTrafficKeeps DEF DeleteForeignDevice
<1>9. ASSUME NEW seconds \in Elapsed, SecondsPass(seconds) PROVE EchoInv'
  BY <1>9, SameTrafficKeeps DEF SecondsPass
<1>10. CASE UNCHANGED vars
  BY <1>10, SameTrafficKeeps DEF vars, tables
<1>. QED
  BY <1>1, <1>2, <1>3, <1>4, <1>5, <1>6, <1>7, <1>8, <1>9, <1>10 DEF Next

\* No chain of forwarding by bvlc_receive leads a broadcast back to its origin, whatever
\* administrators write into the tables, also while it is under way.
THEOREM NeverEchoed == Spec => []NotEchoed
<1>1. EchoInv => NotEchoed
  BY DEF EchoInv
<1>2. Spec => []Inv
  BY InitInv, NextInv, PTL DEF Spec
<1>. QED  BY <1>1, <1>2, InitEcho, NextEcho, PTL DEF Spec

-----------------------------------------------------------------------------
(***************************************************************************)
(* Whom a broadcast reaches, for any subnets, tables and foreign devices:  *)
(* with distribution tables of one kind of mask nobody gets it twice, and  *)
(* with identical and complete ones, if no datagram is lost, everybody     *)
(* gets it.                                                                *)
(*                                                                         *)
(* Both follow the tree a broadcast takes: from its origin to the BBMD of  *)
(* the subnet it starts on (Home), from there to the other BBMDs, and from *)
(* a BBMD to its subnet and to the foreign devices registered with it.     *)
(***************************************************************************)
\* Datagrams under way are counted, and lead from node to node.
NetTyped == IsABag(net) /\ BagToSet(net) \subseteq Datagram

TypeInv == TypeOK /\ BBMD_Table \in BDTs

\* TypeOK, of the tables and of the traffic.
BDTTyped ==
  \A b \in BBMDs : /\ BBMD_Table[b] \in Seq([address : BBMDs, mask : Masks])
                  /\ Len(BBMD_Table[b]) <= MAX_BBMD_ENTRIES
FDTTyped ==
  /\ FD_Table \in [BBMDs -> [Slots -> FDEntries]]
  /\ lease \in [BBMDs -> [ForeignDevices -> Seconds]]
TrafficTyped ==
  /\ NetTyped
  /\ sent \in [origin : Nodes, bbmd : Nodes]
  /\ heard \in [Nodes -> 0 .. 2]
  /\ undisturbed \in BOOLEAN /\ lost \in BOOLEAN

LEMMA TypeParts == TypeInv <=> BBMD_Table \in BDTs /\ BDTTyped /\ FDTTyped /\ TrafficTyped
BY Zenon DEF TypeInv, TypeOK, BDTTyped, FDTTyped, TrafficTyped, NetTyped

-----------------------------------------------------------------------------
LEMMA CardinalityIsCount == ASSUME NEW S PROVE Cardinality(S) = Count(S)
BY DEF Count, Cardinality

\* Some places of a table are counted.
LEMMA PlacesCounted ==
  ASSUME NEW n \in Nat, NEW S \in SUBSET (1 .. n), S # {}
  PROVE  Cardinality(S) > 0
<1>1. Count(S) \in Nat /\ Count(S) # 0
  BY CountOfPlaces
<1>2. Cardinality(S) = Count(S)
  BY CardinalityIsCount
<1>. QED  BY <1>1, <1>2

LEMMA BagFacts ==
  /\ IsABag(EmptyBag) /\ BagToSet(EmptyBag) = {}
  /\ \A x : IsABag(SetToBag({x})) /\ BagToSet(SetToBag({x})) = {x}
  /\ \A bag, x : IsABag(bag) => IsABag(BagRemove(bag, x))
  /\ \A bag1, bag2 : IsABag(bag1) /\ IsABag(bag2) => IsABag(bag1 (+) bag2)
<1>1. IsABag(EmptyBag) /\ BagToSet(EmptyBag) = {}
  BY DEF EmptyBag, SetToBag, IsABag, BagToSet
<1>2. \A x : IsABag(SetToBag({x})) /\ BagToSet(SetToBag({x})) = {x}
  BY DEF SetToBag, IsABag, BagToSet
<1>3. ASSUME NEW bag, NEW x, IsABag(bag) PROVE IsABag(BagRemove(bag, x))
  <2>1. \A e \in DOMAIN bag : bag[e] \in Nat /\ bag[e] > 0
    BY <1>3 DEF IsABag
  <2>2. bag = [e \in DOMAIN bag |-> bag[e]]
    BY <1>3 DEF IsABag
  <2>. QED  BY <2>1, <2>2 DEF BagRemove, IsABag
<1>4. ASSUME NEW bag1, NEW bag2, IsABag(bag1), IsABag(bag2) PROVE IsABag(bag1 (+) bag2)
  <2>1. \A e \in DOMAIN bag1 : bag1[e] \in Nat /\ bag1[e] > 0
    BY <1>4 DEF IsABag
  <2>2. \A e \in DOMAIN bag2 : bag2[e] \in Nat /\ bag2[e] > 0
    BY <1>4 DEF IsABag
  <2>. QED  BY <2>1, <2>2 DEF (+), IsABag
<1>. QED  BY <1>1, <1>2, <1>3, <1>4

LEMMA CopiesTyped ==
  ASSUME NEW function \in Functions, NEW from \in Nodes, NEW count,
         \A n \in Nodes : count[n] \in Nat
  PROVE  /\ IsABag(Copies(function, from, count))
         /\ BagToSet(Copies(function, from, count)) \subseteq Datagram
<1> DEFINE D == {[function |-> function, from |-> from, to |-> n] :
                   n \in {n \in Nodes : count[n] > 0}}
<1>1. \A d \in D : d \in Datagram /\ count[d.to] \in Nat /\ count[d.to] > 0
  BY DEF Datagram
<1>2. Copies(function, from, count) = [d \in D |-> count[d.to]]
  BY DEF Copies
<1> HIDE DEF D
<1>. QED  BY <1>1, <1>2 DEF IsABag, BagToSet

\* What a BBMD forwards is counted by the entries of its tables.
LEMMA CountsAreNat ==
  ASSUME TypeInv, NEW b \in BBMDs
  PROVE  \A n \in Nodes : /\ LocalBroadcast(b)[n] \in Nat
                          /\ BdtForward(b)[n] \in Nat
                          /\ FdtForward(b)[n] \in Nat
<1> SUFFICES ASSUME NEW n \in Nodes
             PROVE  /\ LocalBroadcast(b)[n] \in Nat
                    /\ BdtForward(b)[n] \in Nat
                    /\ FdtForward(b)[n] \in Nat
  OBVIOUS
<1>1. LocalBroadcast(b)[n] \in Nat
  BY DEF LocalBroadcast
<1>2. BdtForward(b)[n] \in Nat
  <2> DEFINE S == {i \in DOMAIN BBMD_Table[b] : n \in Reached(b, BBMD_Table[b][i])}
  <2>1. Len(BBMD_Table[b]) \in Nat /\ DOMAIN BBMD_Table[b] = 1 .. Len(BBMD_Table[b])
    BY DEF TypeInv, BDTs
  <2>2. S \in SUBSET (1 .. Len(BBMD_Table[b]))
    BY <2>1
  <2>3. BdtForward(b)[n] = Cardinality(S)
    BY DEF BdtForward
  <2> HIDE DEF S
  <2>. QED  BY <2>1, <2>2, <2>3, CountOfPlaces, CardinalityIsCount
<1>3. FdtForward(b)[n] \in Nat
  <2>1. RegisteredSlots(b, n) \in SUBSET (1 .. MAX_FD_ENTRIES)
    BY DEF RegisteredSlots, Slots
  <2>2. Cardinality(RegisteredSlots(b, n)) \in Nat
    BY <2>1, BvlcAssumption, CountOfPlaces, CardinalityIsCount
  <2>. QED  BY <2>2 DEF FdtForward
<1>. QED  BY <1>1, <1>2, <1>3

LEMMA ForwardedTyped ==
  ASSUME TypeInv, NEW b \in BBMDs
  PROVE  /\ IsABag(Forwarded(b, LocalBroadcast(b)))
         /\ BagToSet(Forwarded(b, LocalBroadcast(b))) \subseteq Datagram
         /\ IsABag(Forwarded(b, BdtForward(b)))
         /\ BagToSet(Forwarded(b, BdtForward(b))) \subseteq Datagram
         /\ IsABag(Forwarded(b, FdtForward(b)))
         /\ BagToSet(Forwarded(b, FdtForward(b))) \subseteq Datagram
<1>1. b \in Nodes /\ "forwarded" \in Functions
  BY DEF Nodes, Functions
<1>. QED  BY <1>1, CountsAreNat, CopiesTyped DEF Forwarded

\* Handling a datagram leaves a typed network if what is forwarded is typed.
LEMMA HandledTyped ==
  ASSUME TypeInv, NEW d, NEW forwarded, Handled(d, forwarded),
         IsABag(forwarded), BagToSet(forwarded) \subseteq Datagram,
         d.to \in Nodes, Hears(d.to) \/ UNCHANGED heard
  PROVE  TypeInv'
<1>1. net' = BagRemove(net, d) (+) forwarded /\ UNCHANGED <<tables, sent, undisturbed, lost, lease>>
  BY DEF Handled
<1>2. NetTyped'
  BY <1>1, UnderWay, BagFacts DEF TypeInv, TypeOK, NetTyped
<1>3. heard' \in [Nodes -> 0 .. 2]
  BY DEF Hears, TypeInv, TypeOK
<1>4. TrafficTyped'
  BY <1>1, <1>2, <1>3, TypeParts DEF TrafficTyped
<1>5. FDTTyped'
  <2>1. FDTTyped /\ FD_Table' = FD_Table /\ lease' = lease
    BY <1>1, TypeParts DEF tables
  <2>. QED  BY <2>1 DEF FDTTyped
<1>6. BDTTyped' /\ (BBMD_Table \in BDTs)'
  <2>1. BDTTyped /\ BBMD_Table' = BBMD_Table /\ BBMD_Table \in BDTs
    BY <1>1, TypeParts DEF tables
  <2>. QED  BY <2>1 DEF BDTTyped
<1>. QED  BY <1>4, <1>5, <1>6 DEF TypeInv, TypeOK, BDTTyped, FDTTyped, TrafficTyped, NetTyped

LEMMA ReceiveTyped ==
  ASSUME TypeInv, NEW d \in BagToSet(net), NEW b \in BBMDs, Receive(b, d)
  PROVE  TypeInv'
<1> DEFINE relay == Forwarded(b, BdtForward(b))
           clients == Forwarded(b, FdtForward(b))
           local == Forwarded(b, LocalBroadcast(b))
           subnet == IF MaskIsUnicast(b, d.from) THEN local ELSE EmptyBag
<1>1. /\ IsABag(relay) /\ BagToSet(relay) \subseteq Datagram
      /\ IsABag(clients) /\ BagToSet(clients) \subseteq Datagram
      /\ IsABag(local) /\ BagToSet(local) \subseteq Datagram
  BY ForwardedTyped
<1>2. IsABag(subnet) /\ BagToSet(subnet) \subseteq Datagram
  BY <1>1, BagFacts
<1>3. b \in Nodes
  BY DEF Nodes
<1>4. \/ d.to = b /\ Handled(d, relay (+) clients) /\ Hears(b)
      \/ d.to = b /\ Handled(d, local (+) relay (+) clients) /\ UNCHANGED heard
      \/ d.to = b /\ Handled(d, subnet (+) clients) /\ Hears(b)
  BY DEF Receive, ReceiveOriginalBroadcast, ReceiveDistributeBroadcast, ReceiveForwarded
<1> HIDE DEF relay, clients, local, subnet
<1>5. IsABag(relay (+) clients) /\ BagToSet(relay (+) clients) \subseteq Datagram
  BY <1>1, BagFacts, Joined
<1>6. /\ IsABag(local (+) relay (+) clients)
      /\ BagToSet(local (+) relay (+) clients) \subseteq Datagram
  <2>1. IsABag(local (+) relay) /\ BagToSet(local (+) relay) \subseteq Datagram
    BY <1>1, BagFacts, Joined
  <2>. QED  BY <1>1, <2>1, BagFacts, Joined
<1>7. IsABag(subnet (+) clients) /\ BagToSet(subnet (+) clients) \subseteq Datagram
  BY <1>1, <1>2, BagFacts, Joined
<1>. QED  BY <1>3, <1>4, <1>5, <1>6, <1>7, HandledTyped

LEMMA SameTablesTyped ==
  ASSUME TypeInv, UNCHANGED <<tables, lease>>, TrafficTyped'
  PROVE  TypeInv'
<1>1. BDTTyped /\ FDTTyped /\ BBMD_Table \in BDTs /\ UNCHANGED <<BBMD_Table, FD_Table, lease>>
  BY TypeParts DEF tables
<1>2. BDTTyped' /\ FDTTyped' /\ BBMD_Table' \in BDTs
  BY <1>1 DEF BDTTyped, FDTTyped
<1>. QED
  BY <1>2 DEF TypeInv, TypeOK, BDTTyped, FDTTyped, TrafficTyped, NetTyped, BDTs

LEMMA SameTrafficTyped ==
  ASSUME TypeInv, UNCHANGED traffic, undisturbed' \in BOOLEAN,
         FDTTyped', BDTTyped', BBMD_Table' \in BDTs
  PROVE  TypeInv'
<1>1. TrafficTyped /\ UNCHANGED <<net, sent, heard, lost>>
  BY TypeParts DEF traffic
<1>2. TrafficTyped'
  BY <1>1 DEF TrafficTyped, NetTyped
<1>. QED
  BY <1>2 DEF TypeInv, TypeOK, BDTTyped, FDTTyped, TrafficTyped, NetTyped, BDTs

LEMMA LoseTyped ==
  ASSUME TypeInv, NEW d, Lose(d)
  PROVE  TypeInv'
<1>1. NetTyped'
  BY UnderWay, BagFacts DEF Lose, NetTyped, TypeInv, TypeOK
<1>2. TrafficTyped'
  BY <1>1 DEF Lose, TrafficTyped, TypeInv, TypeOK
<1>. QED  BY <1>2, SameTablesTyped DEF Lose

LEMMA BroadcastTyped ==
  ASSUME TypeInv, NEW n \in Nodes, NEW bbmd \in Nodes, Broadcast(n, bbmd)
  PROVE  TypeInv'
<1>1. net' = IF n \in ForeignDevices
             THEN SetToBag({[function |-> "distribute", from |-> n, to |-> bbmd]})
             ELSE Copies("original", n, LocalBroadcast(n))
  BY DEF Broadcast
<1>2. NetTyped'
  <2>1. CASE n \in ForeignDevices
    <3>1. [function |-> "distribute", from |-> n, to |-> bbmd] \in Datagram
      BY DEF Datagram, Functions
    <3>. QED  BY <1>1, <2>1, <3>1, BagFacts DEF NetTyped
  <2>2. CASE n \notin ForeignDevices
    <3>1. \A m \in Nodes : LocalBroadcast(n)[m] \in Nat
      BY DEF LocalBroadcast
    <3>2. "original" \in Functions
      BY DEF Functions
    <3>. QED  BY <1>1, <2>2, <3>1, <3>2, CopiesTyped DEF NetTyped
  <2>. QED  BY <2>1, <2>2
<1>3. /\ sent' \in [origin : Nodes, bbmd : Nodes]
      /\ heard' \in [Nodes -> 0 .. 2]
      /\ undisturbed' \in BOOLEAN /\ lost' \in BOOLEAN
  <2>1. heard' = [m \in Nodes |-> 0] /\ 0 \in 0 .. 2
    BY DEF Broadcast
  <2>2. heard' \in [Nodes -> 0 .. 2]
    BY <2>1
  <2>. QED  BY <2>2 DEF Broadcast
<1>4. TrafficTyped'
  BY <1>2, <1>3 DEF TrafficTyped
<1>. QED  BY <1>4, SameTablesTyped DEF Broadcast

LEMMA WriteBDTTyped ==
  ASSUME TypeInv, NEW b \in BBMDs, NEW table \in Tables, WriteBDT(b, table)
  PROVE  TypeInv'
<1> DEFINE S == [address : BBMDs, mask : Masks]
<1>1. BBMD_Table' = [BBMD_Table EXCEPT ![b] = Created(table)]
  BY DEF WriteBDT
<1>2. table \in Seq(S) /\ MAX_BBMD_ENTRIES \in Nat
  BY BvlcAssumption
<1>3. BBMD_Table \in [BBMDs -> Seq(S)] /\ BDTTyped
  BY TypeParts DEF BDTs
<1>4. \A c \in BBMDs : Len(BBMD_Table[c]) <= MAX_BBMD_ENTRIES
  BY <1>3 DEF BDTTyped
<1> HIDE DEF S
<1>5. Created(table) \in Seq(S) /\ Len(Created(table)) <= MAX_BBMD_ENTRIES
  BY <1>2 DEF Created
<1>6. BBMD_Table' \in [BBMDs -> Seq(S)]
  BY <1>1, <1>3, <1>5
<1>7. \A c \in BBMDs : Len(BBMD_Table'[c]) <= MAX_BBMD_ENTRIES
  BY <1>1, <1>3, <1>4, <1>5
<1>8. BDTTyped' /\ BBMD_Table' \in BDTs
  BY <1>6, <1>7 DEF BDTTyped, BDTs, S
<1>9. FDTTyped' /\ undisturbed' \in BOOLEAN /\ UNCHANGED traffic
  <2>1. FDTTyped
    BY TypeParts
  <2>. QED  BY <2>1 DEF FDTTyped, WriteBDT
<1>. QED  BY <1>8, <1>9, SameTrafficTyped

\* Seconds and the entries that have them.
LEMMA SecondsFacts ==
  /\ Seconds \subseteq Nat
  /\ 0 \in Seconds
  /\ \A ttl \in TimesToLive : ttl + Grace \in Seconds \ {0}
  /\ \A s \in Seconds, e \in Int : e >= 0 /\ e < s => s - e \in Seconds \ {0}
<1>1. \A l \in Leases : l \in Nat /\ l # 0
  BY BvlcAssumption DEF Leases
<1>2. \A s : s \in Seconds <=> s = 0 \/ \E l \in Leases : s \in 0 .. l
  BY DEF Seconds
<1>3. \A ttl \in TimesToLive : ttl + Grace \in Leases
  BY DEF Leases
<1>. QED  BY <1>1, <1>2, <1>3

LEMMA FDEntryFields ==
  ASSUME NEW entry \in FDEntries
  PROVE  \/ entry = Free /\ ~ entry.valid
         \/ \E f \in ForeignDevices, s \in Seconds \ {0} :
              entry = Registration(f, s) /\ entry.valid /\ entry.seconds_remaining = s
BY DEF FDEntries, Free, Registration

LEMMA AgedTyped ==
  ASSUME NEW entry \in FDEntries, NEW seconds \in Nat
  PROVE  Aged(entry, seconds) \in FDEntries
<1>1. CASE entry = Free /\ ~ entry.valid
  BY <1>1 DEF Aged
<1>2. CASE \E f \in ForeignDevices, s \in Seconds \ {0} :
             entry = Registration(f, s) /\ entry.valid /\ entry.seconds_remaining = s
  <2>1. PICK f \in ForeignDevices, s \in Seconds \ {0} :
               entry = Registration(f, s) /\ entry.valid /\ entry.seconds_remaining = s
    BY <1>2
  <2>2. CASE s <= seconds
    BY <2>1, <2>2 DEF Aged, FDEntries
  <2>3. CASE ~ (s <= seconds)
    <3>1. s - seconds \in Seconds \ {0}
      BY <2>3, SecondsFacts
    <3>2. Aged(entry, seconds) = Registration(f, s - seconds)
      BY <2>1, <2>3 DEF Aged, Registration
    <3>. QED  BY <3>1, <3>2 DEF FDEntries
  <2>. QED  BY <2>2, <2>3
<1>. QED  BY <1>1, <1>2, FDEntryFields

LEMMA RegistryTyped ==
  ASSUME TypeInv, NEW b \in BBMDs, NEW i \in Slots, NEW entry \in FDEntries,
         NEW f \in ForeignDevices, NEW s \in Seconds,
         FD_Table' = [FD_Table EXCEPT ![b][i] = entry],
         lease' = [lease EXCEPT ![b][f] = s]
  PROVE  FDTTyped'
<1>1. /\ FD_Table \in [BBMDs -> [Slots -> FDEntries]]
      /\ lease \in [BBMDs -> [ForeignDevices -> Seconds]]
  BY TypeParts DEF FDTTyped
<1>2. FD_Table' \in [BBMDs -> [Slots -> FDEntries]]
  BY <1>1
<1>3. lease' \in [BBMDs -> [ForeignDevices -> Seconds]]
  BY <1>1
<1>. QED  BY <1>2, <1>3 DEF FDTTyped

LEMMA UntouchedTyped ==
  ASSUME TypeInv, UNCHANGED BBMD_Table
  PROVE  BDTTyped' /\ BBMD_Table' \in BDTs
BY TypeParts DEF BDTTyped

LEMMA RegisterTyped ==
  ASSUME TypeInv, NEW b \in BBMDs, NEW f \in ForeignDevices, NEW ttl \in TimesToLive,
         RegisterForeignDevice(b, f, ttl)
  PROVE  TypeInv'
<1> DEFINE slots == SlotFor(b, f)
           entry == Registration(f, SecondsUntilPurge(ttl))
<1>1. /\ slots # {} /\ slots \in SUBSET Nat /\ slots \subseteq Slots
  BY DEF RegisterForeignDevice, SlotFor, FreeSlots, RegisteredSlots, Slots
<1>2. LowestOf(slots) \in Slots
  BY <1>1, LowestProperty
<1>3. ttl + Grace \in Seconds \ {0}
  BY SecondsFacts
<1>4. entry \in FDEntries
  BY <1>3 DEF FDEntries, SecondsUntilPurge
<1>5. /\ FD_Table' = [FD_Table EXCEPT ![b][LowestOf(slots)] = entry]
      /\ lease' = [lease EXCEPT ![b][f] = ttl + Grace]
      /\ undisturbed' \in BOOLEAN /\ UNCHANGED <<BBMD_Table, traffic>>
  BY DEF RegisterForeignDevice
<1> HIDE DEF slots, entry
<1>6. FDTTyped'
  BY <1>2, <1>3, <1>4, <1>5, RegistryTyped
<1>. QED  BY <1>5, <1>6, UntouchedTyped, SameTrafficTyped

LEMMA DeleteTyped ==
  ASSUME TypeInv, NEW b \in BBMDs, NEW f \in ForeignDevices, DeleteForeignDevice(b, f)
  PROVE  TypeInv'
<1> DEFINE slots == RegisteredSlots(b, f)
<1>1. /\ slots # {} /\ slots \in SUBSET Nat /\ slots \subseteq Slots
  BY DEF DeleteForeignDevice, Listed, RegisteredSlots, Slots
<1>2. PICK i \in Slots : i = LowestOf(slots) /\ i \in slots
  BY <1>1, LowestProperty
<1>3. Free \in FDEntries
  BY DEF FDEntries
<1>4. 0 \in Seconds
  BY SecondsFacts
<1>5. /\ FD_Table' = [FD_Table EXCEPT ![b][i] = Free]
      /\ lease' = [lease EXCEPT ![b][f] = 0]
      /\ undisturbed' \in BOOLEAN /\ UNCHANGED <<BBMD_Table, traffic>>
  BY <1>2 DEF DeleteForeignDevice
<1> HIDE DEF slots
<1>6. FDTTyped'
  BY <1>3, <1>4, <1>5, RegistryTyped
<1>. QED  BY <1>5, <1>6, UntouchedTyped, SameTrafficTyped

LEMMA SecondsTyped ==
  ASSUME TypeInv, NEW seconds \in Elapsed, SecondsPass(seconds)
  PROVE  TypeInv'
<1>1. /\ FD_Table \in [BBMDs -> [Slots -> FDEntries]]
      /\ lease \in [BBMDs -> [ForeignDevices -> Seconds]]
  BY TypeParts DEF FDTTyped
<1>2. seconds \in Nat
  BY BvlcAssumption
<1>3. Purged(seconds) \in [BBMDs -> [Slots -> FDEntries]]
  BY <1>1, <1>2, AgedTyped DEF Purged
<1>4. ASSUME NEW b \in BBMDs, NEW f \in ForeignDevices
      PROVE  (IF lease[b][f] <= seconds THEN 0 ELSE lease[b][f] - seconds) \in Seconds
  <2>1. lease[b][f] \in Seconds /\ lease[b][f] \in Nat /\ 0 \in Seconds
    BY <1>1, SecondsFacts
  <2>2. CASE lease[b][f] <= seconds
    BY <2>1, <2>2
  <2>3. CASE ~ (lease[b][f] <= seconds)
    <3>1. lease[b][f] - seconds \in Seconds
      BY <1>2, <2>1, <2>3, SecondsFacts
    <3>. QED  BY <2>3, <3>1
  <2>. QED  BY <2>2, <2>3
<1>5. lease' \in [BBMDs -> [ForeignDevices -> Seconds]]
  BY <1>4 DEF SecondsPass
<1>6. FDTTyped' /\ undisturbed' \in BOOLEAN /\ UNCHANGED <<BBMD_Table, traffic>>
  BY <1>1, <1>3, <1>5 DEF FDTTyped, SecondsPass
<1>. QED  BY <1>6, UntouchedTyped, SameTrafficTyped

LEMMA PlainTyped ==
  ASSUME TypeInv, NEW n \in Nodes, NEW d, ReceivePlain(n, d)
  PROVE  TypeInv'
<1>1. d.to = n /\ Handled(d, EmptyBag) /\ Hears(d.to)
  BY DEF ReceivePlain
<1>. QED  BY <1>1, BagFacts, HandledTyped

LEMMA InitTyped == Init => TypeInv
<1> SUFFICES ASSUME Init PROVE TypeInv
  OBVIOUS
<1>1. BDTTyped /\ BBMD_Table \in BDTs
  BY BvlcAssumption DEF Init, BDTTyped, BDTs
<1>2. FD_Table \in [BBMDs -> [Slots -> FDEntries]]
  BY DEF Init, FDEntries
<1>3. heard \in [Nodes -> 0 .. 2]
  <2>1. heard = [n \in Nodes |-> 0] /\ 0 \in 0 .. 2
    BY DEF Init
  <2>. QED  BY <2>1
<1>4. sent \in [origin : Nodes, bbmd : Nodes]
  BY DEF Init, Nodes
<1>5. NetTyped
  BY BagFacts DEF Init, NetTyped
<1>6. TrafficTyped
  BY <1>3, <1>4, <1>5 DEF Init, TrafficTyped
<1>7. lease \in [BBMDs -> [ForeignDevices -> Seconds]]
  BY SecondsFacts DEF Init
<1>. QED  BY <1>1, <1>2, <1>6, <1>7, TypeParts DEF FDTTyped

LEMMA NextTyped == TypeInv /\ [Next]_vars => TypeInv'
<1> SUFFICES ASSUME TypeInv, [Next]_vars PROVE TypeInv'
  OBVIOUS
<1>1. ASSUME NEW n \in BBMDs \cup Devices, Broadcast(n, n) PROVE TypeInv'
  BY <1>1, BroadcastTyped DEF Nodes
<1>2. ASSUME NEW f \in ForeignDevices, NEW b \in BBMDs, Broadcast(f, b) PROVE TypeInv'
  BY <1>2, BroadcastTyped DEF Nodes
<1>3. ASSUME NEW d \in BagToSet(net), NEW b \in BBMDs, Receive(b, d) PROVE TypeInv'
  BY <1>3, ReceiveTyped
<1>4. ASSUME NEW d, NEW n \in Devices \cup ForeignDevices, ReceivePlain(n, d) PROVE TypeInv'
  BY <1>4, PlainTyped DEF Nodes
<1>5. ASSUME NEW d, Lose(d) PROVE TypeInv'
  BY <1>5, LoseTyped
<1>6. ASSUME NEW b \in BBMDs, NEW table \in Tables, WriteBDT(b, table) PROVE TypeInv'
  BY <1>6, WriteBDTTyped
<1>7. ASSUME NEW b \in BBMDs, NEW f \in ForeignDevices, NEW ttl \in TimesToLive,
             RegisterForeignDevice(b, f, ttl)
      PROVE  TypeInv'
  BY <1>7, RegisterTyped
<1>8. ASSUME NEW b \in BBMDs, NEW f \in ForeignDevices, DeleteForeignDevice(b, f) PROVE TypeInv'
  BY <1>8, DeleteTyped
<1>9. ASSUME NEW seconds \in Elapsed, SecondsPass(seconds) PROVE TypeInv'
  BY <1>9, SecondsTyped
<1>10. CASE UNCHANGED vars
  <2>1. UNCHANGED <<tables, traffic, undisturbed, lease>> /\ TrafficTyped
    BY <1>10, TypeParts DEF vars
  <2>2. TrafficTyped'
    BY <2>1 DEF TrafficTyped, NetTyped, traffic
  <2>. QED  BY <2>1, <2>2, SameTablesTyped
<1>. QED
  BY <1>1, <1>2, <1>3, <1>4, <1>5, <1>6, <1>7, <1>8, <1>9, <1>10 DEF Next

\* The tables keep to their sizes, their entries and leases to what registrations may
\* ask for, and the datagrams of every handler lead from node to node.
THEOREM TypeCorrect == Spec => []TypeOK
<1>1. TypeInv => TypeOK
  BY DEF TypeInv
<1>. QED  BY <1>1, InitTyped, NextTyped, PTL DEF Spec
-----------------------------------------------------------------------------
(***************************************************************************)
(* The way of a broadcast.                                                 *)
(***************************************************************************)
\* The BBMD of the subnet it starts on, or that the foreign device handed it to.
Home == IF sent.origin \in ForeignDevices THEN sent.bbmd ELSE Subnet[sent.origin]

\* An original message stays on its subnet, a BBMD gets a forwarded one from Home only.
Way(d) ==
  /\ d.function = "original" =>
       sent.origin \notin ForeignDevices /\ d.to \in OnSubnet(Home)
  /\ d.function = "distribute" => sent.origin \in ForeignDevices /\ d.to = Home
  /\ d.function = "forwarded" => d.to # Home /\ (d.to \in BBMDs => d.from = Home)

Route ==
  /\ sent.origin \in ForeignDevices => sent.bbmd \in BBMDs
  /\ \A d \in BagToSet(net) : Way(d)

LEMMA HomeIsBBMD == ASSUME TypeInv, Route PROVE Home \in BBMDs
<1>1. sent.origin \in Nodes
  BY DEF TypeInv, TypeOK
<1>. QED  BY <1>1, BvlcAssumption DEF Home, Route, Nodes

\* Whom the three ways of forwarding reach.
LEMMA LocalTarget ==
  ASSUME NEW b \in BBMDs, NEW n \in Nodes, LocalBroadcast(b)[n] > 0
  PROVE  n \in Devices /\ Subnet[n] = b
<1>1. n \in OnSubnet(b) \ {b}
  BY BvlcAssumption DEF LocalBroadcast
<1>. QED  BY <1>1, BvlcAssumption DEF OnSubnet

LEMMA ReachedFrom ==
  ASSUME TypeInv, NEW b \in BBMDs, NEW i \in DOMAIN BBMD_Table[b], NEW n,
         n \in Reached(b, BBMD_Table[b][i])
  PROVE  /\ BBMD_Table[b][i].address \in BBMDs \ {b}
         /\ n \in BBMDs \cup Devices /\ Subnet[n] = BBMD_Table[b][i].address
         /\ n \in BBMDs \/ BBMD_Table[b][i].mask = "directed"
<1>1. BBMD_Table[b][i] \in [address : BBMDs, mask : Masks]
  <2>1. BBMD_Table[b] \in Seq([address : BBMDs, mask : Masks])
    BY DEF TypeInv, BDTs
  <2>. QED  BY <2>1, ElementOf
<1>2. BBMD_Table[b][i].address \in BBMDs /\ BBMD_Table[b][i].mask \in {"unicast", "directed"}
  BY <1>1 DEF Masks
<1>. QED  BY <1>2, BvlcAssumption DEF Reached, OnSubnet

LEMMA BdtTarget ==
  ASSUME TypeInv, NEW b \in BBMDs, NEW n \in Nodes, BdtForward(b)[n] > 0
  PROVE  \E i \in DOMAIN BBMD_Table[b] : n \in Reached(b, BBMD_Table[b][i])
<1> DEFINE reaching == {i \in DOMAIN BBMD_Table[b] : n \in Reached(b, BBMD_Table[b][i])}
<1>1. Cardinality(reaching) > 0
  BY DEF BdtForward
<1>2. reaching # {}
  BY <1>1, Counted
<1>. QED  BY <1>2

LEMMA FdtTarget ==
  ASSUME Inv, NEW b \in BBMDs, NEW n \in Nodes, FdtForward(b)[n] > 0
  PROVE  n \in ForeignDevices /\ Listed(b, n) /\ n # sent.origin
<1>1. n # sent.origin /\ Cardinality(RegisteredSlots(b, n)) > 0
  BY DEF FdtForward
<1>2. RegisteredSlots(b, n) # {}
  BY <1>1, Counted
<1>3. PICK i \in Slots : FD_Table[b][i].valid /\ FD_Table[b][i].dest_address = n
  BY <1>2 DEF RegisteredSlots
<1>4. FD_Table[b][i] \in Entry
  BY DEF Inv, FDTs
<1>. QED  BY <1>1, <1>2, <1>3, <1>4, EntryFields DEF Listed

\* What a BBMD forwards, by the tables or on its subnet.
LEMMA ForwardedFrom ==
  ASSUME NEW b, NEW count
  PROVE  /\ \A e \in BagToSet(Forwarded(b, count)) :
              /\ e.function = "forwarded" /\ e.from = b
              /\ e.to \in Nodes /\ count[e.to] > 0
              /\ e = [function |-> "forwarded", from |-> b, to |-> e.to]
         /\ \A n \in Nodes : count[n] > 0 =>
              \E e \in BagToSet(Forwarded(b, count)) :
                /\ e.to = n /\ e.function = "forwarded" /\ e.from = b
<1>1. ASSUME NEW e \in BagToSet(Forwarded(b, count))
      PROVE  /\ e.function = "forwarded" /\ e.from = b
             /\ e.to \in Nodes /\ count[e.to] > 0
             /\ e = [function |-> "forwarded", from |-> b, to |-> e.to]
  <2>1. PICK n \in Nodes : count[n] > 0 /\ e = [function |-> "forwarded", from |-> b, to |-> n]
    BY CopiesMade DEF Forwarded
  <2>. QED  BY <2>1
<1>2. ASSUME NEW n \in Nodes, count[n] > 0
      PROVE  \E e \in BagToSet(Forwarded(b, count)) :
               e.to = n /\ e.function = "forwarded" /\ e.from = b
  <2> DEFINE e == [function |-> "forwarded", from |-> b, to |-> n]
  <2>1. e \in BagToSet(Forwarded(b, count))
    BY <1>2 DEF Forwarded, Copies, BagToSet
  <2>2. e.to = n /\ e.function = "forwarded" /\ e.from = b
    OBVIOUS
  <2> HIDE DEF e
  <2>. QED  BY <2>1, <2>2
<1>. QED  BY <1>1, <1>2

\* The three cases of bvlc_receive that forward, by the BBMD they can happen at.
Relay(b) == Forwarded(b, BdtForward(b))
Clients(b) == Forwarded(b, FdtForward(b))
Local(b) == Forwarded(b, LocalBroadcast(b))
Repeated(b, d) == IF MaskIsUnicast(b, d.from) THEN Local(b) ELSE EmptyBag

LEMMA ReceivedAt ==
  ASSUME TypeInv, Route, NEW d \in BagToSet(net), NEW b \in BBMDs, Receive(b, d)
  PROVE  /\ d.to = b
         /\ \/ /\ d.function = "original" /\ b = Home /\ sent.origin \notin ForeignDevices
               /\ Handled(d, Relay(b) (+) Clients(b)) /\ Hears(b)
            \/ /\ d.function = "distribute" /\ b = Home /\ sent.origin \in ForeignDevices
               /\ Handled(d, Local(b) (+) Relay(b) (+) Clients(b)) /\ UNCHANGED heard
            \/ /\ d.function = "forwarded" /\ b # Home /\ d.from = Home
               /\ Handled(d, Repeated(b, d) (+) Clients(b)) /\ Hears(b)
<1>1. Way(d) /\ Home \in BBMDs
  BY HomeIsBBMD DEF Route
<1>2. CASE ReceiveOriginalBroadcast(b, d)
  <2>1. b \in OnSubnet(Home) /\ sent.origin \notin ForeignDevices
    BY <1>1, <1>2 DEF Way, ReceiveOriginalBroadcast
  <2>2. b = Home
    BY <2>1, BvlcAssumption DEF OnSubnet
  <2>. QED  BY <1>2, <2>1, <2>2 DEF ReceiveOriginalBroadcast, Relay, Clients
<1>3. CASE ReceiveDistributeBroadcast(b, d)
  BY <1>1, <1>3 DEF Way, ReceiveDistributeBroadcast, Local, Relay, Clients
<1>4. CASE ReceiveForwarded(b, d)
  BY <1>1, <1>4 DEF Way, ReceiveForwarded, Repeated, Local, Clients
<1>. QED  BY <1>2, <1>3, <1>4 DEF Receive

\* Where what is forwarded goes.
LEMMA RelayTargets ==
  ASSUME TypeInv, NEW b \in BBMDs, NEW e \in BagToSet(Relay(b))
  PROVE  /\ e.function = "forwarded" /\ e.from = b /\ e.to \in Nodes
         /\ e.to \in BBMDs \cup Devices /\ Subnet[e.to] # b
         /\ e.to \in BBMDs \/ \E i \in DOMAIN BBMD_Table[b] : BBMD_Table[b][i].mask = "directed"
<1>1. e.function = "forwarded" /\ e.from = b /\ e.to \in Nodes /\ BdtForward(b)[e.to] > 0
  BY ForwardedFrom DEF Relay
<1>2. PICK i \in DOMAIN BBMD_Table[b] : e.to \in Reached(b, BBMD_Table[b][i])
  BY <1>1, BdtTarget
<1>. QED  BY <1>1, <1>2, ReachedFrom

LEMMA ClientTargets ==
  ASSUME Inv, NEW b \in BBMDs, NEW e \in BagToSet(Clients(b))
  PROVE  /\ e.function = "forwarded" /\ e.from = b /\ e.to \in Nodes
         /\ e.to \in ForeignDevices /\ Listed(b, e.to)
<1>1. e.function = "forwarded" /\ e.from = b /\ e.to \in Nodes /\ FdtForward(b)[e.to] > 0
  BY ForwardedFrom DEF Clients
<1>. QED  BY <1>1, FdtTarget

LEMMA LocalTargets ==
  ASSUME NEW b \in BBMDs, NEW e \in BagToSet(Local(b))
  PROVE  /\ e.function = "forwarded" /\ e.from = b /\ e.to \in Nodes
         /\ e.to \in Devices /\ Subnet[e.to] = b
<1>1. e.function = "forwarded" /\ e.from = b /\ e.to \in Nodes /\ LocalBroadcast(b)[e.to] > 0
  BY ForwardedFrom DEF Local
<1>. QED  BY <1>1, LocalTarget

LEMMA RepeatedTargets ==
  ASSUME NEW b \in BBMDs, NEW d, NEW e \in BagToSet(Repeated(b, d))
  PROVE  e \in BagToSet(Local(b)) /\ MaskIsUnicast(b, d.from)
BY BagFacts DEF Repeated

\* What is forwarded is on its way, too.
LEMMA ForwardedWay ==
  ASSUME TypeInv, Inv, Route, NEW b \in BBMDs, NEW e
  PROVE  /\ e \in BagToSet(Clients(b)) => Way(e)
         /\ e \in BagToSet(Local(b)) => Way(e)
         /\ e \in BagToSet(Relay(b)) /\ b = Home => Way(e)
<1>0. Home \in BBMDs
  BY HomeIsBBMD
<1>1. ASSUME e \in BagToSet(Clients(b)) PROVE Way(e)
  <2>1. e.function = "forwarded" /\ e.to \in ForeignDevices
    BY <1>1, ClientTargets
  <2>. QED  BY <1>0, <2>1, BvlcAssumption DEF Way
<1>2. ASSUME e \in BagToSet(Local(b)) PROVE Way(e)
  <2>1. e.function = "forwarded" /\ e.to \in Devices
    BY <1>2, LocalTargets
  <2>. QED  BY <1>0, <2>1, BvlcAssumption DEF Way
<1>3. ASSUME e \in BagToSet(Relay(b)), b = Home PROVE Way(e)
  <2>1. e.function = "forwarded" /\ e.from = Home /\ Subnet[e.to] # Home
    BY <1>3, RelayTargets
  <2>. QED  BY <1>0, <2>1, BvlcAssumption DEF Way
<1>. QED  BY <1>1, <1>2, <1>3

LEMMA HandledRoute ==
  ASSUME Route, NEW d, NEW forwarded, Handled(d, forwarded),
         \A e \in BagToSet(forwarded) : Way(e)
  PROVE  Route'
<1>1. net' = BagRemove(net, d) (+) forwarded /\ sent' = sent
  BY DEF Handled
<1>2. \A e \in BagToSet(net') : Way(e)
  BY <1>1, UnderWay DEF Route
<1>3. \A e : Way(e)' <=> Way(e)
  BY <1>1 DEF Way, Home
<1>. QED  BY <1>1, <1>2, <1>3 DEF Route

LEMMA ReceiveRoute ==
  ASSUME TypeInv, Inv, Route, NEW d \in BagToSet(net), NEW b \in BBMDs, Receive(b, d)
  PROVE  Route'
<1>1. /\ \A e \in BagToSet(Clients(b)) : Way(e)
      /\ \A e \in BagToSet(Local(b)) : Way(e)
      /\ \A e \in BagToSet(Repeated(b, d)) : Way(e)
      /\ b = Home => \A e \in BagToSet(Relay(b)) : Way(e)
  BY ForwardedWay, RepeatedTargets
<1>2. CASE b = Home /\ Handled(d, Relay(b) (+) Clients(b))
  <2>1. \A e \in BagToSet(Relay(b) (+) Clients(b)) : Way(e)
    BY <1>1, <1>2, Joined
  <2>. QED  BY <1>2, <2>1, HandledRoute
<1>3. CASE b = Home /\ Handled(d, Local(b) (+) Relay(b) (+) Clients(b))
  <2>1. BagToSet(Local(b) (+) Relay(b) (+) Clients(b)) =
          BagToSet(Local(b)) \cup BagToSet(Relay(b)) \cup BagToSet(Clients(b))
    BY Joined
  <2>2. \A e \in BagToSet(Local(b) (+) Relay(b) (+) Clients(b)) : Way(e)
    BY <1>1, <1>3, <2>1
  <2>. QED  BY <1>3, <2>2, HandledRoute
<1>4. CASE Handled(d, Repeated(b, d) (+) Clients(b))
  <2>1. \A e \in BagToSet(Repeated(b, d) (+) Clients(b)) : Way(e)
    BY <1>1, Joined
  <2>. QED  BY <1>4, <2>1, HandledRoute
<1>. QED  BY <1>2, <1>3, <1>4, ReceivedAt

LEMMA PlainRoute ==
  ASSUME Route, NEW n, NEW d, ReceivePlain(n, d)
  PROVE  Route'
<1>1. Handled(d, EmptyBag)
  BY DEF ReceivePlain
<1>. QED  BY <1>1, HandledRoute, BagFacts

LEMMA LoseRoute ==
  ASSUME Route, NEW d, Lose(d)
  PROVE  Route'
<1>1. net' = BagRemove(net, d) /\ sent' = sent
  BY DEF Lose
<1>2. \A e \in BagToSet(net') : Way(e)
  BY <1>1, UnderWay DEF Route
<1>3. \A e : Way(e)' <=> Way(e)
  BY <1>1 DEF Way, Home
<1>. QED  BY <1>1, <1>2, <1>3 DEF Route

\* What a broadcast starts with.
LEMMA Started ==
  ASSUME NEW n, NEW bbmd,
         (n \in BBMDs \cup Devices /\ bbmd = n) \/ (n \in ForeignDevices /\ bbmd \in BBMDs),
         Broadcast(n, bbmd)
  PROVE  /\ sent'.origin = n /\ sent'.bbmd = bbmd
         /\ n \in ForeignDevices =>
              /\ Home' = bbmd
              /\ net' = SetToBag({[function |-> "distribute", from |-> n, to |-> bbmd]})
         /\ n \notin ForeignDevices =>
              /\ n \in BBMDs \cup Devices /\ Home' = Subnet[n]
              /\ net' = Copies("original", n, LocalBroadcast(n))
              /\ \A e \in BagToSet(net') :
                   e.function = "original" /\ e.to \in OnSubnet(Subnet[n]) \ {n}
<1>1. sent' = [origin |-> n, bbmd |-> bbmd]
  BY DEF Broadcast
<1>2. Home' = IF n \in ForeignDevices THEN bbmd ELSE Subnet[n]
  BY <1>1 DEF Home
<1>3. ASSUME n \notin ForeignDevices, NEW e \in BagToSet(net')
      PROVE  e.function = "original" /\ e.to \in OnSubnet(Subnet[n]) \ {n}
  <2>1. PICK m \in Nodes : /\ LocalBroadcast(n)[m] > 0
                           /\ e = [function |-> "original", from |-> n, to |-> m]
    BY <1>3, CopiesMade DEF Broadcast
  <2>2. m \in OnSubnet(Subnet[n]) \ {n}
    BY <2>1 DEF LocalBroadcast
  <2>. QED  BY <2>1, <2>2
<1>. QED  BY <1>1, <1>2, <1>3 DEF Broadcast

LEMMA BroadcastRoute ==
  ASSUME NEW n, NEW bbmd,
         (n \in BBMDs \cup Devices /\ bbmd = n) \/ (n \in ForeignDevices /\ bbmd \in BBMDs),
         Broadcast(n, bbmd)
  PROVE  Route'
<1>1. ASSUME NEW e \in BagToSet(net') PROVE Way(e)'
  <2>1. CASE n \in ForeignDevices
    <3>1. e = [function |-> "distribute", from |-> n, to |-> bbmd]
      <4> DEFINE x == [function |-> "distribute", from |-> n, to |-> bbmd]
      <4>1. net' = SetToBag({x})
        BY <2>1, Started
      <4> HIDE DEF x
      <4>2. e = x
        BY <4>1, BagFacts
      <4>. QED  BY <4>2 DEF x
    <3>. QED  BY <2>1, <3>1, Started DEF Way
  <2>2. CASE n \notin ForeignDevices
    <3>1. e.function = "original" /\ e.to \in OnSubnet(Subnet[n]) /\ Home' = Subnet[n]
      BY <2>2, Started
    <3>2. e.to \in OnSubnet(Home')
      BY <3>1
    <3>. QED  BY <2>2, <3>1, <3>2, Started DEF Way, OnSubnet
  <2>. QED  BY <2>1, <2>2
<1>. QED  BY <1>1, BvlcAssumption, Started DEF Route

LEMMA SameRoute == Route /\ UNCHANGED traffic => Route'
BY DEF Route, Way, Home, traffic

LEMMA InitRoute == Init => Route
BY BvlcAssumption, BagFacts DEF Init, Route

LEMMA NextRoute == TypeInv /\ Inv /\ Route /\ [Next]_vars => Route'
<1> SUFFICES ASSUME TypeInv, Inv, Route, [Next]_vars PROVE Route'
  OBVIOUS
<1>1. ASSUME NEW n \in BBMDs \cup Devices, Broadcast(n, n) PROVE Route'
  BY <1>1, BroadcastRoute
<1>2. ASSUME NEW f \in ForeignDevices, NEW b \in BBMDs, Broadcast(f, b) PROVE Route'
  BY <1>2, BroadcastRoute
<1>3. ASSUME NEW d \in BagToSet(net), NEW b \in BBMDs, Receive(b, d) PROVE Route'
  BY <1>3, ReceiveRoute
<1>4. ASSUME NEW d, NEW n, ReceivePlain(n, d) PROVE Route'
  BY <1>4, PlainRoute
<1>5. ASSUME NEW d, Lose(d) PROVE Route'
  BY <1>5, LoseRoute
<1>6. ASSUME UNCHANGED traffic PROVE Route'
  BY <1>6, SameRoute
<1>. QED
  BY <1>1, <1>2, <1>3, <1>4, <1>5, <1>6
  DEF Next, WriteBDT, RegisterForeignDevice, DeleteForeignDevice, SecondsPass, vars
-----------------------------------------------------------------------------
(***************************************************************************)
(* At most once.  A node that was reached was reached along the tree, so    *)
(* that whoever is above it has relayed the message; a BBMD that gets the  *)
(* message has not relayed it, so that nobody below it has been reached.   *)
(***************************************************************************)
Touched(n) == heard[n] > 0 \/ \E d \in BagToSet(net) : d.to = n

Relayed(b) ==
  IF b = Home /\ sent.origin \in ForeignDevices
  THEN \A d \in BagToSet(net) : d.function # "distribute"
  ELSE heard[b] > 0

Directed == \E b \in BBMDs : \E i \in DOMAIN BBMD_Table[b] : BBMD_Table[b][i].mask = "directed"

Led(n) ==
  /\ n \in BBMDs /\ n # Home => Relayed(Home)
  /\ n \in Devices /\ Subnet[n] = Home /\ sent.origin \in ForeignDevices => Relayed(Home)
  /\ n \in Devices /\ Subnet[n] # Home => Relayed(Home) /\ (Directed \/ Relayed(Subnet[n]))
  /\ n \in ForeignDevices => \E b \in BBMDs : Listed(b, n) /\ Relayed(b)

\* One copy at most of each, none to a node that has heard or will hear another.
Once ==
  /\ \A d \in BagToSet(net) : net[d] = 1 /\ heard[d.to] = 0
  /\ \A d, e \in BagToSet(net) : d.to = e.to => d = e
  /\ \A n \in Nodes : heard[n] <= 1

Apart == EachOnce /\ UniformMasks /\ SingleHomed

AlongTree == Once /\ \A n \in Nodes : Touched(n) => Led(n)

OnceInv == undisturbed /\ Apart => AlongTree

\* Copies for nodes that are reached once are single.
Single(bag) ==
  /\ \A e \in BagToSet(bag) : bag[e] = 1
  /\ \A d, e \in BagToSet(bag) : d.to = e.to => d = e

LEMMA CopiesSingle ==
  ASSUME NEW function, NEW from, NEW count, \A n \in Nodes : count[n] > 0 => count[n] = 1
  PROVE  Single(Copies(function, from, count))
<1> DEFINE D == {[function |-> function, from |-> from, to |-> n] :
                   n \in {n \in Nodes : count[n] > 0}}
<1>1. Copies(function, from, count) = [d \in D |-> count[d.to]]
  BY DEF Copies
<1>2. \A d \in D : d.to \in Nodes /\ count[d.to] > 0
  OBVIOUS
<1>3. \A d, e \in D : d.to = e.to => d = e
  OBVIOUS
<1> HIDE DEF D
<1>. QED  BY <1>1, <1>2, <1>3 DEF Single, BagToSet

LEMMA JoinedSingle ==
  ASSUME NEW bag1, NEW bag2, Single(bag1), Single(bag2),
         \A d \in BagToSet(bag1), e \in BagToSet(bag2) : d.to # e.to
  PROVE  Single(bag1 (+) bag2)
<1>1. \A e \in DOMAIN bag1 : bag1[e] = 1 /\ e \notin DOMAIN bag2
  BY DEF Single, BagToSet
<1>2. \A e \in DOMAIN bag2 : bag2[e] = 1 /\ e \notin DOMAIN bag1
  BY DEF Single, BagToSet
<1>3. \A e \in DOMAIN bag1 \cup DOMAIN bag2 : (bag1 (+) bag2)[e] = 1
  BY <1>1, <1>2 DEF (+)
<1>4. BagToSet(bag1 (+) bag2) = DOMAIN bag1 \cup DOMAIN bag2
  BY Joined DEF BagToSet
<1>. QED  BY <1>3, <1>4 DEF Single, BagToSet

LEMMA ForwardsSingly ==
  ASSUME TypeInv, Inv, EachOnce, NEW b \in BBMDs
  PROVE  Single(Relay(b)) /\ Single(Clients(b)) /\ Single(Local(b))
<1>1. ASSUME NEW n \in Nodes, BdtForward(b)[n] > 0 PROVE BdtForward(b)[n] = 1
  <2> DEFINE S == {i \in DOMAIN BBMD_Table[b] : n \in Reached(b, BBMD_Table[b][i])}
  <2>1. \A i, j \in S : i = j
    <3> SUFFICES ASSUME NEW i \in S, NEW j \in S PROVE i = j
      OBVIOUS
    <3>1. BBMD_Table[b][i].address = BBMD_Table[b][j].address
      BY ReachedFrom
    <3>. QED  BY <3>1 DEF EachOnce
  <2>2. BdtForward(b)[n] = Cardinality(S)
    BY DEF BdtForward
  <2> HIDE DEF S
  <2>3. Cardinality(S) = IF S = {} THEN 0 ELSE 1
    BY <2>1, CountOfOne, CardinalityIsCount
  <2>. QED  BY <1>1, <2>2, <2>3
<1>2. ASSUME NEW n \in Nodes, FdtForward(b)[n] > 0 PROVE FdtForward(b)[n] = 1
  <2>1. n \in ForeignDevices /\ n # sent.origin
    BY <1>2, FdtTarget
  <2>2. \A i, j \in RegisteredSlots(b, n) : i = j
    BY <2>1 DEF Inv, UniqueRegistrations
  <2>3. FdtForward(b)[n] = Cardinality(RegisteredSlots(b, n))
    BY <2>1 DEF FdtForward
  <2>4. Cardinality(RegisteredSlots(b, n)) = IF RegisteredSlots(b, n) = {} THEN 0 ELSE 1
    BY <2>2, CountOfOne, CardinalityIsCount
  <2>. QED  BY <1>2, <2>3, <2>4
<1>3. \A n \in Nodes : LocalBroadcast(b)[n] > 0 => LocalBroadcast(b)[n] = 1
  BY DEF LocalBroadcast
<1>. QED  BY <1>1, <1>2, <1>3, CopiesSingle DEF Relay, Clients, Local, Forwarded

LEMMA AllForwardsSingly ==
  ASSUME TypeInv, Inv, EachOnce, NEW b \in BBMDs, NEW d
  PROVE  /\ Single(Relay(b) (+) Clients(b))
         /\ Single(Local(b) (+) Relay(b) (+) Clients(b))
         /\ Single(Repeated(b, d) (+) Clients(b))
<1>1. Single(Relay(b)) /\ Single(Clients(b)) /\ Single(Local(b))
  BY ForwardsSingly
<1>2. \A r \in BagToSet(Relay(b)), c \in BagToSet(Clients(b)) : r.to # c.to
  BY RelayTargets, ClientTargets, BvlcAssumption
<1>3. \A l \in BagToSet(Local(b)), c \in BagToSet(Clients(b)) : l.to # c.to
  BY LocalTargets, ClientTargets, BvlcAssumption
<1>4. \A l \in BagToSet(Local(b)), r \in BagToSet(Relay(b)) : l.to # r.to
  BY LocalTargets, RelayTargets, BvlcAssumption
<1>5. Single(Relay(b) (+) Clients(b))
  BY <1>1, <1>2, JoinedSingle
<1>6. Single(Local(b) (+) Relay(b) (+) Clients(b))
  <2>1. Single(Local(b) (+) Relay(b))
    BY <1>1, <1>4, JoinedSingle
  <2>2. \A x \in BagToSet(Local(b) (+) Relay(b)), c \in BagToSet(Clients(b)) : x.to # c.to
    BY <1>2, <1>3, Joined
  <2>. QED  BY <1>1, <2>1, <2>2, JoinedSingle
<1>7. Single(Repeated(b, d) (+) Clients(b))
  <2>1. Single(Repeated(b, d))
    BY <1>1, BagFacts DEF Repeated, Single
  <2>2. \A x \in BagToSet(Repeated(b, d)), c \in BagToSet(Clients(b)) : x.to # c.to
    BY <1>3, RepeatedTargets
  <2>. QED  BY <1>1, <2>1, <2>2, JoinedSingle
<1>. QED  BY <1>5, <1>6, <1>7

\* Taking a single datagram off the network, and adding others.
LEMMA Replaced ==
  ASSUME NEW d \in BagToSet(net), \A e \in BagToSet(net) : net[e] = 1,
         NEW forwarded, \A e \in BagToSet(forwarded) : forwarded[e] = 1 /\ e \notin BagToSet(net),
         net' = BagRemove(net, d) (+) forwarded
  PROVE  /\ BagToSet(net') = (BagToSet(net) \ {d}) \cup BagToSet(forwarded)
         /\ \A e \in BagToSet(net') : net'[e] = 1
<1> DEFINE rest == BagRemove(net, d)
<1>1. rest = [e \in DOMAIN net \ {d} |-> net[e]]
  BY DEF BagRemove, BagToSet
<1>2. DOMAIN rest = BagToSet(net) \ {d} /\ \A e \in BagToSet(net) \ {d} : rest[e] = 1
  BY <1>1 DEF BagToSet
<1> HIDE DEF rest
<1>3. BagToSet(rest (+) forwarded) = (BagToSet(net) \ {d}) \cup BagToSet(forwarded)
  BY <1>2, Joined DEF BagToSet
<1>4. \A e \in DOMAIN rest \cup DOMAIN forwarded : (rest (+) forwarded)[e] = 1
  BY <1>2 DEF (+), BagToSet
<1>. QED  BY <1>2, <1>3, <1>4 DEF rest, BagToSet

LEMMA HandledOnce ==
  ASSUME TypeInv, Route, Once, NEW d \in BagToSet(net), NEW forwarded,
         Handled(d, forwarded),
         Hears(d.to) \/ (UNCHANGED heard /\ d.function = "distribute"),
         Single(forwarded),
         \A e \in BagToSet(forwarded) :
           e.function # "distribute" /\ e.to \in Nodes /\ ~ Touched(e.to)
  PROVE  /\ Once'
         /\ \A n \in Nodes : Touched(n)' => Touched(n) \/ \E e \in BagToSet(forwarded) : e.to = n
         /\ \A c \in BBMDs : Relayed(c) \/ c = d.to => Relayed(c)'
<1>1. net' = BagRemove(net, d) (+) forwarded /\ UNCHANGED sent
  BY DEF Handled
<1>2. \A e \in BagToSet(net) : net[e] = 1 /\ heard[e.to] = 0 /\ Touched(e.to)
  BY DEF Once, Touched
<1>3. /\ BagToSet(net') = (BagToSet(net) \ {d}) \cup BagToSet(forwarded)
      /\ \A e \in BagToSet(net') : net'[e] = 1
  BY <1>1, <1>2, Replaced DEF Single
<1>4. d \in Datagram /\ d.to \in Nodes /\ heard \in [Nodes -> 0 .. 2]
  BY DEF TypeInv, TypeOK, Datagram
<1>5. /\ \A n \in Nodes : n # d.to => heard'[n] = heard[n]
      /\ heard'[d.to] = 1 \/ (UNCHANGED heard /\ d.function = "distribute")
  <2>1. CASE Hears(d.to)
    BY <1>2, <1>4, <2>1 DEF Hears
  <2>. QED  BY <2>1
<1>6. \A e \in BagToSet(net') : e.to \in Nodes /\ e.to # d.to /\ heard[e.to] = 0
  <2>1. ASSUME NEW e \in BagToSet(net), e # d PROVE e.to \in Nodes /\ e.to # d.to /\ heard[e.to] = 0
    BY <1>2, <2>1 DEF Once, TypeInv, TypeOK, Datagram
  <2>2. ASSUME NEW e \in BagToSet(forwarded) PROVE e.to \in Nodes /\ e.to # d.to /\ heard[e.to] = 0
    BY <1>2, <1>4 DEF Touched
  <2>. QED  BY <1>3, <2>1, <2>2
<1>7. Once'
  <2>1. \A e \in BagToSet(net') : net'[e] = 1 /\ heard'[e.to] = 0
    BY <1>3, <1>5, <1>6
  <2>2. ASSUME NEW e \in BagToSet(net'), NEW g \in BagToSet(net'), e.to = g.to PROVE e = g
    BY <1>2, <1>3, <2>2 DEF Once, Single
  <2>3. \A n \in Nodes : heard'[n] <= 1
    BY <1>4, <1>5 DEF Once
  <2>. QED  BY <2>1, <2>2, <2>3 DEF Once
<1>8. ASSUME NEW n \in Nodes, Touched(n)'
      PROVE  Touched(n) \/ \E e \in BagToSet(forwarded) : e.to = n
  BY <1>2, <1>3, <1>5, <1>8 DEF Touched
<1>9. ASSUME NEW c \in BBMDs, Relayed(c) \/ c = d.to PROVE Relayed(c)'
  <2>1. CASE c = Home /\ sent.origin \in ForeignDevices
    <3>1. ASSUME NEW e \in BagToSet(net'), e.function = "distribute" PROVE FALSE
      <4>1. e \in BagToSet(net) /\ e # d
        BY <1>3, <3>1
      <4>2. e.to = Home
        BY <3>1, <4>1 DEF Route, Way
      <4>3. c # d.to
        BY <2>1, <4>1, <4>2 DEF Once
      <4>. QED  BY <1>9, <2>1, <3>1, <4>1, <4>3 DEF Relayed
    <3>. QED  BY <1>1, <2>1, <3>1 DEF Relayed, Home
  <2>2. CASE ~ (c = Home /\ sent.origin \in ForeignDevices)
    <3>1. heard'[c] > 0
      <4>1. CASE c = d.to
        <5>1. d.function # "distribute"
          BY <2>2, <4>1 DEF Route, Way
        <5>. QED  BY <1>5, <4>1, <5>1
      <4>2. CASE c # d.to
        BY <1>5, <1>9, <2>2, <4>2 DEF Relayed, Nodes
      <4>. QED  BY <4>1, <4>2
    <3>. QED  BY <1>1, <2>2, <3>1 DEF Relayed, Home
  <2>. QED  BY <2>1, <2>2
<1>. QED  BY <1>7, <1>8, <1>9

LEMMA LedKeeps ==
  ASSUME TypeInv, Route, UNCHANGED <<tables, sent>>,
         \A c \in BBMDs : Relayed(c) => Relayed(c)'
  PROVE  \A n \in Nodes : Led(n) => Led(n)'
<1>1. Home' = Home /\ Home \in BBMDs
  BY HomeIsBBMD DEF Home
<1>2. /\ Directed' <=> Directed
      /\ \A b \in BBMDs : \A f : Listed(b, f)' <=> Listed(b, f)
  BY DEF Directed, Listed, RegisteredSlots, tables
<1>3. Relayed(Home) => Relayed(Home)'
  BY <1>1
<1> SUFFICES ASSUME NEW n \in Nodes, Led(n) PROVE Led(n)'
  OBVIOUS
<1>4. n \in Devices => Subnet[n] \in BBMDs
  BY BvlcAssumption
<1>. QED  BY <1>1, <1>2, <1>3, <1>4 DEF Led

LEMMA ReceiveOnce ==
  ASSUME TypeInv, Inv, Route, Apart, AlongTree,
         NEW d \in BagToSet(net), NEW b \in BBMDs, Receive(b, d)
  PROVE  AlongTree'
<1>. Once /\ \A n \in Nodes : Touched(n) => Led(n)
  BY DEF AlongTree
<1>0. Home \in BBMDs /\ b \in Nodes /\ \A c \in BBMDs : c \in Nodes
  BY HomeIsBBMD DEF Nodes
<1>1. d.to = b /\ heard[b] = 0 /\ Touched(b)
  BY ReceivedAt DEF Once, Touched
<1>2. ~ Relayed(b)
  BY <1>1, ReceivedAt DEF Relayed
\* So those it forwards to have not been reached.
<1>3. ASSUME NEW e \in BagToSet(Clients(b)) PROVE ~ Touched(e.to)
  <2>1. e.to \in Nodes /\ e.to \in ForeignDevices /\ Listed(b, e.to)
    BY ClientTargets
  <2>2. \A c \in BBMDs : Listed(c, e.to) => c = b
    BY <2>1 DEF Apart, SingleHomed
  <2>. QED  BY <1>2, <2>1, <2>2 DEF Led
<1>4. ASSUME b = Home, NEW e \in BagToSet(Relay(b)) PROVE ~ Touched(e.to)
  <2>1. e.to \in Nodes /\ e.to \in BBMDs \cup Devices /\ Subnet[e.to] # b
    BY RelayTargets
  <2>2. e.to \in BBMDs => e.to # Home
    BY <1>4, <2>1, BvlcAssumption
  <2>. QED  BY <1>2, <1>4, <2>1, <2>2 DEF Led
<1>5. ASSUME b = Home, sent.origin \in ForeignDevices, NEW e \in BagToSet(Local(b))
      PROVE  ~ Touched(e.to)
  <2>1. e.to \in Nodes /\ e.to \in Devices /\ Subnet[e.to] = b
    BY LocalTargets
  <2>. QED  BY <1>2, <1>5, <2>1 DEF Led
<1>6. ASSUME b # Home, NEW e \in BagToSet(Repeated(b, d)) PROVE ~ Touched(e.to) /\ Relayed(Home)
  <2>1. e \in BagToSet(Local(b)) /\ MaskIsUnicast(b, d.from)
    BY RepeatedTargets
  <2>2. e.to \in Nodes /\ e.to \in Devices /\ Subnet[e.to] = b
    BY <2>1, LocalTargets
  <2>3. ~ Directed
    <3>1. PICK i \in DOMAIN BBMD_Table[b] : BBMD_Table[b][i].mask = "unicast"
      BY <2>1 DEF MaskIsUnicast
    <3>2. PICK mask \in Masks : \A c \in BBMDs : \A j \in DOMAIN BBMD_Table[c] :
            BBMD_Table[c][j].mask = mask
      BY DEF Apart, UniformMasks
    <3>. QED  BY <3>1, <3>2 DEF Directed
  <2>4. Led(b)
    BY <1>0, <1>1
  <2>. QED  BY <1>2, <1>6, <2>2, <2>3, <2>4 DEF Led
\* And they are reached by way of it.
<1>7. ASSUME NEW forwarded, Handled(d, forwarded), Single(forwarded),
             Hears(b) \/ (UNCHANGED heard /\ d.function = "distribute"),
             \A e \in BagToSet(forwarded) :
               /\ e.function # "distribute" /\ e.to \in Nodes /\ ~ Touched(e.to)
               /\ Relayed(b)' /\ (\A c \in BBMDs : Relayed(c) => Relayed(c)') => Led(e.to)'
      PROVE  AlongTree'
  <2>1. /\ Once'
        /\ \A n \in Nodes : Touched(n)' => Touched(n) \/ \E e \in BagToSet(forwarded) : e.to = n
        /\ \A c \in BBMDs : Relayed(c) \/ c = d.to => Relayed(c)'
    BY <1>1, <1>7, HandledOnce
  <2>2. UNCHANGED <<tables, sent>>
    BY <1>7 DEF Handled
  <2>3. \A n \in Nodes : Led(n) => Led(n)'
    BY <2>1, <2>2, LedKeeps
  <2>4. Relayed(b)'
    BY <1>1, <2>1
  <2>5. \A e \in BagToSet(forwarded) : Led(e.to)'
    BY <1>7, <2>1, <2>4
  <2>. QED  BY <2>1, <2>3, <2>5 DEF AlongTree
<1>8. UNCHANGED <<tables, sent>> /\ Home' = Home
  BY ReceivedAt DEF Handled, Home
<1>9. /\ Directed' <=> Directed
      /\ \A c \in BBMDs : \A f : Listed(c, f)' <=> Listed(c, f)
  BY <1>8 DEF Directed, Listed, RegisteredSlots, tables
<1>10. ASSUME NEW e \in BagToSet(Clients(b)), Relayed(b)' PROVE Led(e.to)'
  <2>1. e.to \in ForeignDevices /\ Listed(b, e.to)
    BY ClientTargets
  <2>2. e.to \notin BBMDs \cup Devices
    BY <2>1, BvlcAssumption
  <2>. QED  BY <1>9, <1>10, <2>1, <2>2 DEF Led
<1>11. ASSUME b = Home, NEW e \in BagToSet(Relay(b)), Relayed(b)' PROVE Led(e.to)'
  <2>1. /\ e.to \in BBMDs \cup Devices /\ Subnet[e.to] # Home
        /\ e.to \in BBMDs \/ Directed
    BY <1>11, RelayTargets DEF Directed
  <2>2. e.to \notin ForeignDevices /\ ~ (e.to \in BBMDs /\ e.to \in Devices)
    BY <2>1, BvlcAssumption
  <2>. QED  BY <1>8, <1>9, <1>11, <2>1, <2>2 DEF Led
<1>12. ASSUME b = Home, NEW e \in BagToSet(Local(b)), Relayed(b)' PROVE Led(e.to)'
  <2>1. e.to \in Devices /\ Subnet[e.to] = Home
    BY <1>12, LocalTargets
  <2>2. e.to \notin ForeignDevices /\ e.to \notin BBMDs
    BY <2>1, BvlcAssumption
  <2>. QED  BY <1>8, <1>12, <2>1, <2>2 DEF Led
<1>13. ASSUME b # Home, NEW e \in BagToSet(Repeated(b, d)), Relayed(b)',
              \A c \in BBMDs : Relayed(c) => Relayed(c)'
       PROVE  Led(e.to)'
  <2>1. e.to \in Devices /\ Subnet[e.to] = b
    BY RepeatedTargets, LocalTargets
  <2>2. e.to \notin ForeignDevices /\ e.to \notin BBMDs
    BY <2>1, BvlcAssumption
  <2>3. Relayed(Home)'
    BY <1>0, <1>6, <1>8, <1>13
  <2>. QED  BY <1>8, <1>13, <2>1, <2>2, <2>3 DEF Led
<1>14. /\ Single(Relay(b) (+) Clients(b))
       /\ Single(Local(b) (+) Relay(b) (+) Clients(b))
       /\ Single(Repeated(b, d) (+) Clients(b))
  BY AllForwardsSingly DEF Apart
<1>15. \A e : e \in BagToSet(Relay(b)) \cup BagToSet(Clients(b)) \cup BagToSet(Local(b))
                    \cup BagToSet(Repeated(b, d)) =>
                e.function # "distribute" /\ e.to \in Nodes
  BY RelayTargets, ClientTargets, LocalTargets, RepeatedTargets
<1>16. CASE b = Home /\ Handled(d, Relay(b) (+) Clients(b)) /\ Hears(b)
  <2>1. BagToSet(Relay(b) (+) Clients(b)) = BagToSet(Relay(b)) \cup BagToSet(Clients(b))
    BY Joined
  <2>. QED  BY <1>3, <1>4, <1>7, <1>10, <1>11, <1>14, <1>15, <1>16, <2>1
<1>17. CASE /\ b = Home /\ sent.origin \in ForeignDevices /\ d.function = "distribute"
            /\ Handled(d, Local(b) (+) Relay(b) (+) Clients(b)) /\ UNCHANGED heard
  <2>1. BagToSet(Local(b) (+) Relay(b) (+) Clients(b)) =
          BagToSet(Local(b)) \cup BagToSet(Relay(b)) \cup BagToSet(Clients(b))
    BY Joined
  <2>. QED  BY <1>3, <1>4, <1>5, <1>7, <1>10, <1>11, <1>12, <1>14, <1>15, <1>17, <2>1
<1>18. CASE b # Home /\ Handled(d, Repeated(b, d) (+) Clients(b)) /\ Hears(b)
  <2>1. BagToSet(Repeated(b, d) (+) Clients(b)) = BagToSet(Repeated(b, d)) \cup BagToSet(Clients(b))
    BY Joined
  <2>. QED  BY <1>3, <1>6, <1>7, <1>10, <1>13, <1>14, <1>15, <1>18, <2>1
<1>. QED  BY <1>16, <1>17, <1>18, ReceivedAt

\* A device that is no BBMD only listens, and a loss reaches nobody.
LEMMA LeftOnce ==
  ASSUME TypeInv, Route, AlongTree, NEW d \in BagToSet(net),
         net' = BagRemove(net, d), UNCHANGED <<tables, sent>>,
         UNCHANGED heard \/ (Hears(d.to) /\ d.function # "distribute")
  PROVE  AlongTree'
<1>1. \A e \in BagToSet(net) : net[e] = 1 /\ heard[e.to] = 0 /\ Touched(e.to)
  BY DEF AlongTree, Once, Touched
<1>2. BagToSet(net') = BagToSet(net) \ {d} /\ \A e \in BagToSet(net') : net'[e] = 1
  BY <1>1 DEF BagRemove, BagToSet
<1>3. d.to \in Nodes /\ heard \in [Nodes -> 0 .. 2]
  BY DEF TypeInv, TypeOK, Datagram
<1>4. /\ \A n \in Nodes : n # d.to => heard'[n] = heard[n]
      /\ heard'[d.to] \in {0, 1}
  <2>1. CASE Hears(d.to)
    BY <1>1, <1>3, <2>1 DEF Hears
  <2>. QED  BY <1>1, <2>1
<1>5. \A e \in BagToSet(net') : e.to \in Nodes /\ e.to # d.to
  BY <1>2 DEF AlongTree, Once, TypeInv, TypeOK, Datagram
<1>6. Once'
  <2>1. \A e \in BagToSet(net') : net'[e] = 1 /\ heard'[e.to] = 0
    BY <1>1, <1>2, <1>4, <1>5
  <2>2. \A e, g \in BagToSet(net') : e.to = g.to => e = g
    BY <1>2 DEF AlongTree, Once
  <2>3. \A n \in Nodes : heard'[n] <= 1
    BY <1>3, <1>4 DEF AlongTree, Once
  <2>. QED  BY <2>1, <2>2, <2>3 DEF Once
<1>7. \A n \in Nodes : Touched(n)' => Touched(n)
  BY <1>1, <1>2, <1>4 DEF Touched
<1>8. ASSUME NEW c \in BBMDs, Relayed(c) PROVE Relayed(c)'
  <2>1. Home' = Home /\ sent' = sent
    BY DEF Home
  <2>2. heard[c] > 0 => heard'[c] > 0
    BY <1>1, <1>4 DEF Nodes
  <2>. QED  BY <1>2, <1>8, <2>1, <2>2 DEF Relayed
<1>9. \A n \in Nodes : Led(n) => Led(n)'
  BY <1>8, LedKeeps
<1>. QED  BY <1>6, <1>7, <1>9 DEF AlongTree

LEMMA BroadcastOnce ==
  ASSUME NEW n, NEW bbmd,
         (n \in BBMDs \cup Devices /\ bbmd = n) \/ (n \in ForeignDevices /\ bbmd \in BBMDs),
         Broadcast(n, bbmd)
  PROVE  AlongTree'
<1>1. heard' = [m \in Nodes |-> 0]
  BY DEF Broadcast
<1>2. \A e \in BagToSet(net') : e.to \in Nodes
  <2>1. CASE n \in ForeignDevices
    <3> DEFINE x == [function |-> "distribute", from |-> n, to |-> bbmd]
    <3>1. net' = SetToBag({x}) /\ x.to \in Nodes
      BY <2>1, Started, BvlcAssumption DEF Nodes
    <3> HIDE DEF x
    <3>. QED  BY <3>1, BagFacts
  <2>. QED  BY <2>1, Started DEF OnSubnet, Nodes
<1>3. CASE n \in ForeignDevices
  <2> DEFINE x == [function |-> "distribute", from |-> n, to |-> bbmd]
  <2>1. net' = SetToBag({x}) /\ x.to = bbmd /\ Home' = bbmd /\ bbmd \in BBMDs
    BY <1>3, Started, BvlcAssumption
  <2> HIDE DEF x
  <2>2. BagToSet(net') = {x} /\ net'[x] = 1
    BY <2>1 DEF SetToBag, BagToSet
  <2>3. Once'
    <3>1. \A d \in BagToSet(net') : d = x
      BY <2>2
    <3>2. \A m \in Nodes : heard'[m] = 0
      BY <1>1
    <3>3. \A d \in BagToSet(net') : net'[d] = 1 /\ heard'[d.to] = 0
      BY <1>2, <2>2, <3>1, <3>2
    <3>. QED  BY <3>1, <3>2, <3>3 DEF Once
  <2>4. ASSUME NEW m \in Nodes, Touched(m)' PROVE m = Home'
    BY <1>1, <2>1, <2>2, <2>4 DEF Touched
  <2>5. ASSUME NEW m \in Nodes, Touched(m)' PROVE Led(m)'
    BY <2>1, <2>4, <2>5, BvlcAssumption DEF Led
  <2>. QED  BY <2>3, <2>5 DEF AlongTree
<1>4. CASE n \notin ForeignDevices
  <2>1. /\ n \in BBMDs \cup Devices /\ Home' = Subnet[n]
        /\ net' = Copies("original", n, LocalBroadcast(n))
        /\ \A e \in BagToSet(net') : e.to \in OnSubnet(Home')
        /\ sent'.origin \notin ForeignDevices
    BY <1>4, Started
  <2>2. \A m \in Nodes : LocalBroadcast(n)[m] > 0 => LocalBroadcast(n)[m] = 1
    BY DEF LocalBroadcast
  <2>3. Single(net')
    BY <2>1, <2>2, CopiesSingle
  <2>4. Once'
    BY <1>1, <1>2, <2>3 DEF Once, Single
  <2>5. ASSUME NEW m \in Nodes, Touched(m)' PROVE m \in BBMDs \cup Devices /\ Subnet[m] = Home'
    BY <1>1, <2>1, <2>5 DEF Touched, OnSubnet
  <2>6. ASSUME NEW m \in Nodes, Touched(m)' PROVE Led(m)'
    BY <2>1, <2>5, <2>6, BvlcAssumption DEF Led
  <2>. QED  BY <2>4, <2>6 DEF AlongTree
<1>. QED  BY <1>3, <1>4

LEMMA SameOnce == OnceInv /\ UNCHANGED vars => OnceInv'
<1> SUFFICES ASSUME OnceInv, UNCHANGED vars PROVE OnceInv'
  OBVIOUS
<1>1. UNCHANGED <<BBMD_Table, FD_Table, net, sent, heard, undisturbed>>
  BY DEF vars, tables, traffic
<1>2. /\ Apart' <=> Apart
      /\ Once' <=> Once
      /\ \A n : (Touched(n)' <=> Touched(n))
  BY <1>1 DEF Apart, EachOnce, UniformMasks, SingleHomed, Listed, RegisteredSlots, Once, Touched
<1>3. \A b : Relayed(b)' <=> Relayed(b)
  BY <1>1 DEF Relayed, Home
<1>4. Home' = Home /\ (Directed' <=> Directed) /\ \A b, n : Listed(b, n)' <=> Listed(b, n)
  BY <1>1 DEF Home, Directed, Listed, RegisteredSlots
<1>5. \A n : Led(n) => Led(n)'
  BY <1>1, <1>3, <1>4 DEF Led
<1>. QED  BY <1>1, <1>2, <1>5 DEF OnceInv, AlongTree

LEMMA NextOnce == TypeInv /\ Inv /\ Route /\ OnceInv /\ [Next]_vars => OnceInv'
<1> SUFFICES ASSUME TypeInv, Inv, Route, OnceInv, [Next]_vars PROVE OnceInv'
  OBVIOUS
<1>0. ASSUME UNCHANGED <<tables, undisturbed>>, undisturbed', Apart' PROVE undisturbed /\ Apart /\ AlongTree
  <2>1. Apart' <=> Apart
    BY <1>0 DEF Apart, EachOnce, UniformMasks, SingleHomed, Listed, RegisteredSlots, tables
  <2>. QED  BY <1>0, <2>1 DEF OnceInv
<1>1. ASSUME NEW n \in BBMDs \cup Devices, Broadcast(n, n) PROVE OnceInv'
  BY <1>1, BroadcastOnce DEF OnceInv
<1>2. ASSUME NEW f \in ForeignDevices, NEW b \in BBMDs, Broadcast(f, b) PROVE OnceInv'
  BY <1>2, BroadcastOnce DEF OnceInv
<1>3. ASSUME NEW d \in BagToSet(net), NEW b \in BBMDs, Receive(b, d) PROVE OnceInv'
  <2>1. UNCHANGED <<tables, undisturbed>>
    BY <1>3, ReceivedAt DEF Handled
  <2>. QED  BY <1>0, <1>3, <2>1, ReceiveOnce DEF OnceInv
<1>4. ASSUME NEW d \in BagToSet(net), NEW n \in Devices \cup ForeignDevices, ReceivePlain(n, d)
      PROVE  OnceInv'
  <2>1. /\ UNCHANGED <<tables, undisturbed, sent>>
        /\ Hears(d.to) /\ d.function # "distribute"
        /\ net' = BagRemove(net, d) (+) EmptyBag
    BY <1>4 DEF ReceivePlain, Handled
  <2>2. ASSUME AlongTree PROVE net' = BagRemove(net, d)
    <3>1. \A e \in DOMAIN BagRemove(net, d) : BagRemove(net, d)[e] = 1
      BY <2>2 DEF AlongTree, Once, BagRemove, BagToSet
    <3>2. BagRemove(net, d) = [e \in DOMAIN BagRemove(net, d) |-> BagRemove(net, d)[e]]
      BY <2>2 DEF AlongTree, Once, BagRemove, BagToSet
    <3>3. DOMAIN EmptyBag = {}
      BY BagFacts DEF BagToSet
    <3> DEFINE rest == BagRemove(net, d)
    <3>4. (rest (+) EmptyBag) = [e \in DOMAIN rest |-> 1]
      BY <3>1, <3>3 DEF (+)
    <3>5. rest = [e \in DOMAIN rest |-> 1]
      BY <3>1, <3>2
    <3>. QED  BY <2>1, <3>4, <3>5
  <2>. QED  BY <1>0, <2>1, <2>2, LeftOnce DEF OnceInv
<1>5. ASSUME NEW d \in BagToSet(net), Lose(d) PROVE OnceInv'
  <2>1. UNCHANGED <<tables, undisturbed, sent, heard>> /\ net' = BagRemove(net, d)
    BY <1>5 DEF Lose
  <2>. QED  BY <1>0, <2>1, LeftOnce DEF OnceInv
<1>6. ASSUME undisturbed' = FALSE PROVE OnceInv'
  BY <1>6 DEF OnceInv
<1>7. CASE UNCHANGED vars
  BY <1>7, SameOnce
<1>. QED
  BY <1>1, <1>2, <1>3, <1>4, <1>5, <1>6, <1>7
  DEF Next, WriteBDT, RegisterForeignDevice, DeleteForeignDevice, SecondsPass

\* However many BBMDs forward a broadcast, and in whatever order the copies arrive, no
\* application gets it twice from bvlc_receive.
THEOREM DeliveredOnce == Spec => []AtMostOnce
<1>1. OnceInv => AtMostOnce
  BY DEF OnceInv, AlongTree, Once, Apart, AtMostOnce
<1>2. Init => OnceInv
  BY DEF Init, OnceInv
<1>3. Spec => []Inv
  BY InitInv, NextInv, PTL DEF Spec
<1>4. Spec => []TypeInv
  BY InitTyped, NextTyped, PTL DEF Spec
<1>. QED  BY <1>1, <1>2, <1>3, <1>4, InitRoute, NextRoute, NextOnce, PTL DEF Spec
-----------------------------------------------------------------------------
(***************************************************************************)
(* Everyone.  Of a broadcast of which nothing was lost, each node of the   *)
(* audience has a copy, or a copy on its way, or somebody above it in the  *)
(* tree has, and will forward it: with a complete table of its own each    *)
(* BBMD knows all the others, and tells by the mask of the sender whether  *)
(* its subnet has had the message.                                         *)
(***************************************************************************)
Awaited(b) == \E d \in BagToSet(net) : d.to = b

OnItsWay(n) ==
  \/ Touched(n)
  \/ n \in BBMDs \cup Devices /\ Subnet[n] # Home /\ Awaited(Home)
  \/ n \in Devices /\ Subnet[n] = Home /\ sent.origin \in ForeignDevices /\ Awaited(Home)
  \/ n \in Devices /\ Subnet[n] # Home /\ ~ Directed /\ Awaited(Subnet[n])
  \/ n \in ForeignDevices /\ \E b \in BBMDs :
       Listed(b, n) /\ (Awaited(b) \/ (b # Home /\ Awaited(Home)))

Alike == Identical /\ Complete /\ UniformMasks

Expected == Audience \ {sent.origin, sent.bbmd}

ReachInv ==
  undisturbed /\ ~ lost /\ Alike => \A n \in Expected : OnItsWay(n)

\* A node that the tables name, or that is on the subnet, is sent a copy.
LEMMA RelayReaches ==
  ASSUME TypeInv, NEW b \in BBMDs, NEW n \in Nodes, NEW i \in DOMAIN BBMD_Table[b],
         n \in Reached(b, BBMD_Table[b][i])
  PROVE  \E e \in BagToSet(Relay(b)) : e.to = n
<1> DEFINE S == {j \in DOMAIN BBMD_Table[b] : n \in Reached(b, BBMD_Table[b][j])}
<1>1. Len(BBMD_Table[b]) \in Nat /\ S \in SUBSET (1 .. Len(BBMD_Table[b])) /\ S # {}
  BY DEF TypeInv, BDTs
<1>2. BdtForward(b)[n] = Cardinality(S)
  BY DEF BdtForward
<1> HIDE DEF S
<1>3. BdtForward(b)[n] > 0
  BY <1>1, <1>2, PlacesCounted
<1>. QED  BY <1>3, ForwardedFrom DEF Relay

LEMMA ClientsReached ==
  ASSUME TypeInv, NEW b \in BBMDs, NEW n \in Nodes, Listed(b, n), n # sent.origin
  PROVE  \E e \in BagToSet(Clients(b)) : e.to = n
<1>1. RegisteredSlots(b, n) \in SUBSET (1 .. MAX_FD_ENTRIES) /\ RegisteredSlots(b, n) # {}
  BY DEF RegisteredSlots, Slots, Listed
<1>2. Cardinality(RegisteredSlots(b, n)) > 0
  BY <1>1, BvlcAssumption, PlacesCounted
<1>3. FdtForward(b)[n] > 0
  BY <1>2 DEF FdtForward
<1>. QED  BY <1>3, ForwardedFrom DEF Clients

LEMMA LocalReached ==
  ASSUME NEW b \in BBMDs, NEW n \in Devices, Subnet[n] = b
  PROVE  \E e \in BagToSet(Local(b)) : e.to = n
<1>1. n \in Nodes /\ n \in OnSubnet(Subnet[b]) \ {b} /\ b \notin ForeignDevices
  BY BvlcAssumption DEF Nodes, OnSubnet
<1>2. LocalBroadcast(b)[n] > 0
  BY <1>1 DEF LocalBroadcast
<1>. QED  BY <1>1, <1>2, ForwardedFrom DEF Local

\* With tables as J.4 wants them each BBMD has an entry for every other.
LEMMA EntryFor ==
  ASSUME TypeInv, Alike, NEW b \in BBMDs, NEW c \in BBMDs
  PROVE  \E i \in DOMAIN BBMD_Table[b] :
           /\ BBMD_Table[b][i].address = c
           /\ BBMD_Table[b][i].mask = IF Directed THEN "directed" ELSE "unicast"
           /\ BBMD_Table[b][i] \in [address : BBMDs, mask : Masks]
<1>1. PICK i \in DOMAIN BBMD_Table[b] : BBMD_Table[b][i].address = c
  BY DEF Alike, Identical, Complete
<1>2. BBMD_Table[b][i] \in [address : BBMDs, mask : Masks]
  <2>1. BBMD_Table[b] \in Seq([address : BBMDs, mask : Masks])
    BY DEF TypeInv, BDTs
  <2>. QED  BY <2>1, ElementOf
<1>3. BBMD_Table[b][i].mask \in {"unicast", "directed"}
  BY <1>2 DEF Masks
<1>4. PICK mask \in Masks : \A a \in BBMDs : \A j \in DOMAIN BBMD_Table[a] :
        BBMD_Table[a][j].mask = mask
  BY DEF Alike, UniformMasks
<1>. QED  BY <1>1, <1>2, <1>3, <1>4 DEF Directed

\* So Home relays to every BBMD, and to every device or else to its BBMD.
LEMMA HomeRelays ==
  ASSUME TypeInv, Route, Alike, NEW n \in BBMDs \cup Devices, Subnet[n] # Home
  PROVE  \/ \E e \in BagToSet(Relay(Home)) : e.to = n
         \/ n \in Devices /\ ~ Directed /\ \E e \in BagToSet(Relay(Home)) : e.to = Subnet[n]
<1>1. Home \in BBMDs /\ Subnet[n] \in BBMDs /\ n \in Nodes /\ Subnet[n] \in Nodes
  BY HomeIsBBMD, BvlcAssumption DEF Nodes
<1>2. PICK i \in DOMAIN BBMD_Table[Home] :
        /\ BBMD_Table[Home][i].address = Subnet[n]
        /\ BBMD_Table[Home][i].mask = IF Directed THEN "directed" ELSE "unicast"
  BY <1>1, EntryFor
<1>3. CASE Directed
  <2>1. n \in Reached(Home, BBMD_Table[Home][i])
    BY <1>2, <1>3 DEF Reached, OnSubnet
  <2>. QED  BY <1>1, <2>1, RelayReaches
<1>4. CASE ~ Directed
  <2>1. Subnet[n] \in Reached(Home, BBMD_Table[Home][i])
    BY <1>2, <1>4 DEF Reached
  <2>2. \E e \in BagToSet(Relay(Home)) : e.to = Subnet[n]
    BY <1>1, <2>1, RelayReaches
  <2>3. n \in BBMDs => n = Subnet[n]
    BY BvlcAssumption
  <2>. QED  BY <1>4, <2>2, <2>3
<1>. QED  BY <1>3, <1>4

\* What a handler takes off the network it alone takes.
LEMMA StaysAwaited ==
  ASSUME NEW d, NEW forwarded, Handled(d, forwarded)
  PROVE  /\ \A e \in BagToSet(net) : e # d => e \in BagToSet(net')
         /\ \A e \in BagToSet(forwarded) : e \in BagToSet(net')
<1>1. net' = BagRemove(net, d) (+) forwarded
  BY DEF Handled
<1>2. \A e \in BagToSet(net) : e # d => e \in BagToSet(BagRemove(net, d))
  BY DEF BagRemove, BagToSet
<1>. QED  BY <1>1, <1>2, Joined

\* Nobody loses what it has, except that the BBMD that handles the message forwards it.
LEMMA StillOnItsWay ==
  ASSUME TypeInv, Route, NEW d \in BagToSet(net), NEW forwarded, Handled(d, forwarded),
         Hears(d.to) \/ (UNCHANGED heard /\ d.function = "distribute")
  PROVE  /\ \A n \in Expected : Touched(n) => Touched(n)'
         /\ \A c : Awaited(c) /\ c # d.to => Awaited(c)'
         /\ \A e \in BagToSet(forwarded) : Touched(e.to)' /\ Awaited(e.to)'
         /\ Home' = Home /\ UNCHANGED <<tables, sent>>
         /\ (Directed' <=> Directed) /\ \A b, n : Listed(b, n)' <=> Listed(b, n)
<1>1. UNCHANGED <<tables, sent>> /\ Home' = Home
  BY DEF Handled, Home
<1>2. (Directed' <=> Directed) /\ \A b, n : Listed(b, n)' <=> Listed(b, n)
  BY <1>1 DEF Directed, Listed, RegisteredSlots, tables
<1>3. \A c : Awaited(c) /\ c # d.to => Awaited(c)'
  BY StaysAwaited DEF Awaited
<1>4. \A e \in BagToSet(forwarded) : Touched(e.to)' /\ Awaited(e.to)'
  BY StaysAwaited DEF Awaited, Touched
<1>5. heard \in [Nodes -> 0 .. 2] /\ d.to \in Nodes
  BY DEF TypeInv, TypeOK, Datagram
<1>6. \A n \in Nodes : heard[n] > 0 => heard'[n] > 0
  BY <1>5 DEF Hears
<1>7. ASSUME NEW n \in Expected, Touched(n) PROVE Touched(n)'
  <2>1. n \in Nodes
    BY DEF Expected, Audience, OnSubnet, Nodes
  <2>2. CASE heard[n] > 0
    BY <1>6, <2>1, <2>2 DEF Touched
  <2>3. CASE Awaited(n) /\ n # d.to
    BY <1>3, <2>3 DEF Touched, Awaited
  <2>4. CASE n = d.to
    <3>1. d.function # "distribute"
      BY <2>4 DEF Route, Way, Home, Expected
    <3>2. heard'[n] > 0
      BY <1>5, <2>4, <3>1 DEF Hears
    <3>. QED  BY <3>2 DEF Touched
  <2>. QED  BY <1>7, <2>2, <2>3, <2>4 DEF Touched, Awaited
<1>. QED  BY <1>1, <1>2, <1>3, <1>4, <1>7

LEMMA ReceiveReach ==
  ASSUME TypeInv, Inv, Route, Alike, NEW d \in BagToSet(net), NEW b \in BBMDs, Receive(b, d),
         NEW n \in Expected, OnItsWay(n)
  PROVE  OnItsWay(n)'
<1>0. /\ Home \in BBMDs /\ n \in Nodes /\ n # sent.origin /\ d.to = b
      /\ n \in Devices => Subnet[n] \in BBMDs
  BY HomeIsBBMD, ReceivedAt, BvlcAssumption DEF Expected, Audience, OnSubnet, Nodes
<1>1. PICK forwarded :
        /\ Handled(d, forwarded)
        /\ Hears(d.to) \/ (UNCHANGED heard /\ d.function = "distribute")
        /\ BagToSet(Clients(b)) \subseteq BagToSet(forwarded)
        /\ b = Home => BagToSet(Relay(b)) \subseteq BagToSet(forwarded)
        /\ b = Home /\ sent.origin \in ForeignDevices =>
             BagToSet(Local(b)) \subseteq BagToSet(forwarded)
        /\ b # Home => d.from = Home /\ BagToSet(Repeated(b, d)) \subseteq BagToSet(forwarded)
  <2>1. CASE /\ d.function = "original" /\ b = Home /\ sent.origin \notin ForeignDevices
             /\ Handled(d, Relay(b) (+) Clients(b)) /\ Hears(b)
    BY <1>0, <2>1, Joined
  <2>2. CASE /\ d.function = "distribute" /\ b = Home /\ sent.origin \in ForeignDevices
             /\ Handled(d, Local(b) (+) Relay(b) (+) Clients(b)) /\ UNCHANGED heard
    <3>1. BagToSet(Local(b) (+) Relay(b) (+) Clients(b)) =
            BagToSet(Local(b)) \cup BagToSet(Relay(b)) \cup BagToSet(Clients(b))
      BY Joined
    <3>. QED  BY <1>0, <2>2, <3>1
  <2>3. CASE /\ d.function = "forwarded" /\ b # Home /\ d.from = Home
             /\ Handled(d, Repeated(b, d) (+) Clients(b)) /\ Hears(b)
    BY <1>0, <2>3, Joined
  <2>. QED  BY <2>1, <2>2, <2>3, ReceivedAt
<1>2. /\ Touched(n) => Touched(n)'
      /\ \A c : Awaited(c) /\ c # b => Awaited(c)'
      /\ \A e \in BagToSet(forwarded) : Touched(e.to)' /\ Awaited(e.to)'
      /\ Home' = Home /\ UNCHANGED <<tables, sent>>
      /\ (Directed' <=> Directed) /\ \A c, m : Listed(c, m)' <=> Listed(c, m)
  BY <1>0, <1>1, StillOnItsWay
<1>3. ASSUME n \in BBMDs \cup Devices, Subnet[n] # Home, Awaited(Home) PROVE OnItsWay(n)'
  <2>1. CASE b = Home
    <3>1. \/ Touched(n)'
          \/ n \in Devices /\ ~ Directed /\ Awaited(Subnet[n])'
      BY <1>1, <1>2, <1>3, <2>1, HomeRelays
    <3>. QED  BY <1>2, <1>3, <3>1 DEF OnItsWay
  <2>2. CASE b # Home
    BY <1>2, <1>3, <2>2 DEF OnItsWay
  <2>. QED  BY <2>1, <2>2
<1>4. ASSUME n \in Devices, Subnet[n] = Home, sent.origin \in ForeignDevices, Awaited(Home)
      PROVE  OnItsWay(n)'
  <2>1. CASE b = Home
    BY <1>0, <1>1, <1>2, <1>4, <2>1, LocalReached DEF OnItsWay
  <2>2. CASE b # Home
    BY <1>2, <1>4, <2>2 DEF OnItsWay
  <2>. QED  BY <2>1, <2>2
<1>5. ASSUME n \in Devices, Subnet[n] # Home, ~ Directed, Awaited(Subnet[n]) PROVE OnItsWay(n)'
  <2>1. CASE b = Subnet[n]
    <3>1. PICK i \in DOMAIN BBMD_Table[b] :
            /\ BBMD_Table[b][i].address = Home /\ BBMD_Table[b][i].mask = "unicast"
            /\ BBMD_Table[b][i] \in [address : BBMDs, mask : Masks]
      BY <1>0, <1>5, EntryFor
    <3>2. MaskIsUnicast(b, d.from)
      BY <1>1, <1>5, <2>1, <3>1 DEF MaskIsUnicast
    <3>3. Repeated(b, d) = Local(b)
      BY <3>2 DEF Repeated
    <3>. QED  BY <1>0, <1>1, <1>2, <1>5, <2>1, <3>3, LocalReached DEF OnItsWay
  <2>2. CASE b # Subnet[n]
    BY <1>2, <1>5, <2>2 DEF OnItsWay
  <2>. QED  BY <2>1, <2>2
<1>6. ASSUME n \in ForeignDevices, NEW c \in BBMDs, Listed(c, n),
             Awaited(c) \/ (c # Home /\ Awaited(Home))
      PROVE  OnItsWay(n)'
  <2>1. CASE Awaited(c) /\ c = b
    BY <1>0, <1>1, <1>2, <1>6, <2>1, ClientsReached DEF OnItsWay
  <2>2. CASE Awaited(c) /\ c # b
    BY <1>2, <1>6, <2>2 DEF OnItsWay
  <2>3. CASE c # Home /\ Awaited(Home) /\ b = Home
    <3>1. Subnet[c] = c /\ c \notin Devices
      BY BvlcAssumption
    <3>2. \E e \in BagToSet(Relay(b)) : e.to = c
      BY <2>3, <3>1, HomeRelays
    <3>3. Awaited(c)'
      BY <1>1, <1>2, <2>3, <3>2
    <3>. QED  BY <1>2, <1>6, <3>3 DEF OnItsWay
  <2>4. CASE c # Home /\ Awaited(Home) /\ b # Home
    BY <1>2, <1>6, <2>4 DEF OnItsWay
  <2>. QED  BY <1>6, <2>1, <2>2, <2>3, <2>4
<1>7. ASSUME Touched(n) PROVE OnItsWay(n)'
  BY <1>2, <1>7 DEF OnItsWay
<1>. QED  BY <1>3, <1>4, <1>5, <1>6, <1>7 DEF OnItsWay

\* A device that is no BBMD takes a copy that only itself was waiting for.
LEMMA PlainReach ==
  ASSUME TypeInv, Route, NEW d \in BagToSet(net), NEW m \in Devices \cup ForeignDevices,
         ReceivePlain(m, d), NEW n \in Expected, OnItsWay(n)
  PROVE  OnItsWay(n)'
<1>1. d.to = m /\ m \notin BBMDs /\ Handled(d, EmptyBag) /\ Hears(d.to)
  BY BvlcAssumption DEF ReceivePlain
<1>2. /\ Touched(n) => Touched(n)'
      /\ \A c \in BBMDs : Awaited(c) => Awaited(c)'
      /\ Home' = Home /\ UNCHANGED <<tables, sent>>
      /\ (Directed' <=> Directed) /\ \A c, f : Listed(c, f)' <=> Listed(c, f)
  BY <1>1, StillOnItsWay
<1>3. Home \in BBMDs /\ (n \in Devices => Subnet[n] \in BBMDs)
  BY HomeIsBBMD, BvlcAssumption
<1>4. Awaited(Home) => Awaited(Home)'
  BY <1>2, <1>3
<1>. QED  BY <1>2, <1>3, <1>4 DEF OnItsWay

LEMMA BroadcastReach ==
  ASSUME NEW n, NEW bbmd,
         (n \in BBMDs \cup Devices /\ bbmd = n) \/ (n \in ForeignDevices /\ bbmd \in BBMDs),
         Broadcast(n, bbmd), NEW m \in Expected'
  PROVE  OnItsWay(m)'
<1>1. /\ sent'.origin = n /\ sent'.bbmd = bbmd /\ m # n /\ m # bbmd
      /\ n \in BBMDs => m \in OnSubnet(n)
      /\ m \in BBMDs \cup Devices \/ (m \in ForeignDevices /\ \E b \in BBMDs : Listed(b, m)')
  BY Started DEF Expected, Audience, OnSubnet
<1>2. CASE n \in ForeignDevices
  <2> DEFINE x == [function |-> "distribute", from |-> n, to |-> bbmd]
  <2>1. net' = SetToBag({x}) /\ x.to = bbmd /\ Home' = bbmd /\ bbmd \in BBMDs
    BY <1>2, Started, BvlcAssumption
  <2> HIDE DEF x
  <2>2. Awaited(Home)'
    BY <2>1, BagFacts DEF Awaited
  <2>3. m \in BBMDs => Subnet[m] # Home'
    BY <1>1, <2>1, BvlcAssumption
  <2>. QED  BY <1>1, <1>2, <2>1, <2>2, <2>3 DEF OnItsWay
<1>3. CASE n \notin ForeignDevices
  <2>1. /\ n \in BBMDs \cup Devices /\ Home' = Subnet[n] /\ Subnet[n] \in BBMDs
        /\ net' = Copies("original", n, LocalBroadcast(n))
    BY <1>3, Started, BvlcAssumption
  <2>2. ASSUME NEW k \in OnSubnet(Subnet[n]) \ {n} PROVE Touched(k)' /\ Awaited(k)'
    <3> DEFINE e == [function |-> "original", from |-> n, to |-> k]
    <3>1. LocalBroadcast(n)[k] > 0 /\ k \in Nodes
      BY <1>3, <2>2 DEF LocalBroadcast, OnSubnet, Nodes
    <3>2. e \in BagToSet(net') /\ e.to = k
      BY <2>1, <3>1 DEF Copies, BagToSet
    <3> HIDE DEF e
    <3>. QED  BY <3>2 DEF Touched, Awaited
  <2>3. CASE n \in BBMDs
    BY <1>1, <2>1, <2>2, <2>3, BvlcAssumption DEF OnItsWay
  <2>4. CASE n \notin BBMDs
    <3>1. Awaited(Home)'
      BY <2>1, <2>2, <2>4, BvlcAssumption DEF OnSubnet
    <3>2. CASE m \in BBMDs \cup Devices /\ Subnet[m] = Subnet[n]
      BY <1>1, <2>2, <3>2 DEF OnSubnet, OnItsWay
    <3>3. CASE m \in BBMDs \cup Devices /\ Subnet[m] # Subnet[n]
      BY <2>1, <3>1, <3>3 DEF OnItsWay
    <3>4. CASE m \in ForeignDevices /\ \E b \in BBMDs : Listed(b, m)'
      BY <3>1, <3>4 DEF OnItsWay
    <3>. QED  BY <1>1, <3>2, <3>3, <3>4
  <2>. QED  BY <2>3, <2>4
<1>. QED  BY <1>2, <1>3

LEMMA SameReach == ReachInv /\ UNCHANGED vars => ReachInv'
<1> SUFFICES ASSUME ReachInv, UNCHANGED vars PROVE ReachInv'
  OBVIOUS
<1>1. UNCHANGED <<BBMD_Table, FD_Table, net, sent, heard, undisturbed, lost>>
  BY DEF vars, tables, traffic
<1>2. /\ Alike' <=> Alike
      /\ Home' = Home /\ (Directed' <=> Directed)
      /\ \A b, n : Listed(b, n)' <=> Listed(b, n)
      /\ \A n : (Touched(n)' <=> Touched(n)) /\ (Awaited(n)' <=> Awaited(n))
  BY <1>1 DEF Alike, Identical, Complete, UniformMasks, Home, Directed, Listed,
              RegisteredSlots, Touched, Awaited
<1>3. Expected' = Expected
  BY <1>1, <1>2 DEF Expected, Audience
<1>4. Awaited(Home)' <=> Awaited(Home)
  BY <1>2
<1>5. \A n : OnItsWay(n) => OnItsWay(n)'
  BY <1>1, <1>2, <1>4 DEF OnItsWay
<1>. QED  BY <1>1, <1>2, <1>3, <1>5 DEF ReachInv

LEMMA NextReach == TypeInv /\ Inv /\ Route /\ ReachInv /\ [Next]_vars => ReachInv'
<1> SUFFICES ASSUME TypeInv, Inv, Route, ReachInv, [Next]_vars PROVE ReachInv'
  OBVIOUS
<1>0. ASSUME NEW d, NEW forwarded, Handled(d, forwarded), undisturbed', ~ lost', Alike'
      PROVE  Alike /\ (\A n \in Expected : OnItsWay(n)) /\ Expected' = Expected
  <2>1. UNCHANGED <<BBMD_Table, FD_Table, sent, undisturbed, lost>>
    BY <1>0 DEF Handled, tables
  <2>2. Alike
    BY <1>0, <2>1 DEF Alike, Identical, Complete, UniformMasks
  <2>3. Expected' = Expected
    BY <2>1 DEF Expected, Audience, Listed, RegisteredSlots
  <2>. QED  BY <1>0, <2>1, <2>2, <2>3 DEF ReachInv
<1>1. ASSUME NEW n \in BBMDs \cup Devices, Broadcast(n, n) PROVE ReachInv'
  BY <1>1, BroadcastReach DEF ReachInv
<1>2. ASSUME NEW f \in ForeignDevices, NEW b \in BBMDs, Broadcast(f, b) PROVE ReachInv'
  BY <1>2, BroadcastReach DEF ReachInv
<1>3. ASSUME NEW d \in BagToSet(net), NEW b \in BBMDs, Receive(b, d) PROVE ReachInv'
  <2>1. PICK forwarded : Handled(d, forwarded)
    BY <1>3, ReceivedAt
  <2>. QED  BY <1>0, <1>3, <2>1, ReceiveReach DEF ReachInv
<1>4. ASSUME NEW d \in BagToSet(net), NEW m \in Devices \cup ForeignDevices, ReceivePlain(m, d)
      PROVE  ReachInv'
  <2>1. Handled(d, EmptyBag)
    BY <1>4 DEF ReceivePlain
  <2>. QED  BY <1>0, <1>4, <2>1, PlainReach DEF ReachInv
<1>5. ASSUME undisturbed' = FALSE \/ lost' = TRUE PROVE ReachInv'
  BY <1>5 DEF ReachInv
<1>6. CASE UNCHANGED vars
  BY <1>6, SameReach
<1>. QED
  BY <1>1, <1>2, <1>3, <1>4, <1>5, <1>6
  DEF Next, Lose, WriteBDT, RegisterForeignDevice, DeleteForeignDevice, SecondsPass

\* When the network is quiet and has lost nothing, everyone who should have got the
\* broadcast has: no table, no order of the copies makes bvlc_receive leave out a subnet
\* or a foreign device.
THEOREM DeliveredToAll == Spec => []EveryoneReached
<1>1. ReachInv => EveryoneReached
  <2> SUFFICES ASSUME ReachInv, net = EmptyBag, undisturbed, ~ lost, Alike, NEW n \in Expected
               PROVE  heard[n] > 0
    BY DEF EveryoneReached, Alike, Expected
  <2>1. OnItsWay(n) /\ BagToSet(net) = {}
    BY BagFacts DEF ReachInv
  <2>. QED  BY <2>1 DEF OnItsWay, Awaited, Touched
<1>2. Init => ReachInv
  BY DEF Init, ReachInv
<1>3. Spec => []Inv
  BY InitInv, NextInv, PTL DEF Spec
<1>4. Spec => []TypeInv
  BY InitTyped, NextTyped, PTL DEF Spec
<1>. QED  BY <1>1, <1>2, <1>3, <1>4, InitRoute, NextRoute, NextReach, PTL DEF Spec
=============================================================================
