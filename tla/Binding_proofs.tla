--------------------------- MODULE Binding_proofs ---------------------------
(***************************************************************************)
(* Whatever the size of the cache, the number of devices and of addresses,  *)
(* and whatever is delayed, reordered, lost, moved, displaced or run out:   *)
(* what the cache says of a device is what the device last said of itself,  *)
(* and an entry is given up for another only if it is the right one.        *)
(*                                                                         *)
(* A lookup takes the first entry in use for a device.  That it is the one  *)
(* the last I-Am was entered in needs that there is no second one: a slot   *)
(* is only taken for a device the searches did not find.  And a slot that   *)
(* is taken again still holds the address of its last device, so that what  *)
(* is bound, and only that, must be known to agree with what was heard.     *)
(***************************************************************************)
EXTENDS Binding, AddressList, SlotFacts, SequenceTheorems, TLAPS

Entries == Entry(Devices, Addresses)

\* An entry in use is of one of the others; a static one is bound, the rest expires.
SoundEntry(e) ==
  /\ InUse(e) => e.device_id \in Devices
  /\ InUse(e) /\ "STATIC" \in e.Flags => "BIND_REQ" \notin e.Flags
  /\ InUse(e) /\ "STATIC" \notin e.Flags => e.TimeToLive < FOREVER

OneEach(c) ==
  \A i, j \in Slots :
    InUse(c[i]) /\ InUse(c[j]) /\ c[i].device_id = c[j].device_id => i = j

Sound(c) ==
  /\ c \in [Slots -> Entries]
  /\ \A i \in Slots : SoundEntry(c[i])
  /\ OneEach(c)

\* What is bound agrees with what was last heard of the device.
AsHeard(c, told) == \A i \in Slots : Bound(c[i]) => c[i].address = told[c[i].device_id]

Others ==
  /\ top \in 0 .. MAX_ADDRESS_CACHE
  /\ where \in [Devices -> Addresses]
  /\ heard \in [Devices -> Addresses \cup {NoAddress}]
  /\ \A m \in network : m.type = "I_AM" => m.device \in Devices /\ m.address \in Addresses

\* The inductive invariant.
Inv == Sound(cache) /\ AsHeard(cache, heard) /\ Others /\ sent.to = sent.known

\* No slot in use goes from one device to another.
NoneDisplaced(c, n) ==
  \A i \in Slots : InUse(c[i]) /\ InUse(n[i]) => n[i].device_id = c[i].device_id

-----------------------------------------------------------------------------
\* What the searches find.
LEMMA SlotsAreNat == Slots \subseteq Nat
BY CacheAssumption DEF Slots

\* The first slot of a set of slots.
LEMMA MinOfSlots ==
  ASSUME NEW S \in SUBSET Slots, S # {}
  PROVE  Min(S) \in S
<1>1. \E x \in S : \A y \in S : x =< y
  BY LeastOfNat, SlotsAreNat
<1>. QED  BY <1>1 DEF Min

LEMMA HeldInSlots ==
  ASSUME NEW c, NEW d, Held(c, d) # {}
  PROVE  /\ Min(Held(c, d)) \in Slots
         /\ InUse(c[Min(Held(c, d))])
         /\ c[Min(Held(c, d))].device_id = d
BY MinOfSlots DEF Held

\* The slot that lives shortest, the last of those.
LEMMA OldestIsShortest ==
  ASSUME NEW c \in [Slots -> Entries], NEW S \in SUBSET Slots, S # {}
  PROVE  /\ Oldest(c, S) \in S
         /\ \A j \in S : c[Oldest(c, S)].TimeToLive <= c[j].TimeToLive
<1> DEFINE T(i) == c[i].TimeToLive
           Times == {T(i) : i \in S}
<1>1. \A i \in S : T(i) \in Nat
  BY CacheAssumption DEF Entries, Entry
<1>2. PICK t \in Times : \A u \in Times : t <= u
  <2>1. Times \in SUBSET Nat /\ Times # {}
    BY <1>1
  <2>. QED  BY <2>1, LeastOfNat
<1> DEFINE Left(i) == MAX_ADDRESS_CACHE - i
           Ends == {Left(i) : i \in {j \in S : T(j) = t}}
<1>3. PICK e \in Ends : \A f \in Ends : e <= f
  <2>1. Ends \in SUBSET Nat
    BY CacheAssumption DEF Slots
  <2>2. Ends # {}
    BY <1>2
  <2>. QED  BY <2>1, <2>2, LeastOfNat
<1>4. PICK i \in S : T(i) = t /\ e = Left(i)
  BY <1>3
<1>5. \A j \in S : T(j) = t => i >= j
  <2> SUFFICES ASSUME NEW j \in S, T(j) = t PROVE i >= j
    OBVIOUS
  <2>1. Left(i) <= Left(j)
    BY <1>3, <1>4
  <2>2. i \in Int /\ j \in Int /\ MAX_ADDRESS_CACHE \in Int
    BY CacheAssumption DEF Slots
  <2>. QED  BY <2>1, <2>2
<1>6. \A j \in S : t <= T(j)
  BY <1>2
<1>7. \A j \in S : T(i) < T(j) \/ (T(i) = T(j) /\ i >= j)
  BY <1>1, <1>4, <1>5, <1>6
<1>8. \E x \in S : \A j \in S : \/ c[x].TimeToLive < c[j].TimeToLive
                                \/ c[x].TimeToLive = c[j].TimeToLive /\ x >= j
  BY <1>7
<1>9. /\ Oldest(c, S) \in S
      /\ \A j \in S : \/ c[Oldest(c, S)].TimeToLive < c[j].TimeToLive
                      \/ c[Oldest(c, S)].TimeToLive = c[j].TimeToLive /\ Oldest(c, S) >= j
  BY <1>8 DEF Oldest
<1>. QED  BY <1>1, <1>9

-----------------------------------------------------------------------------
\* Two ways to change the table.  One entry changes, and no other slot is in use
\* for its device: then there is still one of each.
LEMMA OneChanged ==
  ASSUME NEW c, Sound(c), NEW i \in Slots, NEW e \in Entries, SoundEntry(e),
         InUse(e) => \A j \in Slots \ {i} : ~(InUse(c[j]) /\ c[j].device_id = e.device_id)
  PROVE  Sound([c EXCEPT ![i] = e])
<1> DEFINE n == [c EXCEPT ![i] = e]
<1>1. n \in [Slots -> Entries]
  BY DEF Sound
<1>2. n[i] = e /\ \A j \in Slots \ {i} : n[j] = c[j]
  BY DEF Sound
<1> HIDE DEF n
<1>3. \A j \in Slots : SoundEntry(n[j])
  BY <1>2 DEF Sound
<1>4. OneEach(n)
  <2> SUFFICES ASSUME NEW j \in Slots, NEW k \in Slots, InUse(n[j]), InUse(n[k]),
                      n[j].device_id = n[k].device_id
               PROVE  j = k
    BY DEF OneEach
  <2>1. CASE j # i /\ k # i
    BY <2>1, <1>2 DEF Sound, OneEach
  <2>2. CASE j = i /\ k # i
    BY <2>2, <1>2
  <2>3. CASE j # i /\ k = i
    BY <2>3, <1>2
  <2>. QED  BY <2>1, <2>2, <2>3
<1>. QED  BY <1>1, <1>3, <1>4 DEF n, Sound

LEMMA OneChangedAsHeard ==
  ASSUME NEW c \in [Slots -> Entries], NEW told, AsHeard(c, told), NEW i \in Slots,
         NEW e, Bound(e) => e.address = told[e.device_id]
  PROVE  AsHeard([c EXCEPT ![i] = e], told)
BY DEF AsHeard

\* Or entries age or are given up, each in its slot.
LEMMA Shrunk ==
  ASSUME NEW c, Sound(c), NEW n \in [Slots -> Entries],
         \A i \in Slots : SoundEntry(n[i]),
         \A i \in Slots : InUse(n[i]) => InUse(c[i]) /\ n[i].device_id = c[i].device_id
  PROVE  Sound(n)
BY DEF Sound, OneEach

LEMMA ShrunkAsHeard ==
  ASSUME NEW c, NEW told, AsHeard(c, told), NEW n,
         \A i \in Slots : Bound(n[i]) => /\ Bound(c[i])
                                         /\ n[i].device_id = c[i].device_id
                                         /\ n[i].address = c[i].address
  PROVE  AsHeard(n, told)
BY DEF AsHeard

-----------------------------------------------------------------------------
\* Clearing some slots leaves the rest as it was.
LEMMA ClearedEntries ==
  ASSUME NEW c \in [Slots -> Entries], NEW S
  PROVE  /\ Cleared(c, S) \in [Slots -> Entries]
         /\ \A i \in Slots : i \in S => ~InUse(Cleared(c, S)[i])
         /\ \A i \in Slots : i \notin S => Cleared(c, S)[i] = c[i]
<1>1. \A i \in Slots : /\ [c[i] EXCEPT !.Flags = {}] \in Entries
                       /\ [c[i] EXCEPT !.Flags = {}].Flags = {}
  BY DEF Entries, Entry
<1>. QED  BY <1>1 DEF Cleared, InUse

LEMMA ClearedSound ==
  ASSUME NEW c, Sound(c), NEW S
  PROVE  /\ Sound(Cleared(c, S))
         /\ NoneDisplaced(c, Cleared(c, S))
         /\ \A told : AsHeard(c, told) => AsHeard(Cleared(c, S), told)
<1> DEFINE n == Cleared(c, S)
<1>1. /\ n \in [Slots -> Entries]
      /\ \A i \in Slots : i \in S => ~InUse(n[i])
      /\ \A i \in Slots : i \notin S => n[i] = c[i]
  BY ClearedEntries DEF Sound
<1> HIDE DEF n
<1>2. \A i \in Slots : SoundEntry(n[i])
  BY <1>1 DEF Sound, SoundEntry
<1>3. Sound(n)
  BY <1>1, <1>2, Shrunk
<1>4. ASSUME NEW told, AsHeard(c, told) PROVE AsHeard(n, told)
  BY <1>1, <1>4, ShrunkAsHeard DEF Bound
<1>5. NoneDisplaced(c, n)
  BY <1>1 DEF NoneDisplaced
<1>. QED  BY <1>3, <1>4, <1>5 DEF n

LEMMA InitSound ==
  /\ Sound(address_init)
  /\ \A c : NoneDisplaced(c, address_init)
  /\ \A told : AsHeard(address_init, told)
<1>1. address_init \in [Slots -> Entries]
  BY CacheAssumption DEF address_init, Entries, Entry
<1>2. \A i \in Slots : ~InUse(address_init[i])
  BY DEF address_init, InUse
<1>. QED  BY <1>1, <1>2 DEF Sound, OneEach, SoundEntry, AsHeard, Bound, NoneDisplaced

\* Removing a device moves the boundary by one place at most.
LEMMA RemoveSound ==
  ASSUME NEW c, Sound(c), NEW n \in 0 .. MAX_ADDRESS_CACHE, NEW d
  PROVE  LET result == address_remove_device(c, n, d)
         IN  /\ Sound(result.cache)
             /\ NoneDisplaced(c, result.cache)
             /\ \A told : AsHeard(c, told) => AsHeard(result.cache, told)
             /\ result.top \in 0 .. MAX_ADDRESS_CACHE
<1>1. CASE Held(c, d) = {}
  BY <1>1 DEF address_remove_device, NoneDisplaced
<1>2. CASE Held(c, d) # {}
  <2> DEFINE i == Min(Held(c, d))
  <2>1. i \in Slots
    BY <1>2, HeldInSlots
  <2> HIDE DEF i
  <2>2. (IF i <= n THEN n - 1 ELSE n) \in 0 .. MAX_ADDRESS_CACHE
    BY <2>1, CacheAssumption DEF Slots
  <2>3. address_remove_device(c, n, d)
        = [cache |-> Cleared(c, {i}), top |-> IF i <= n THEN n - 1 ELSE n]
    BY <1>2 DEF address_remove_device, i
  <2>. QED  BY <2>2, <2>3, ClearedSound
<1>. QED  BY <1>1, <1>2

-----------------------------------------------------------------------------
\* Time passes.
LEMMA TimerSound ==
  ASSUME NEW c, Sound(c), NEW seconds \in Nat
  PROVE  /\ Sound(address_cache_timer(c, seconds))
         /\ NoneDisplaced(c, address_cache_timer(c, seconds))
         /\ \A told : AsHeard(c, told) => AsHeard(address_cache_timer(c, seconds), told)
<1> DEFINE Older(e) == IF ~InUse(e) \/ "STATIC" \in e.Flags THEN e
                       ELSE IF e.TimeToLive >= seconds
                            THEN [e EXCEPT !.TimeToLive = @ - seconds]
                            ELSE [e EXCEPT !.Flags = {}]
           n == address_cache_timer(c, seconds)
<1>1. ASSUME NEW e \in Entries, SoundEntry(e)
      PROVE  /\ Older(e) \in Entries
             /\ SoundEntry(Older(e))
             /\ InUse(Older(e)) => InUse(e)
             /\ Bound(Older(e)) => Bound(e)
             /\ Older(e).device_id = e.device_id
             /\ Older(e).address = e.address
  <2>1. CASE ~InUse(e) \/ "STATIC" \in e.Flags
    BY <2>1, <1>1
  <2>2. CASE InUse(e) /\ "STATIC" \notin e.Flags /\ e.TimeToLive >= seconds
    <3>1. e.TimeToLive - seconds \in 0 .. FOREVER /\ e.TimeToLive - seconds <= e.TimeToLive
      BY <2>2, CacheAssumption DEF Entries, Entry
    <3>2. Older(e) = [e EXCEPT !.TimeToLive = e.TimeToLive - seconds]
      BY <2>2
    <3> HIDE DEF Older
    <3>3. Older(e) \in Entries
      BY <3>1, <3>2 DEF Entries, Entry
    <3>4. /\ Older(e).Flags = e.Flags /\ Older(e).device_id = e.device_id
          /\ Older(e).address = e.address /\ Older(e).TimeToLive = e.TimeToLive - seconds
      BY <3>2 DEF Entries, Entry
    <3>5. e.TimeToLive \in Int /\ FOREVER \in Int
      BY CacheAssumption DEF Entries, Entry
    <3>. QED  BY <1>1, <3>1, <3>3, <3>4, <3>5 DEF SoundEntry, InUse, Bound
  <2>3. CASE InUse(e) /\ "STATIC" \notin e.Flags /\ ~(e.TimeToLive >= seconds)
    <3>1. Older(e) = [e EXCEPT !.Flags = {}]
      BY <2>3
    <3> HIDE DEF Older
    <3>2. /\ Older(e) \in Entries /\ Older(e).Flags = {}
          /\ Older(e).device_id = e.device_id /\ Older(e).address = e.address
      BY <3>1 DEF Entries, Entry
    <3>. QED  BY <3>2 DEF SoundEntry, InUse, Bound
  <2>. QED  BY <2>1, <2>2, <2>3
<1>2. \A i \in Slots : n[i] = Older(c[i])
  BY DEF address_cache_timer
<1>3. n = [i \in Slots |-> Older(c[i])]
  BY DEF address_cache_timer
<1> HIDE DEF Older, n
<1>4. \A i \in Slots : c[i] \in Entries /\ SoundEntry(c[i])
  BY DEF Sound
<1>5. n \in [Slots -> Entries]
  BY <1>1, <1>3, <1>4
<1>6. /\ \A i \in Slots : SoundEntry(n[i])
      /\ \A i \in Slots : InUse(n[i]) => InUse(c[i]) /\ n[i].device_id = c[i].device_id
      /\ \A i \in Slots : Bound(n[i]) => /\ Bound(c[i])
                                         /\ n[i].device_id = c[i].device_id
                                         /\ n[i].address = c[i].address
  BY <1>1, <1>2, <1>4
<1>7. Sound(n)
  BY <1>5, <1>6, Shrunk
<1>8. ASSUME NEW told, AsHeard(c, told) PROVE AsHeard(n, told)
  BY <1>6, <1>8, ShrunkAsHeard
<1>9. NoneDisplaced(c, n)
  BY <1>6 DEF NoneDisplaced
<1>. QED  BY <1>7, <1>8, <1>9 DEF n

\* An entry is made static, or normal again, or given another time to wait.
LEMMA SetTTLSound ==
  ASSUME NEW c, Sound(c), NEW d, NEW static \in BOOLEAN
  PROVE  /\ Sound(address_set_device_TTL(c, d, 0, static))
         /\ NoneDisplaced(c, address_set_device_TTL(c, d, 0, static))
         /\ \A told : AsHeard(c, told) => AsHeard(address_set_device_TTL(c, d, 0, static), told)
<1>1. CASE Held(c, d) = {}
  BY <1>1 DEF address_set_device_TTL, NoneDisplaced
<1>2. CASE Held(c, d) # {}
  <2> DEFINE i == Min(Held(c, d))
             e == c[i]
             f == IF ~Bound(e) THEN [e EXCEPT !.TimeToLive = 0]
                  ELSE IF static
                       THEN [e EXCEPT !.Flags = @ \cup {"STATIC"}, !.TimeToLive = FOREVER]
                       ELSE [e EXCEPT !.Flags = @ \ {"STATIC"}, !.TimeToLive = 0]
  <2>1. i \in Slots /\ InUse(e)
    BY <1>2, HeldInSlots
  <2>2. address_set_device_TTL(c, d, 0, static) = [c EXCEPT ![i] = f]
    BY <1>2 DEF address_set_device_TTL
  <2>3. e \in Entries /\ SoundEntry(e)
    BY <2>1 DEF Sound
  <2> HIDE DEF i, e
  <2>4. /\ f \in Entries /\ SoundEntry(f)
        /\ f.device_id = e.device_id /\ f.address = e.address
        /\ Bound(f) => Bound(e)
    <3>1. CASE ~Bound(e)
      <4>1. f = [e EXCEPT !.TimeToLive = 0]
        BY <3>1
      <4> HIDE DEF f
      <4>2. f \in Entries
        BY <4>1, <2>3, CacheAssumption DEF Entries, Entry
      <4>3. /\ f.device_id = e.device_id /\ f.address = e.address
            /\ f.Flags = e.Flags /\ f.TimeToLive = 0
        BY <4>1, <2>3 DEF Entries, Entry
      <4>. QED  BY <2>3, <4>2, <4>3, CacheAssumption DEF SoundEntry, InUse, Bound
    <3>2. CASE Bound(e) /\ static
      <4>1. f = [e EXCEPT !.Flags = @ \cup {"STATIC"}, !.TimeToLive = FOREVER]
        BY <3>2
      <4> HIDE DEF f
      <4>2. f = [Flags |-> e.Flags \cup {"STATIC"}, device_id |-> e.device_id,
                 address |-> e.address, TimeToLive |-> FOREVER]
        BY <4>1, <2>3 DEF Entries, Entry
      <4>3. f \in Entries
        BY <4>2, <2>3, CacheAssumption DEF Entries, Entry, BAC_ADDR
      <4>. QED  BY <2>3, <3>2, <4>2, <4>3 DEF SoundEntry, InUse, Bound
    <3>3. CASE Bound(e) /\ ~static
      <4>1. f = [e EXCEPT !.Flags = @ \ {"STATIC"}, !.TimeToLive = 0]
        BY <3>3
      <4> HIDE DEF f
      <4>2. f = [Flags |-> e.Flags \ {"STATIC"}, device_id |-> e.device_id,
                 address |-> e.address, TimeToLive |-> 0]
        BY <4>1, <2>3 DEF Entries, Entry
      <4>3. f \in Entries
        BY <4>2, <2>3, CacheAssumption DEF Entries, Entry
      <4>. QED  BY <2>3, <3>3, <4>2, <4>3, CacheAssumption DEF SoundEntry, InUse, Bound
    <3>. QED  BY <3>1, <3>2, <3>3
  <2>5. Sound([c EXCEPT ![i] = f])
    <3>1. \A j \in Slots \ {i} : ~(InUse(c[j]) /\ c[j].device_id = f.device_id)
      BY <2>1, <2>4 DEF Sound, OneEach, e
    <3>. QED  BY <2>1, <2>4, <3>1, OneChanged
  <2>6. ASSUME NEW told, AsHeard(c, told) PROVE AsHeard([c EXCEPT ![i] = f], told)
    <3>1. Bound(f) => f.address = told[f.device_id]
      BY <2>1, <2>4, <2>6 DEF AsHeard, e
    <3>. QED  BY <2>1, <2>6, <3>1, OneChangedAsHeard DEF Sound
  <2>7. NoneDisplaced(c, [c EXCEPT ![i] = f])
    BY <2>1, <2>4 DEF Sound, NoneDisplaced, e
  <2>. QED  BY <2>2, <2>5, <2>6, <2>7
<1>. QED  BY <1>1, <1>2

-----------------------------------------------------------------------------
\* Something is heard of a device: its entry shows it, if there is one, and the
\* entries of the others stay.
LEMMA HeardAnew ==
  ASSUME NEW c, Sound(c), NEW d \in Devices, NEW address,
         NEW told \in [Devices -> Addresses \cup {NoAddress}], AsHeard(c, told), NEW n,
         \A j \in Slots : Bound(n[j]) =>
            \/ n[j].device_id = d /\ n[j].address = address
            \/ n[j] = c[j] /\ c[j].device_id # d
  PROVE  AsHeard(n, [told EXCEPT ![d] = address])
<1>1. \A j \in Slots : Bound(c[j]) => c[j].device_id \in Devices
  BY DEF Sound, SoundEntry, Bound
<1>. QED  BY <1>1 DEF AsHeard

\* The entry of a device is brought up to date.
LEMMA UpdatedSound ==
  ASSUME NEW c, Sound(c), NEW d \in Devices, NEW address \in Addresses, Held(c, d) # {},
         NEW told \in [Devices -> Addresses \cup {NoAddress}], AsHeard(c, told),
         NEW f \in Entries, SoundEntry(f), f.device_id = d, f.address = address
  PROVE  LET n == [c EXCEPT ![Min(Held(c, d))] = f]
         IN  /\ Sound(n) /\ AsHeard(n, [told EXCEPT ![d] = address])
             /\ NoneDisplaced(c, n)
<1> DEFINE i == Min(Held(c, d))
           n == [c EXCEPT ![i] = f]
<1>1. i \in Slots /\ InUse(c[i]) /\ c[i].device_id = d
  BY HeldInSlots
<1> HIDE DEF i
<1>2. \A j \in Slots \ {i} : ~(InUse(c[j]) /\ c[j].device_id = d)
  BY <1>1 DEF Sound, OneEach
<1>3. Sound(n)
  BY <1>1, <1>2, OneChanged
<1>4. n[i] = f /\ \A j \in Slots \ {i} : n[j] = c[j]
  BY <1>1 DEF Sound
<1> HIDE DEF n
<1>5. \A j \in Slots : Bound(n[j]) => \/ n[j].device_id = d /\ n[j].address = address
                                      \/ n[j] = c[j] /\ c[j].device_id # d
  BY <1>2, <1>4 DEF Bound
<1>6. AsHeard(n, [told EXCEPT ![d] = address])
  <2> DEFINE anew == [told EXCEPT ![d] = address]
  <2>1. \A j \in Slots : Bound(c[j]) => c[j].device_id \in Devices
    BY DEF Sound, SoundEntry, Bound
  <2>2. anew[d] = address /\ \A k \in Devices \ {d} : anew[k] = told[k]
    OBVIOUS
  <2> HIDE DEF anew
  <2>3. AsHeard(n, anew)
    BY <1>5, <2>1, <2>2 DEF AsHeard
  <2>. QED  BY <2>3 DEF anew
<1>7. NoneDisplaced(c, n)
  BY <1>1, <1>4 DEF NoneDisplaced
<1>. QED  BY <1>3, <1>6, <1>7 DEF n, i

\* Of a device that has no entry, nothing is in the table.
LEMMA UnknownAsHeard ==
  ASSUME NEW c, Sound(c), NEW d \in Devices, NEW address, Held(c, d) = {},
         NEW told \in [Devices -> Addresses \cup {NoAddress}], AsHeard(c, told)
  PROVE  AsHeard(c, [told EXCEPT ![d] = address])
<1>1. \A j \in Slots : Bound(c[j]) => c[j].device_id # d
  BY DEF Held, Bound
<1>. QED  BY <1>1, HeardAnew

\* What several fields of an entry become at once.
LEMMA RequestedFields ==
  ASSUME NEW e \in Entries, NEW d, NEW life
  PROVE  [e EXCEPT !.Flags = {"IN_USE", "BIND_REQ"}, !.device_id = d, !.TimeToLive = life]
         = [Flags |-> {"IN_USE", "BIND_REQ"}, device_id |-> d,
            address |-> e.address, TimeToLive |-> life]
<1> DEFINE a == [e EXCEPT !.Flags = {"IN_USE", "BIND_REQ"}]
           b == [a EXCEPT !.device_id = d]
<1>1. a = [Flags |-> {"IN_USE", "BIND_REQ"}, device_id |-> e.device_id, address |-> e.address,
           TimeToLive |-> e.TimeToLive]
  BY DEF Entries, Entry
<1> HIDE DEF a
<1>2. b = [Flags |-> {"IN_USE", "BIND_REQ"}, device_id |-> d, address |-> e.address,
           TimeToLive |-> e.TimeToLive]
  BY <1>1
<1> HIDE DEF b
<1>3. [b EXCEPT !.TimeToLive = life]
      = [Flags |-> {"IN_USE", "BIND_REQ"}, device_id |-> d, address |-> e.address,
         TimeToLive |-> life]
  BY <1>2
<1>4. [e EXCEPT !.Flags = {"IN_USE", "BIND_REQ"}, !.device_id = d, !.TimeToLive = life]
      = [b EXCEPT !.TimeToLive = life]
  BY DEF a, b
<1>. QED  BY <1>3, <1>4

LEMMA RenewedFields ==
  ASSUME NEW e \in Entries, NEW address, NEW life
  PROVE  [e EXCEPT !.address = address, !.Flags = @ \ {"BIND_REQ"}, !.TimeToLive = life]
         = [Flags |-> e.Flags \ {"BIND_REQ"}, device_id |-> e.device_id,
            address |-> address, TimeToLive |-> life]
<1> DEFINE a == [e EXCEPT !.address = address]
           b == [a EXCEPT !.Flags = @ \ {"BIND_REQ"}]
<1>1. a = [Flags |-> e.Flags, device_id |-> e.device_id, address |-> address,
           TimeToLive |-> e.TimeToLive]
  BY DEF Entries, Entry
<1> HIDE DEF a
<1>2. b = [Flags |-> e.Flags \ {"BIND_REQ"}, device_id |-> e.device_id, address |-> address,
           TimeToLive |-> e.TimeToLive]
  BY <1>1
<1> HIDE DEF b
<1>3. [b EXCEPT !.TimeToLive = life]
      = [Flags |-> e.Flags \ {"BIND_REQ"}, device_id |-> e.device_id, address |-> address,
         TimeToLive |-> life]
  BY <1>2
<1>4. [e EXCEPT !.address = address, !.Flags = @ \ {"BIND_REQ"}, !.TimeToLive = life]
      = [b EXCEPT !.TimeToLive = life]
  BY DEF a, b
<1>. QED  BY <1>3, <1>4

LEMMA BindingAddedSound ==
  ASSUME NEW c, Sound(c), NEW d \in Devices, NEW address \in Addresses,
         NEW told \in [Devices -> Addresses \cup {NoAddress}], AsHeard(c, told)
  PROVE  LET n == address_add_binding(c, d, address)
         IN  /\ Sound(n) /\ AsHeard(n, [told EXCEPT ![d] = address])
             /\ NoneDisplaced(c, n)
<1>1. CASE Held(c, d) = {}
  BY <1>1, UnknownAsHeard DEF address_add_binding, NoneDisplaced
<1>2. CASE Held(c, d) # {}
  <2> DEFINE i == Min(Held(c, d))
             e == c[i]
             life == IF "STATIC" \in e.Flags THEN e.TimeToLive ELSE LONG_TIME
             f == [e EXCEPT !.address = address, !.Flags = @ \ {"BIND_REQ"},
                            !.TimeToLive = life]
  <2>1. e \in Entries /\ SoundEntry(e) /\ InUse(e) /\ e.device_id = d
    BY <1>2, HeldInSlots DEF Sound
  <2>2. address_add_binding(c, d, address) = [c EXCEPT ![i] = f]
    BY <1>2 DEF address_add_binding
  <2>3. /\ life \in 0 .. FOREVER
        /\ "STATIC" \notin e.Flags => life < FOREVER
    BY <2>1, CacheAssumption DEF Entries, Entry
  <2> HIDE DEF i, e, life
  <2>4. f = [Flags |-> e.Flags \ {"BIND_REQ"}, device_id |-> d, address |-> address,
             TimeToLive |-> life]
    BY <2>1, RenewedFields
  <2> HIDE DEF f
  <2>5. f \in Entries
    BY <2>1, <2>3, <2>4 DEF Entries, Entry
  <2>6. SoundEntry(f) /\ f.device_id = d /\ f.address = address
    BY <2>1, <2>3, <2>4 DEF SoundEntry, InUse
  <2>7. LET n == [c EXCEPT ![i] = f]
        IN  /\ Sound(n) /\ AsHeard(n, [told EXCEPT ![d] = address])
            /\ NoneDisplaced(c, n)
    BY <1>2, <2>5, <2>6, UpdatedSound DEF i
  <2>. QED  BY <2>2, <2>7
<1>. QED  BY <1>1, <1>2

-----------------------------------------------------------------------------
\* What address_remove_oldest may give up.
Expiring(c) == {i \in Slots : /\ InUse(c[i])
                              /\ "STATIC" \notin c[i].Flags
                              /\ c[i].TimeToLive < FOREVER}
GiveUpBound(c, n) == {i \in Expiring(c) : i > n /\ Bound(c[i])}
GiveUpPending(c) == {i \in Expiring(c) : ~Bound(c[i])}

\* The slot for a new entry is a free one; with none free, the bound one that
\* expires first; with none of those either, a waiting one; or there is none.
LEMMA SlotCases ==
  ASSUME NEW c, Sound(c), NEW n
  PROVE  \/ SlotForNew(c, n) = 0
         \/ SlotForNew(c, n) \in Free(c)
         \/ /\ Free(c) = {}
            /\ SlotForNew(c, n) \in GiveUpBound(c, n)
            /\ \A j \in GiveUpBound(c, n) :
                 c[SlotForNew(c, n)].TimeToLive <= c[j].TimeToLive
         \/ /\ Free(c) = {}
            /\ GiveUpBound(c, n) = {}
            /\ SlotForNew(c, n) \in GiveUpPending(c)
<1> DEFINE B == GiveUpBound(c, n)
           P == GiveUpPending(c)
<1>1. B \in SUBSET Slots /\ P \in SUBSET Slots /\ Free(c) \in SUBSET Slots
  BY DEF GiveUpBound, GiveUpPending, Expiring, Free
<1>2. address_remove_oldest(c, n)
      = IF n >= MAX_ADDRESS_CACHE THEN 0
        ELSE IF B # {} THEN Oldest(c, B)
        ELSE IF P # {} THEN Oldest(c, P)
        ELSE 0
  BY DEF address_remove_oldest, GiveUpBound, GiveUpPending, Expiring
<1>3. c \in [Slots -> Entries]
  BY DEF Sound
<1>4. CASE Free(c) # {}
  BY <1>1, <1>4, MinOfSlots DEF SlotForNew
<1>5. CASE Free(c) = {}
  <2>1. SlotForNew(c, n) = address_remove_oldest(c, n)
    BY <1>5 DEF SlotForNew
  <2> HIDE DEF B, P
  <2>2. CASE n >= MAX_ADDRESS_CACHE
    BY <1>2, <2>1, <2>2
  <2>3. CASE ~(n >= MAX_ADDRESS_CACHE) /\ B # {}
    <3>1. Oldest(c, B) \in B /\ \A j \in B : c[Oldest(c, B)].TimeToLive <= c[j].TimeToLive
      BY <1>1, <1>3, <2>3, OldestIsShortest
    <3>2. SlotForNew(c, n) = Oldest(c, B)
      BY <1>2, <2>1, <2>3
    <3>. QED  BY <1>5, <3>1, <3>2 DEF B
  <2>4. CASE ~(n >= MAX_ADDRESS_CACHE) /\ B = {} /\ P # {}
    <3>1. Oldest(c, P) \in P
      BY <1>1, <1>3, <2>4, OldestIsShortest
    <3>2. SlotForNew(c, n) = Oldest(c, P)
      BY <1>2, <2>1, <2>4
    <3>. QED  BY <1>5, <2>4, <3>1, <3>2 DEF B, P
  <2>5. CASE ~(n >= MAX_ADDRESS_CACHE) /\ B = {} /\ P = {}
    BY <1>2, <2>1, <2>5
  <2>. QED  BY <2>2, <2>3, <2>4, <2>5
<1>. QED  BY <1>4, <1>5

LEMMA SlotForNewIsSlot ==
  ASSUME NEW c, Sound(c), NEW n
  PROVE  SlotForNew(c, n) = 0 \/ SlotForNew(c, n) \in Slots
BY SlotCases DEF GiveUpBound, GiveUpPending, Expiring, Free

\* Which entries may go for the table n when the first m are protected, as
\* EvictsNearestExpiry has it.
Displaces(c, m, n) ==
  \A i \in Slots :
    LET displaced  == InUse(c[i]) /\ InUse(n[i]) /\ c[i].device_id # n[i].device_id
        expendable == {j \in Slots : j > m /\ Bound(c[j]) /\ "STATIC" \notin c[j].Flags}
    IN  displaced =>
          /\ Free(c) = {}
          /\ "STATIC" \notin c[i].Flags
          /\ IF Bound(c[i])
             THEN i \in expendable
                  /\ \A j \in expendable : c[i].TimeToLive <= c[j].TimeToLive
             ELSE expendable = {}

\* The slot for a new entry displaces the right one.
LEMMA PlacedDisplaces ==
  ASSUME NEW c, Sound(c), NEW m, NEW e, SlotForNew(c, m) # 0
  PROVE  Displaces(c, m, [c EXCEPT ![SlotForNew(c, m)] = e])
<1> DEFINE slot == SlotForNew(c, m)
           n == [c EXCEPT ![slot] = e]
           expendable == {j \in Slots : j > m /\ Bound(c[j]) /\ "STATIC" \notin c[j].Flags}
<1>1. \A i \in Slots \ {slot} : n[i] = c[i]
  BY DEF Sound
<1>2. expendable = GiveUpBound(c, m)
  BY DEF GiveUpBound, Expiring, Sound, SoundEntry, Bound
<1>3. \/ slot \in Free(c)
      \/ /\ Free(c) = {} /\ slot \in GiveUpBound(c, m)
         /\ \A j \in GiveUpBound(c, m) : c[slot].TimeToLive <= c[j].TimeToLive
      \/ /\ Free(c) = {} /\ GiveUpBound(c, m) = {} /\ slot \in GiveUpPending(c)
  BY SlotCases
<1> HIDE DEF n, slot
<1>4. SUFFICES ASSUME NEW i \in Slots, InUse(c[i]), InUse(n[i]), c[i].device_id # n[i].device_id
               PROVE  /\ Free(c) = {}
                      /\ "STATIC" \notin c[i].Flags
                      /\ IF Bound(c[i])
                         THEN i \in expendable
                              /\ \A j \in expendable : c[i].TimeToLive <= c[j].TimeToLive
                         ELSE expendable = {}
  BY DEF Displaces, n, slot
<1>5. i = slot /\ slot \notin Free(c)
  BY <1>1, <1>4 DEF Free
<1>6. CASE /\ Free(c) = {} /\ slot \in GiveUpBound(c, m)
           /\ \A j \in GiveUpBound(c, m) : c[slot].TimeToLive <= c[j].TimeToLive
  <2>1. Bound(c[i]) /\ "STATIC" \notin c[i].Flags
    BY <1>5, <1>6 DEF GiveUpBound, Expiring
  <2> HIDE DEF expendable
  <2>. QED  BY <1>2, <1>5, <1>6, <2>1
<1>7. CASE Free(c) = {} /\ GiveUpBound(c, m) = {} /\ slot \in GiveUpPending(c)
  <2>1. ~Bound(c[i]) /\ "STATIC" \notin c[i].Flags
    BY <1>5, <1>7 DEF GiveUpPending, Expiring
  <2> HIDE DEF expendable
  <2>. QED  BY <1>2, <1>7, <2>1
<1>. QED  BY <1>3, <1>5, <1>6, <1>7

-----------------------------------------------------------------------------
\* An entry awaits an answer: it is not bound, and its device had none.
LEMMA RequestSound ==
  ASSUME NEW c, Sound(c), NEW n, NEW d \in Devices
  PROVE  /\ Sound(address_bind_request(c, n, d))
         /\ Displaces(c, n, address_bind_request(c, n, d))
         /\ \A told : AsHeard(c, told) => AsHeard(address_bind_request(c, n, d), told)
<1> DEFINE slot == SlotForNew(c, n)
           pending == [c[slot] EXCEPT !.Flags = {"IN_USE", "BIND_REQ"},
                                      !.device_id = d, !.TimeToLive = SHORT_TIME]
<1>1. CASE Held(c, d) # {} \/ slot = 0
  BY <1>1 DEF address_bind_request, Placed, Displaces
<1>2. CASE Held(c, d) = {} /\ slot # 0
  <2>1. slot \in Slots
    BY <1>2, SlotForNewIsSlot
  <2>2. c[slot] \in Entries
    BY <2>1 DEF Sound
  <2>3. address_bind_request(c, n, d) = [c EXCEPT ![slot] = pending]
    BY <1>2 DEF address_bind_request, Placed
  <2> HIDE DEF slot
  <2>4. pending = [Flags |-> {"IN_USE", "BIND_REQ"}, device_id |-> d,
                   address |-> c[slot].address, TimeToLive |-> SHORT_TIME]
    BY <2>2, RequestedFields
  <2> HIDE DEF pending
  <2>5. pending \in Entries
    BY <2>2, <2>4, CacheAssumption DEF Entries, Entry, BAC_ADDR
  <2>6. SoundEntry(pending) /\ ~Bound(pending) /\ pending.device_id = d
    BY <2>4, CacheAssumption DEF SoundEntry, InUse, Bound
  <2>7. \A j \in Slots : ~(InUse(c[j]) /\ c[j].device_id = d)
    BY <1>2 DEF Held
  <2>8. Sound([c EXCEPT ![slot] = pending])
    BY <2>1, <2>5, <2>6, <2>7, OneChanged
  <2>9. ASSUME NEW told, AsHeard(c, told) PROVE AsHeard([c EXCEPT ![slot] = pending], told)
    BY <2>1, <2>6, <2>9, OneChangedAsHeard DEF Sound
  <2>10. Displaces(c, n, [c EXCEPT ![slot] = pending])
    BY <1>2, PlacedDisplaces DEF slot
  <2>. QED  BY <2>3, <2>8, <2>9, <2>10
<1>. QED  BY <1>1, <1>2

\* An entry is made or renewed for a device that was heard.
LEMMA AddedSound ==
  ASSUME NEW c, Sound(c), NEW n, NEW d \in Devices, NEW address \in Addresses,
         NEW told \in [Devices -> Addresses \cup {NoAddress}], AsHeard(c, told)
  PROVE  LET m == address_add(c, n, d, address)
         IN  /\ Sound(m) /\ AsHeard(m, [told EXCEPT ![d] = address])
             /\ Displaces(c, n, m)
<1>1. d # Own_Device_ID
  BY BindingAssumption
<1>2. CASE Held(c, d) # {}
  <2> DEFINE i == Min(Held(c, d))
             e == c[i]
             life == IF "STATIC" \in e.Flags /\ "BIND_REQ" \notin e.Flags
                     THEN FOREVER ELSE LONG_TIME
             f == Renewed(e, address)
  <2>1. e \in Entries /\ SoundEntry(e) /\ InUse(e) /\ e.device_id = d
    BY <1>2, HeldInSlots DEF Sound
  <2>2. address_add(c, n, d, address) = [c EXCEPT ![i] = f]
    BY <1>1, <1>2 DEF address_add
  <2>3. /\ life \in 0 .. FOREVER
        /\ "STATIC" \notin e.Flags => life < FOREVER
    BY <2>1, CacheAssumption
  <2>4. f = [e EXCEPT !.address = address, !.Flags = @ \ {"BIND_REQ"}, !.TimeToLive = life]
    BY DEF Renewed
  <2> HIDE DEF i, e, life, f
  <2>5. f = [Flags |-> e.Flags \ {"BIND_REQ"}, device_id |-> d, address |-> address,
             TimeToLive |-> life]
    BY <2>1, <2>4, RenewedFields
  <2>6. f \in Entries
    BY <2>1, <2>3, <2>5 DEF Entries, Entry
  <2>7. SoundEntry(f) /\ f.device_id = d /\ f.address = address
    BY <2>1, <2>3, <2>5 DEF SoundEntry, InUse
  <2>8. LET m == [c EXCEPT ![i] = f]
        IN  /\ Sound(m) /\ AsHeard(m, [told EXCEPT ![d] = address])
            /\ NoneDisplaced(c, m)
    BY <1>2, <2>6, <2>7, UpdatedSound DEF i
  <2>9. Displaces(c, n, [c EXCEPT ![i] = f])
    BY <2>8 DEF NoneDisplaced, Displaces
  <2>. QED  BY <2>2, <2>8, <2>9
<1>3. CASE Held(c, d) = {} /\ SlotForNew(c, n) = 0
  <2>1. address_add(c, n, d, address) = c
    BY <1>1, <1>3 DEF address_add, Placed
  <2>2. Displaces(c, n, c)
    BY DEF Displaces
  <2>. QED  BY <1>3, <2>1, <2>2, UnknownAsHeard
<1>4. CASE Held(c, d) = {} /\ SlotForNew(c, n) # 0
  <2> DEFINE slot == SlotForNew(c, n)
             new == [Flags |-> {"IN_USE"}, device_id |-> d, address |-> address,
                     TimeToLive |-> SHORT_TIME]
             m == [c EXCEPT ![slot] = new]
             anew == [told EXCEPT ![d] = address]
  <2>1. address_add(c, n, d, address) = m
    BY <1>1, <1>4 DEF address_add, Placed
  <2>2. slot \in Slots
    BY <1>4, SlotForNewIsSlot
  <2>3. anew[d] = address
    OBVIOUS
  <2>4. new \in Entries /\ SoundEntry(new) /\ new.device_id = d /\ new.address = address
    BY CacheAssumption DEF Entries, Entry, BAC_ADDR, SoundEntry, InUse
  <2> HIDE DEF slot, new
  <2>5. \A j \in Slots : ~(InUse(c[j]) /\ c[j].device_id = d)
    BY <1>4 DEF Held
  <2>6. Sound(m)
    BY <2>2, <2>4, <2>5, OneChanged
  <2>7. AsHeard(c, anew)
    BY <1>4, UnknownAsHeard
  <2>8. AsHeard(m, anew)
    <3> HIDE DEF anew
    <3>. QED  BY <2>2, <2>3, <2>4, <2>7, OneChangedAsHeard DEF Sound
  <2>9. Displaces(c, n, m)
    BY <1>4, PlacedDisplaces DEF slot
  <2>. QED  BY <2>1, <2>6, <2>8, <2>9
<1>. QED  BY <1>2, <1>3, <1>4

-----------------------------------------------------------------------------
LEMMA InvInit == Init => Inv
<1> SUFFICES ASSUME Init PROVE Inv
  OBVIOUS
<1>1. Sound(cache) /\ AsHeard(cache, heard)
  BY InitSound DEF Init
<1>2. Others
  BY BindingAssumption, CacheAssumption DEF Init, Others
<1>3. sent.to = sent.known
  BY DEF Init, NothingSent
<1>. QED  BY <1>1, <1>2, <1>3 DEF Inv

\* A cache changes and nothing is heard.
LEMMA CacheStep ==
  ASSUME Inv, NEW table, cache' = table, Sound(table),
         \A told : AsHeard(cache, told) => AsHeard(table, told),
         UNCHANGED heard, Others', sent'.to = sent'.known
  PROVE  Inv'
BY DEF Inv, Sound, AsHeard, OneEach

\* A lookup finds nothing, or the address last heard.
LEMMA LookupAsHeard ==
  ASSUME NEW c, NEW told, AsHeard(c, told), NEW d
  PROVE  address_get_by_device(c, d) \in {NoAddress, told[d]}
<1>1. CASE Held(c, d) # {} /\ Bound(c[Min(Held(c, d))])
  BY <1>1, HeldInSlots DEF AsHeard, address_get_by_device
<1>2. CASE ~(Held(c, d) # {} /\ Bound(c[Min(Held(c, d))]))
  BY <1>2 DEF address_get_by_device
<1>. QED  BY <1>1, <1>2

LEMMA ClientKeepsInv == Inv /\ Client => Inv'
<1> SUFFICES ASSUME Inv, Client PROVE Inv'
  OBVIOUS
<1> USE BindingAssumption
<1>1. CASE ClientStarts
  <2>1. /\ cache' = address_bind_request(cache, top, Target)
        /\ UNCHANGED <<top, where, heard, network, sent>>
    BY <1>1 DEF ClientStarts
  <2>2. Others' /\ sent'.to = sent'.known
    BY <2>1 DEF Inv, Others
  <2>. QED  BY <2>1, <2>2, RequestSound, CacheStep DEF Inv
<1>2. CASE ClientAsks
  <2>1. /\ UNCHANGED <<cache, top, where, heard, sent>>
        /\ network' \subseteq network \cup {WhoIs(<<Target, Target>>)}
    BY <1>2 DEF ClientAsks, Send_WhoIs
  <2>2. Others'
    BY <2>1 DEF Inv, Others, WhoIs
  <2>. QED  BY <2>1, <2>2, CacheStep DEF Inv
<1>3. CASE ClientLooks
  <2>1. /\ \/ cache' = cache
           \/ cache' = address_bind_request(cache, top, Target)
        /\ UNCHANGED <<top, where, heard, network, sent>>
    BY <1>3 DEF ClientLooks, CacheBecomes
  <2>2. Others' /\ sent'.to = sent'.known
    BY <2>1 DEF Inv, Others
  <2>. QED  BY <2>1, <2>2, RequestSound, CacheStep DEF Inv
<1>4. CASE ClientSends
  <2>1. UNCHANGED <<cache, top, where, heard, network>>
    BY <1>4 DEF ClientSends
  <2>2. PICK possible \in BOOLEAN :
          sent' = IF Destination(possible) = NoAddress THEN sent
                  ELSE [to |-> Destination(possible), known |-> heard[Target]]
    BY <1>4 DEF ClientSends
  <2>3. Destination(possible) \in {NoAddress, heard[Target]}
    BY LookupAsHeard DEF Destination, Inv
  <2>4. sent'.to = sent'.known
    BY <2>2, <2>3 DEF Inv
  <2>5. Others'
    BY <2>1 DEF Inv, Others
  <2>. QED  BY <2>1, <2>4, <2>5, CacheStep DEF Inv
<1>. QED  BY <1>1, <1>2, <1>3, <1>4 DEF Client

LEMMA ApplicationKeepsInv == Inv /\ Application => Inv'
<1> SUFFICES ASSUME Inv, Application PROVE Inv'
  OBVIOUS
<1> USE BindingAssumption
<1>1. CASE AskAll
  <2>1. /\ UNCHANGED <<cache, top, where, heard, sent>>
        /\ network' \subseteq network \cup {WhoIs(Unlimited)}
    BY <1>1 DEF AskAll, Send_WhoIs
  <2>2. Others'
    BY <2>1 DEF Inv, Others, WhoIs
  <2>. QED  BY <2>1, <2>2, CacheStep DEF Inv
<1>2. CASE CommunicationControl
  <2>1. UNCHANGED <<cache, top, where, heard, network, sent>>
    BY <1>2 DEF CommunicationControl
  <2>2. Others'
    BY <2>1 DEF Inv, Others
  <2>. QED  BY <2>1, <2>2, CacheStep DEF Inv
<1>3. ASSUME NEW d \in Devices, BindRequest(d) PROVE Inv'
  <2>1. /\ cache' = address_bind_request(cache, top, d)
        /\ UNCHANGED <<top, where, heard, network, sent>>
    BY <1>3 DEF BindRequest, CacheBecomes, CacheOnly
  <2>2. Others'
    BY <2>1 DEF Inv, Others
  <2>. QED  BY <2>1, <2>2, RequestSound, CacheStep DEF Inv
<1>4. ASSUME NEW d \in Devices, RemoveDevice(d) PROVE Inv'
  <2> DEFINE result == address_remove_device(cache, top, d)
  <2>1. /\ cache' = result.cache /\ top' = result.top
        /\ UNCHANGED <<where, heard, network, sent>>
    BY <1>4 DEF RemoveDevice, CacheBecomes
  <2>2. /\ Sound(result.cache)
        /\ \A told : AsHeard(cache, told) => AsHeard(result.cache, told)
        /\ result.top \in 0 .. MAX_ADDRESS_CACHE
    BY RemoveSound DEF Inv, Others
  <2> HIDE DEF result
  <2>3. Others'
    BY <2>1, <2>2 DEF Inv, Others
  <2>. QED  BY <2>1, <2>2, <2>3, CacheStep DEF Inv
<1>5. ASSUME NEW d \in Devices, NEW static \in BOOLEAN, SetTTL(d, 0, static) PROVE Inv'
  <2>1. /\ cache' = address_set_device_TTL(cache, d, 0, static)
        /\ UNCHANGED <<top, where, heard, network, sent>>
    BY <1>5 DEF SetTTL, CacheBecomes, CacheOnly
  <2>2. Others'
    BY <2>1 DEF Inv, Others
  <2>. QED  BY <2>1, <2>2, SetTTLSound, CacheStep DEF Inv
<1>6. ASSUME NEW n \in 1 .. MAX_ADDRESS_CACHE, Protect(n) PROVE Inv'
  <2>1. top' = n /\ UNCHANGED <<cache, where, heard, network, sent>>
    BY <1>6 DEF Protect
  <2>2. Others'
    BY <2>1 DEF Inv, Others
  <2>. QED  BY <2>1, <2>2, CacheStep DEF Inv
<1>7. ASSUME NEW seconds \in {1, LONG_TIME + 1}, CacheTimer(seconds) PROVE Inv'
  <2>1. /\ cache' = address_cache_timer(cache, seconds)
        /\ UNCHANGED <<top, where, heard, network, sent>>
    BY <1>7 DEF CacheTimer, CacheBecomes, CacheOnly
  <2>2. Others' /\ seconds \in Nat
    BY <2>1, CacheAssumption DEF Inv, Others
  <2>. QED  BY <2>1, <2>2, TimerSound, CacheStep DEF Inv
<1>8. ASSUME NEW kept \in BOOLEAN, Restart(kept) PROVE Inv'
  <2>1. /\ cache' = address_init_partial(cache) \/ cache' = address_init
        /\ top' \in {0, top}
        /\ sent' = NothingSent
        /\ UNCHANGED <<where, heard, network>>
    BY <1>8 DEF Restart
  <2>2. Others' /\ sent'.to = sent'.known
    BY <2>1, CacheAssumption DEF Inv, Others, NothingSent
  <2>3. Sound(cache')
    BY <2>1, ClearedSound, InitSound DEF Inv, address_init_partial
  <2>4. AsHeard(cache', heard)
    BY <2>1, ClearedSound, InitSound DEF Inv, address_init_partial
  <2>. QED  BY <2>1, <2>2, <2>3, <2>4 DEF Inv, Sound, AsHeard, OneEach
<1>. QED  BY <1>1, <1>2, <1>3, <1>4, <1>5, <1>6, <1>7, <1>8 DEF Application

LEMMA ArrivalKeepsInv ==
  ASSUME Inv, NEW m \in network,
         WhoIsArrives(m) \/ IAmArrives(m) \/ IAmIsAdded(m) \/ IAmIgnored(m) \/ Lose(m)
  PROVE  Inv'
<1>1. CASE WhoIsArrives(m)
  <2>1. UNCHANGED <<cache, top, where, heard, sent>>
    BY <1>1 DEF WhoIsArrives
  <2>2. PICK reached \in SUBSET Devices :
          network' = (network \ {m}) \cup
                     {IAm(d, where[d]) : d \in {e \in reached : Answers(e, m.limits)}}
    BY <1>1 DEF WhoIsArrives
  <2>3. \A d \in reached : /\ IAm(d, where[d]).device \in Devices
                           /\ IAm(d, where[d]).address \in Addresses
    BY DEF Inv, Others, IAm
  <2>4. \A k \in network' : k \in network \/ \E d \in reached : k = IAm(d, where[d])
    BY <2>2
  <2>5. Others'
    BY <2>1, <2>3, <2>4 DEF Inv, Others
  <2>. QED  BY <2>1, <2>5, CacheStep DEF Inv
<1>2. CASE IAmArrives(m) \/ IAmIsAdded(m)
  <2>1. /\ heard' = [heard EXCEPT ![m.device] = m.address]
        /\ network' = network \ {m}
        /\ UNCHANGED <<top, where, sent>>
        /\ m.device \in Devices /\ m.address \in Addresses
    BY <1>2 DEF IAmArrives, IAmIsAdded, Heard, Inv, Others
  <2>2. heard \in [Devices -> Addresses \cup {NoAddress}]
    BY DEF Inv, Others
  <2>3. Others'
    BY <2>1 DEF Inv, Others
  <2>4. CASE cache' = handler_i_am_bind(m)
    <3> DEFINE n == address_add_binding(cache, m.device, m.address)
               anew == [heard EXCEPT ![m.device] = m.address]
    <3>1. Sound(n) /\ AsHeard(n, anew)
      BY <2>1, <2>2, BindingAddedSound DEF Inv
    <3>2. cache' = n /\ heard' = anew
      BY <2>1, <2>4 DEF handler_i_am_bind
    <3> HIDE DEF n, anew
    <3>. QED  BY <2>1, <2>3, <3>1, <3>2 DEF Inv, Sound, AsHeard, OneEach
  <2>5. CASE cache' = handler_i_am_add(m)
    <3> DEFINE n == address_add(cache, top, m.device, m.address)
               anew == [heard EXCEPT ![m.device] = m.address]
    <3>1. Sound(n) /\ AsHeard(n, anew)
      BY <2>1, <2>2, AddedSound DEF Inv
    <3>2. cache' = n /\ heard' = anew
      BY <2>1, <2>5 DEF handler_i_am_add
    <3> HIDE DEF n, anew
    <3>. QED  BY <2>1, <2>3, <3>1, <3>2 DEF Inv, Sound, AsHeard, OneEach
  <2>6. cache' = handler_i_am_bind(m) \/ cache' = handler_i_am_add(m)
    BY <1>2 DEF IAmArrives, IAmIsAdded, CacheBecomes
  <2>. QED  BY <2>4, <2>5, <2>6
<1>3. CASE Gone(m)
  <2>1. network' \subseteq network /\ UNCHANGED <<cache, top, where, heard, sent>>
    BY <1>3 DEF Gone
  <2>2. Others'
    BY <2>1 DEF Inv, Others
  <2>. QED  BY <2>1, <2>2, CacheStep DEF Inv
<1>. QED  BY <1>1, <1>2, <1>3 DEF IAmIgnored, Lose

LEMMA MoveKeepsInv ==
  ASSUME Inv, NEW d \in Devices, NEW address \in Addresses, Move(d, address)
  PROVE  Inv'
<1>1. /\ where' = [where EXCEPT ![d] = address]
      /\ network' \subseteq network \cup {IAm(d, address)}
      /\ UNCHANGED <<cache, top, heard, sent>>
  BY DEF Move
<1>2. Others'
  BY <1>1 DEF Inv, Others, IAm
<1>. QED  BY <1>1, <1>2, CacheStep DEF Inv

LEMMA InvStep == Inv /\ [Next]_vars => Inv'
<1> SUFFICES ASSUME Inv, [Next]_vars PROVE Inv'
  OBVIOUS
<1>1. CASE UNCHANGED vars
  BY <1>1 DEF vars, Inv, Others, Sound, AsHeard, OneEach
<1>2. CASE Next
  BY <1>2, ClientKeepsInv, ApplicationKeepsInv, ArrivalKeepsInv, MoveKeepsInv DEF Next
<1>. QED  BY <1>1, <1>2

LEMMA Invariance == Spec => []Inv
BY InvInit, InvStep, PTL DEF Spec

\* The cache never says of a device anything but where its last I-Am came from,
\* whatever is delayed, reordered, lost, moved, displaced or run out; the client
\* writes nowhere else (address.c, h_iam.c, s_wp.c).
THEOREM LookupsAreAnnounced == Spec => []BoundAsAnnounced
<1>1. Inv => BoundAsAnnounced
  BY LookupAsHeard DEF Inv, BoundAsAnnounced
<1>. QED  BY <1>1, Invariance, PTL

-----------------------------------------------------------------------------
LEMMA StayedDisplaces ==
  ASSUME NEW c, NEW m, NEW n, NoneDisplaced(c, n) \/ n = c
  PROVE  Displaces(c, m, n)
BY DEF NoneDisplaced, Displaces

LEMMA StepDisplaces ==
  ASSUME Inv, [Next]_vars
  PROVE  Displaces(cache, top, cache')
<1> USE BindingAssumption DEF Inv
<1>1. CASE UNCHANGED cache
  BY <1>1, StayedDisplaces
<1>2. CASE Client
  <2>1. UNCHANGED cache \/ cache' = address_bind_request(cache, top, Target)
    BY <1>2 DEF Client, ClientStarts, ClientAsks, ClientLooks, ClientSends, CacheBecomes
  <2>. QED  BY <1>1, <2>1, RequestSound
<1>3. CASE Application
  <2>1. ASSUME NEW d \in Devices, BindRequest(d) PROVE Displaces(cache, top, cache')
    BY <2>1, RequestSound DEF BindRequest, CacheBecomes
  <2>2. ASSUME NEW d \in Devices, RemoveDevice(d) PROVE NoneDisplaced(cache, cache')
    <3>1. cache' = address_remove_device(cache, top, d).cache
      BY <2>2 DEF RemoveDevice, CacheBecomes
    <3>. QED  BY <3>1, RemoveSound DEF Others
  <2>3. ASSUME NEW d \in Devices, NEW static \in BOOLEAN, SetTTL(d, 0, static)
        PROVE  NoneDisplaced(cache, cache')
    BY <2>3, SetTTLSound DEF SetTTL, CacheBecomes
  <2>4. ASSUME NEW seconds \in {1, LONG_TIME + 1}, CacheTimer(seconds)
        PROVE  NoneDisplaced(cache, cache')
    BY <2>4, TimerSound, CacheAssumption DEF CacheTimer, CacheBecomes
  <2>5. ASSUME NEW kept \in BOOLEAN, Restart(kept) PROVE NoneDisplaced(cache, cache')
    BY <2>5, ClearedSound, InitSound DEF Restart, address_init_partial
  <2>6. AskAll \/ CommunicationControl \/ (\E n \in 1 .. MAX_ADDRESS_CACHE : Protect(n))
        => UNCHANGED cache
    BY DEF AskAll, CommunicationControl, Protect
  <2>. QED  BY <1>1, <1>3, <2>1, <2>2, <2>3, <2>4, <2>5, <2>6, StayedDisplaces DEF Application
<1>4. ASSUME NEW m \in network,
             WhoIsArrives(m) \/ IAmArrives(m) \/ IAmIsAdded(m) \/ IAmIgnored(m) \/ Lose(m)
      PROVE  Displaces(cache, top, cache')
  <2>1. CASE WhoIsArrives(m) \/ IAmIgnored(m) \/ Lose(m)
    BY <1>1, <2>1 DEF WhoIsArrives, IAmIgnored, Lose, Gone
  <2>2. CASE IAmArrives(m) \/ IAmIsAdded(m)
    <3>1. /\ m.device \in Devices /\ m.address \in Addresses
          /\ heard \in [Devices -> Addresses \cup {NoAddress}]
      BY <2>2 DEF IAmArrives, IAmIsAdded, Heard, Others
    <3>2. NoneDisplaced(cache, handler_i_am_bind(m))
      BY <3>1, BindingAddedSound DEF handler_i_am_bind
    <3>3. Displaces(cache, top, handler_i_am_add(m))
      BY <3>1, AddedSound DEF handler_i_am_add
    <3>. QED  BY <2>2, <3>2, <3>3, StayedDisplaces DEF IAmArrives, IAmIsAdded, CacheBecomes
  <2>. QED  BY <1>4, <2>1, <2>2
<1>5. ASSUME NEW d \in Devices, NEW address \in Addresses, Move(d, address)
      PROVE  UNCHANGED cache
  BY <1>5 DEF Move
<1>6. CASE UNCHANGED vars
  BY <1>1, <1>6 DEF vars
<1>7. CASE Next
  BY <1>1, <1>2, <1>3, <1>4, <1>5, <1>7 DEF Next
<1>. QED  BY <1>6, <1>7

\* An entry in use is given up for another device only when no slot is free, and
\* then it is not static and nearest expiry of those that may go, for a cache of
\* any size and any lifetimes (address_remove_oldest and its callers in address.c).
THEOREM NearestExpiryGoes == Spec => EvictsNearestExpiry
<1> DEFINE Right ==
      \A i \in Slots :
        LET displaced  == InUse(cache[i]) /\ InUse(cache'[i])
                          /\ cache[i].device_id # cache'[i].device_id
            expendable == {j \in Slots : /\ j > top /\ Bound(cache[j])
                                         /\ "STATIC" \notin cache[j].Flags}
        IN  displaced =>
              /\ Free(cache) = {}
              /\ "STATIC" \notin cache[i].Flags
              /\ IF Bound(cache[i])
                 THEN i \in expendable
                      /\ \A j \in expendable : cache[i].TimeToLive <= cache[j].TimeToLive
                 ELSE expendable = {}
<1>1. Inv /\ [Next]_vars => [Right]_vars
  BY StepDisplaces DEF Displaces
<1>2. EvictsNearestExpiry <=> [][Right]_vars
  BY DEF EvictsNearestExpiry
<1> HIDE DEF Right
<1>3. Spec => []Inv /\ [][Next]_vars
  BY Invariance, PTL DEF Spec
<1>. QED  BY <1>1, <1>2, <1>3, PTL

-----------------------------------------------------------------------------
(***************************************************************************)
(* What the lists show.  The loops over the table build a sequence slot by  *)
(* slot; what it holds is shown for each prefix of the table in turn, with  *)
(* the least slot that could be the exception (StepByStep).                 *)
(***************************************************************************)
Grow(s, S, n) == IF n \in S THEN Append(s, n) ELSE s

\* The slots of a set are put together one after the other.
LEMMA InOrderTurns ==
  ASSUME NEW S
  PROVE  \E q : /\ q[0] = << >>
                /\ \A n \in Slots : q[n] = Grow(q[n - 1], S, n)
                /\ InOrder(S) = q[MAX_ADDRESS_CACHE]
<1>. DEFINE L == MAX_ADDRESS_CACHE
            IsUpTo(g, n) == g = [m \in 0 .. n |-> IF m = 0 THEN << >> ELSE Grow(g[m - 1], S, m)]
            T == {n \in 0 .. L : \E g : IsUpTo(g, n)}
<1>0. L \in Nat
  BY CacheAssumption
<1>1. 0 \in T
  <2>1. IsUpTo([m \in 0 .. 0 |-> << >>], 0)
    OBVIOUS
  <2>. HIDE DEF IsUpTo
  <2>. QED  BY <1>0, <2>1
<1>2. ASSUME NEW n \in T, n < L
      PROVE  n + 1 \in T
  <2>1. PICK g : IsUpTo(g, n)
    BY <1>2
  <2>2. PICK h : h = [m \in 0 .. n + 1 |->
                        IF m # n + 1 THEN g[m] ELSE Grow(g[n], S, n + 1)]
    OBVIOUS
  <2>3. \A m \in 0 .. n + 1 : h[m] = IF m = 0 THEN << >> ELSE Grow(h[m - 1], S, m)
    BY <2>1, <2>2
  <2>4. h = [m \in 0 .. n + 1 |-> h[m]]
    BY <2>2
  <2>5. IsUpTo(h, n + 1)
    BY <2>3, <2>4
  <2>. HIDE DEF IsUpTo
  <2>. QED  BY <1>0, <1>2, <2>5
<1>3. T = 0 .. L
  <2>1. T \in SUBSET (0 .. L)
    OBVIOUS
  <2>. HIDE DEF T
  <2>. QED  BY <1>0, <1>1, <1>2, <2>1, StepByStep
<1>4. \E g : IsUpTo(g, L)
  <2>1. L \in T
    <3>. HIDE DEF T
    <3>. QED  BY <1>0, <1>3
  <2>. HIDE DEF IsUpTo
  <2>. QED  BY <2>1
<1>5. PICK q : q = CHOOSE g : IsUpTo(g, L)
  OBVIOUS
<1>6. InOrder(S) = q[L]
  BY <1>5 DEF InOrder, Grow
<1>7. IsUpTo(q, L)
  <2>. HIDE DEF IsUpTo
  <2>. QED  BY <1>4, <1>5
<1>8. q[0] = << >> /\ \A n \in 1 .. L : q[n] = Grow(q[n - 1], S, n)
  BY <1>0, <1>7
<1>. QED  BY <1>6, <1>8 DEF Slots

\* A sequence of slots in their order, of those of S up to n.
OrderedUpTo(s, S, n) ==
  /\ s \in Seq(Nat)
  /\ \A k \in 1 .. Len(s) : s[k] \in S /\ 1 <= s[k] /\ s[k] <= n
  /\ \A m \in S : m \in Nat /\ 1 <= m /\ m <= n => \E k \in 1 .. Len(s) : s[k] = m
  /\ \A j, k \in 1 .. Len(s) : j < k => s[j] < s[k]

LEMMA GrowOrdered ==
  ASSUME NEW S, NEW n \in Nat, NEW s, OrderedUpTo(s, S, n)
  PROVE  OrderedUpTo(Grow(s, S, n + 1), S, n + 1)
<1>1. \A m : 1 <= m /\ m <= n + 1 /\ m \in Nat => m <= n \/ m = n + 1
  OBVIOUS
<1>2. CASE n + 1 \notin S
  <2>1. Grow(s, S, n + 1) = s
    BY <1>2 DEF Grow
  <2>. QED  BY <1>1, <1>2, <2>1 DEF OrderedUpTo
<1>3. CASE n + 1 \in S
  <2>1. PICK t : t = Append(s, n + 1)
    OBVIOUS
  <2>2. /\ t \in Seq(Nat) /\ Len(t) = Len(s) + 1 /\ Len(s) \in Nat
        /\ t[Len(s) + 1] = n + 1
        /\ \A k \in 1 .. Len(s) : t[k] = s[k]
    BY <2>1 DEF OrderedUpTo
  <2>3. \A k \in 1 .. Len(t) : k \in 1 .. Len(s) \/ k = Len(s) + 1
    BY <2>2
  <2>4. \A k \in 1 .. Len(s) : s[k] \in Nat
    BY DEF OrderedUpTo
  <2>8. \A k \in 1 .. Len(s) : s[k] \in S /\ 1 <= s[k] /\ s[k] <= n
    BY DEF OrderedUpTo
  <2>5. ASSUME NEW k \in 1 .. Len(t) PROVE t[k] \in S /\ 1 <= t[k] /\ t[k] <= n + 1
    <3>1. CASE k \in 1 .. Len(s)
      <4>1. t[k] = s[k] /\ s[k] \in Nat /\ s[k] \in S /\ 1 <= s[k] /\ s[k] <= n
        BY <2>2, <2>4, <2>8, <3>1
      <4>. QED  BY <4>1
    <3>2. CASE k = Len(s) + 1
      BY <1>3, <2>2, <3>2
    <3>. QED  BY <2>3, <3>1, <3>2
  <2>6. ASSUME NEW m \in S, m \in Nat, 1 <= m, m <= n + 1 PROVE \E k \in 1 .. Len(t) : t[k] = m
    <3>1. CASE m = n + 1
      BY <2>2, <3>1
    <3>2. CASE m <= n
      <4>1. PICK k \in 1 .. Len(s) : s[k] = m
        BY <2>6, <3>2 DEF OrderedUpTo
      <4>. QED  BY <2>2, <4>1
    <3>. QED  BY <1>1, <2>6, <3>1, <3>2
  <2>7. \A j, k \in 1 .. Len(t) : j < k => t[j] < t[k]
    <3>. SUFFICES ASSUME NEW j \in 1 .. Len(t), NEW k \in 1 .. Len(t), j < k PROVE t[j] < t[k]
      OBVIOUS
    <3>1. j \in 1 .. Len(s)
      BY <2>2
    <3>2. CASE k \in 1 .. Len(s)
      BY <2>2, <3>1, <3>2 DEF OrderedUpTo
    <3>3. CASE k = Len(s) + 1
      <4>1. t[j] = s[j] /\ s[j] \in Nat /\ s[j] <= n /\ t[k] = n + 1
        BY <2>2, <2>4, <2>8, <3>1, <3>3
      <4>. QED  BY <4>1
    <3>. QED  BY <2>3, <3>2, <3>3
  <2>. QED  BY <1>3, <2>1, <2>2, <2>5, <2>6, <2>7 DEF Grow, OrderedUpTo
<1>. QED  BY <1>2, <1>3

\* The slots put together are those of the set, each once and in order.
LEMMA InOrderParts ==
  ASSUME NEW S \in SUBSET Slots
  PROVE  \E q : /\ q[0] = << >>
                /\ \A n \in Slots : q[n] = Grow(q[n - 1], S, n)
                /\ InOrder(S) = q[MAX_ADDRESS_CACHE]
                /\ \A n \in 0 .. MAX_ADDRESS_CACHE : OrderedUpTo(q[n], S, n)
<1>1. PICK q : /\ q[0] = << >>
               /\ \A n \in Slots : q[n] = Grow(q[n - 1], S, n)
               /\ InOrder(S) = q[MAX_ADDRESS_CACHE]
  BY InOrderTurns
<1>. DEFINE T == {n \in 0 .. MAX_ADDRESS_CACHE : OrderedUpTo(q[n], S, n)}
<1>2. MAX_ADDRESS_CACHE \in Nat
  BY CacheAssumption
<1>3. 0 \in T
  <2>1. OrderedUpTo(<< >>, S, 0)
    <3>1. << >> \in Seq(Nat) /\ Len(<< >>) = 0 /\ 1 .. 0 = {}
      OBVIOUS
    <3>2. \A m \in Nat : ~(1 <= m /\ m <= 0)
      OBVIOUS
    <3>. QED  BY <3>1, <3>2 DEF OrderedUpTo
  <2>. QED  BY <1>1, <1>2, <2>1
<1>4. ASSUME NEW n \in T, n < MAX_ADDRESS_CACHE PROVE n + 1 \in T
  <2>1. q[n + 1] = Grow(q[n], S, n + 1) /\ n \in Nat
    <3>1. n + 1 \in Slots /\ (n + 1) - 1 = n
      BY <1>2, <1>4 DEF Slots
    <3>. QED  BY <1>1, <3>1
  <2>2. OrderedUpTo(q[n + 1], S, n + 1)
    BY <2>1, GrowOrdered
  <2>. QED  BY <1>2, <1>4, <2>2
<1>5. \A n \in 0 .. MAX_ADDRESS_CACHE : n \in T
  <2>1. T \in SUBSET (0 .. MAX_ADDRESS_CACHE)
    OBVIOUS
  <2>. HIDE DEF T
  <2>2. T = 0 .. MAX_ADDRESS_CACHE
    BY <1>2, <1>3, <1>4, <2>1, StepByStep
  <2>. QED  BY <2>2
<1>. QED  BY <1>1, <1>5

LEMMA InOrderProperty ==
  ASSUME NEW S \in SUBSET Slots
  PROVE  OrderedUpTo(InOrder(S), S, MAX_ADDRESS_CACHE)
BY InOrderParts, CacheAssumption

\* Where the elements of two sequences are in the one put together of them.
LEMMA ConcatPlaces ==
  ASSUME NEW a \in Seq(Nat), NEW b \in Seq(Nat)
  PROVE  /\ Len(a \o b) = Len(a) + Len(b)
         /\ \A i \in 1 .. Len(a) : (a \o b)[i] = a[i]
         /\ \A j \in 1 .. Len(b) : (a \o b)[Len(a) + j] = b[j]
<1>1. /\ Len(a) \in Nat /\ Len(b) \in Nat
      /\ Len(a \o b) = Len(a) + Len(b)
      /\ \A i \in 1 .. Len(a) + Len(b) : (a \o b)[i] = IF i <= Len(a) THEN a[i] ELSE b[i - Len(a)]
  BY ConcatProperties
<1>2. \A i \in 1 .. Len(a) : (a \o b)[i] = a[i]
  BY <1>1
<1>3. ASSUME NEW j \in 1 .. Len(b) PROVE (a \o b)[Len(a) + j] = b[j]
  <2>1. PICK i : i = Len(a) + j
    OBVIOUS
  <2>2. i \in 1 .. Len(a) + Len(b) /\ ~(i <= Len(a)) /\ i - Len(a) = j
    BY <1>1, <2>1
  <2>. QED  BY <1>1, <2>1, <2>2
<1>. QED  BY <1>1, <1>2, <1>3

\* What is appended to the second of two sequences is appended to both.
LEMMA AppendInside ==
  ASSUME NEW a \in Seq(Nat), NEW b \in Seq(Nat), NEW x \in Nat
  PROVE  Append(a \o b, x) = a \o Append(b, x)
<1>1. PICK z : z = <<x>>
  OBVIOUS
<1>2. z \in Seq(Nat) /\ a \o b \in Seq(Nat)
  BY <1>1, ConcatProperties
<1>3. Append(a \o b, x) = (a \o b) \o z /\ Append(b, x) = b \o z
  BY <1>1, <1>2, AppendIsConcat
<1>4. (a \o b) \o z = a \o (b \o z)
  BY SMTT(40), <1>2, ConcatAssociative
<1>. QED  BY <1>3, <1>4

\* What a sequence goes on with after its k-th element.
IsRest(t, s, k) ==
  /\ t \in Seq(Nat)
  /\ Len(t) = Len(s) - k
  /\ \A j \in 1 .. Len(t) : t[j] = s[k + j]

\* An increasing sequence is cut behind one of its elements.
LEMMA CutBehind ==
  ASSUME NEW a \in Seq(Nat), NEW t \in Seq(Nat), Len(a) >= 1,
         NEW s \in Seq(Nat), s = a \o t, NEW k \in 1 .. Len(s), s[k] = a[Len(a)],
         \A i, j \in 1 .. Len(s) : i < j => s[i] < s[j]
  PROVE  IsRest(t, s, k)
<1>1. /\ Len(s) = Len(a) + Len(t) /\ Len(a) \in Nat /\ Len(t) \in Nat
      /\ \A i \in 1 .. Len(a) : s[i] = a[i]
      /\ \A j \in 1 .. Len(t) : s[Len(a) + j] = t[j]
  <2>1. Len(a) \in Nat /\ Len(t) \in Nat
    OBVIOUS
  <2>. QED  BY <2>1, ConcatPlaces, Zenon
<1>2. PICK l \in 1 .. Len(s) : l = Len(a)
  BY <1>1
<1>3. s[l] = s[k] /\ s[k] \in Nat
  BY <1>1, <1>2
<1>4. ~(l < k) /\ ~(k < l)
  BY SMTT(40), <1>3
<1>5. Len(a) = k
  BY <1>2, <1>4
<1>. QED  BY SMTT(40), <1>1, <1>5 DEF IsRest

\* What comes after one of the slots are the slots after it.
LEMMA InOrderRest ==
  ASSUME NEW S \in SUBSET Slots, NEW k \in 1 .. Len(InOrder(S))
  PROVE  IsRest(InOrder({i \in S : i > InOrder(S)[k]}), InOrder(S), k)
<1>30. PICK s : s = InOrder(S)
  OBVIOUS
<1>32. PICK R : R = {i \in S : i > s[k]}
  OBVIOUS
<1>33. PICK t : t = InOrder(R)
  OBVIOUS
<1>1. OrderedUpTo(s, S, MAX_ADDRESS_CACHE)
  BY <1>30, InOrderProperty
<1>2. PICK m : m = s[k]
  OBVIOUS
<1>20. R = {i \in S : i > m}
  BY <1>2, <1>32
<1>3. m \in S /\ m \in Slots /\ m \in Nat /\ Len(s) \in Nat /\ k \in 1 .. Len(s)
  BY <1>1, <1>2, <1>30, SlotsAreNat DEF OrderedUpTo
<1>4. PICK q : /\ \A n \in Slots : q[n] = Grow(q[n - 1], S, n)
               /\ s = q[MAX_ADDRESS_CACHE]
               /\ \A n \in 0 .. MAX_ADDRESS_CACHE : OrderedUpTo(q[n], S, n)
  BY <1>30, InOrderParts
<1>5. PICK r : /\ \A n \in Slots : r[n] = Grow(r[n - 1], R, n)
               /\ t = r[MAX_ADDRESS_CACHE]
               /\ \A n \in 0 .. MAX_ADDRESS_CACHE : OrderedUpTo(r[n], R, n)
  BY <1>20, <1>33, R \in SUBSET Slots, InOrderParts
<1>6. MAX_ADDRESS_CACHE \in Nat /\ m - 1 \in Nat /\ m - 1 \in 0 .. MAX_ADDRESS_CACHE
      /\ m \in 1 .. MAX_ADDRESS_CACHE
  BY <1>3, CacheAssumption DEF Slots
<1>7. \A n \in 0 .. MAX_ADDRESS_CACHE : q[n] \in Seq(Nat) /\ r[n] \in Seq(Nat)
  BY <1>4, <1>5 DEF OrderedUpTo
<1>8. PICK before : before = Append(q[m - 1], m)
  OBVIOUS
<1>9. /\ before \in Seq(Nat) /\ Len(before) \in 1 .. Len(before) /\ Len(before) \in Nat
      /\ before[Len(before)] = m
  BY <1>3, <1>6, <1>7, <1>8
<1>10. r[m] = << >> /\ q[m] = before
  <2>1. Len(r[m]) = 0
    <3>. SUFFICES ASSUME Len(r[m]) # 0 PROVE FALSE
      OBVIOUS
    <3>1. 1 \in 1 .. Len(r[m])
      BY <1>6, <1>7
    <3>2. PICK x : x = r[m][1]
      OBVIOUS
    <3>3. x \in R /\ x <= m
      BY <1>5, <1>6, <3>1, <3>2 DEF OrderedUpTo
    <3>4. x \in Nat /\ x > m
      BY <1>20, <3>3, SlotsAreNat
    <3>. QED  BY <1>3, <3>3, <3>4
  <2>2. r[m] = << >>
    BY <1>6, <1>7, <2>1
  <2>. QED  BY <1>3, <1>4, <1>8, <2>2 DEF Grow
<1>. DEFINE T == {n \in 0 .. MAX_ADDRESS_CACHE - m : q[m + n] = before \o r[m + n]}
<1>11. MAX_ADDRESS_CACHE - m \in Nat /\ 0 \in T
  BY SMTT(40), <1>3, <1>6, <1>9, <1>10
<1>12. ASSUME NEW n \in T, n < MAX_ADDRESS_CACHE - m PROVE n + 1 \in T
  <2>1. PICK x : x = m + (n + 1)
    OBVIOUS
  <2>2. x \in Slots /\ x - 1 = m + n /\ x > m /\ x - 1 \in 0 .. MAX_ADDRESS_CACHE /\ x \in Nat
    BY <1>3, <1>6, <1>12, <2>1 DEF Slots
  <2>3. q[x - 1] = before \o r[x - 1]
    BY <1>12, <2>2
  <2>4. q[x] = Grow(q[x - 1], S, x) /\ r[x] = Grow(r[x - 1], R, x)
    BY <1>4, <1>5, <2>2
  <2>5. x \in S <=> x \in R
    BY <1>20, <2>2
  <2>6. PICK y : y = r[x - 1] /\ y \in Seq(Nat)
    BY <1>7, <2>2
  <2>7. Append(before \o y, x) = before \o Append(y, x)
    BY <1>9, <2>2, <2>6, AppendInside
  <2>8. q[x] = before \o r[x]
    BY <2>3, <2>4, <2>5, <2>6, <2>7 DEF Grow
  <2>. QED  BY <1>11, <1>12, <2>1, <2>8
<1>13. s = before \o t
  <2>1. T \in SUBSET (0 .. MAX_ADDRESS_CACHE - m)
    OBVIOUS
  <2>2. T = 0 .. MAX_ADDRESS_CACHE - m
    <3>. HIDE DEF T
    <3>. QED  BY <1>11, <1>12, <2>1, StepByStep
  <2>3. MAX_ADDRESS_CACHE - m \in T
    <3>. HIDE DEF T
    <3>. QED  BY <1>11, <2>2
  <2>4. m + (MAX_ADDRESS_CACHE - m) = MAX_ADDRESS_CACHE
    BY <1>6
  <2>. QED  BY <1>4, <1>5, <2>3, <2>4
<1>14. t \in Seq(Nat)
  BY <1>5, <1>6, <1>7
<1>15. \A i, j \in 1 .. Len(s) : i < j => s[i] < s[j]
  BY <1>1 DEF OrderedUpTo
<1>16. s \in Seq(Nat) /\ s[k] = before[Len(before)] /\ Len(before) >= 1 /\ k \in 1 .. Len(s)
  BY <1>1, <1>2, <1>3, <1>9 DEF OrderedUpTo
<1>17. IsRest(t, s, k)
  BY <1>9, <1>13, <1>14, <1>15, <1>16, CutBehind
<1>. QED  BY <1>17, <1>30, <1>32, <1>33, Zenon

-----------------------------------------------------------------------------
BoundSlots(c) == {i \in Slots : Bound(c[i])}

\* Bound slots are of other devices, each of its own, and hold an address.
Located(c) ==
  \A i \in Slots : Bound(c[i]) => c[i].device_id \in Devices /\ c[i].address \in Addresses

LEMMA LookupBound ==
  ASSUME NEW c, Sound(c), NEW i \in Slots, Bound(c[i])
  PROVE  address_get_by_device(c, c[i].device_id) = c[i].address
<1>1. Held(c, c[i].device_id) = {i}
  BY DEF Sound, OneEach, Held, Bound
<1>2. Min({i}) = i
  BY MinOfSlots
<1>. QED  BY <1>1, <1>2 DEF address_get_by_device

\* The devices a lookup finds are those of the bound slots.
LEMMA BoundDevices ==
  ASSUME NEW c, Sound(c), Located(c), NEW d
  PROVE  d \in Devices /\ address_get_by_device(c, d) # NoAddress
           <=> \E i \in BoundSlots(c) : c[i].device_id = d
<1>1. ASSUME d \in Devices, address_get_by_device(c, d) # NoAddress
      PROVE  \E i \in BoundSlots(c) : c[i].device_id = d
  BY <1>1, HeldInSlots DEF address_get_by_device, BoundSlots
<1>2. ASSUME NEW i \in BoundSlots(c), c[i].device_id = d
      PROVE  d \in Devices /\ address_get_by_device(c, d) # NoAddress
  BY <1>2, LookupBound, BindingAssumption DEF BoundSlots, Located
<1>. QED  BY <1>1, <1>2

\* The list holds each of them once.
LEMMA ListHoldsBound ==
  ASSUME NEW c, Sound(c), Located(c)
  PROVE  LET bound == {d \in Devices : address_get_by_device(c, d) # NoAddress}
             list  == address_list_encode(c)
         IN  /\ ToSet(list) = {<<d, address_get_by_device(c, d)>> : d \in bound}
             /\ Len(list) = Cardinality(bound)
             /\ Len(list) = Len(Bindings(c))
<1>. DEFINE bound == {d \in Devices : address_get_by_device(c, d) # NoAddress}
            list  == address_list_encode(c)
<1>1. PICK b : b = Bindings(c)
  OBVIOUS
<1>2. OrderedUpTo(b, BoundSlots(c), MAX_ADDRESS_CACHE)
  BY <1>1, InOrderProperty DEF Bindings, BoundSlots
<1>3. /\ Len(b) \in Nat
      /\ \A k \in 1 .. Len(b) : b[k] \in BoundSlots(c)
      /\ \A i \in BoundSlots(c) : \E k \in 1 .. Len(b) : b[k] = i
      /\ \A j, k \in 1 .. Len(b) : b[j] = b[k] => j = k
  <2>1. Len(b) \in Nat /\ \A k \in 1 .. Len(b) : b[k] \in BoundSlots(c) /\ b[k] \in Nat
    BY <1>2, SlotsAreNat DEF OrderedUpTo, BoundSlots
  <2>2. \A i \in BoundSlots(c) : i \in Nat /\ 1 <= i /\ i <= MAX_ADDRESS_CACHE
    BY CacheAssumption DEF BoundSlots, Slots
  <2>3. \A i \in BoundSlots(c) : \E k \in 1 .. Len(b) : b[k] = i
    BY <1>2, <2>2 DEF OrderedUpTo
  <2>4. \A j, k \in 1 .. Len(b) : b[j] = b[k] => ~(j < k) /\ ~(k < j)
    BY <1>2, <2>1 DEF OrderedUpTo
  <2>5. \A j, k \in 1 .. Len(b) : ~(j < k) /\ ~(k < j) => j = k
    BY <2>1
  <2>. QED  BY <2>1, <2>3, <2>4, <2>5
<1>4. list = [k \in 1 .. Len(b) |-> <<c[b[k]].device_id, c[b[k]].address>>]
  BY <1>1 DEF address_list_encode, address_count, Binding
<1>5. Len(list) = Len(b) /\ DOMAIN list = 1 .. Len(b)
      /\ \A k \in 1 .. Len(b) : list[k] = <<c[b[k]].device_id, c[b[k]].address>>
  <2>. HIDE DEF list
  <2>. QED  BY <1>3, <1>4
<1>6. \A i \in BoundSlots(c) : /\ c[i].device_id \in bound
                               /\ address_get_by_device(c, c[i].device_id) = c[i].address
  BY BoundDevices, LookupBound DEF BoundSlots
<1>7. \A d \in bound : \E k \in 1 .. Len(b) : c[b[k]].device_id = d
  BY <1>3, BoundDevices
<1>. DEFINE pair(d) == <<d, address_get_by_device(c, d)>>
<1>8. \A k \in 1 .. Len(b) : list[k] = pair(c[b[k]].device_id)
  BY <1>3, <1>5, <1>6
<1>9. ToSet(list) = {pair(d) : d \in bound}
  <2>. HIDE DEF list, pair, bound
  <2>1. ToSet(list) = {list[k] : k \in 1 .. Len(b)}
    BY <1>5 DEF ToSet
  <2>. QED  BY <1>3, <1>6, <1>7, <1>8, <2>1
<1>10. Len(b) = Cardinality(bound)
  <2>. DEFINE f == [k \in 1 .. Len(b) |-> c[b[k]].device_id]
  <2>1. f \in [1 .. Len(b) -> bound]
    BY <1>3, <1>6
  <2>2. \A j, k \in 1 .. Len(b) : f[j] = f[k] => j = k
    <3>1. \A i, j \in BoundSlots(c) : c[i].device_id = c[j].device_id => i = j
      BY DEF Sound, OneEach, BoundSlots, Bound
    <3>. QED  BY <1>3, <3>1
  <2>3. \A d \in bound : \E k \in 1 .. Len(b) : f[k] = d
    BY <1>7
  <2>4. ExistsBijection(1 .. Len(b), bound)
    <3>. HIDE DEF f, bound
    <3>. QED  BY <2>1, <2>2, <2>3 DEF ExistsBijection, Bijection, Injection, Surjection,
            IsInjective
  <2>. QED  BY <1>3, <2>4, FS_CountingElements
<1>. QED  BY <1>1, <1>5, <1>9, <1>10

\* The walk by index meets the same devices.
LEMMA WalkMeetsBound ==
  ASSUME NEW c, Sound(c), Located(c)
  PROVE  {address_get_by_index(c, n) : n \in 0 .. MAX_ADDRESS_CACHE} \ {NoDevice}
           = {d \in Devices : address_get_by_device(c, d) # NoAddress}
<1>1. ASSUME NEW n \in 0 .. MAX_ADDRESS_CACHE, address_get_by_index(c, n) # NoDevice
      PROVE  \E i \in BoundSlots(c) : c[i].device_id = address_get_by_index(c, n)
  BY <1>1, CacheAssumption DEF address_get_by_index, BoundSlots, Slots
<1>2. ASSUME NEW i \in BoundSlots(c)
      PROVE  \E n \in 0 .. MAX_ADDRESS_CACHE : address_get_by_index(c, n) = c[i].device_id
  <2>1. i - 1 \in 0 .. MAX_ADDRESS_CACHE /\ i - 1 < MAX_ADDRESS_CACHE /\ (i - 1) + 1 = i
    BY CacheAssumption DEF BoundSlots, Slots
  <2>2. address_get_by_index(c, i - 1) = c[i].device_id
    BY <2>1 DEF address_get_by_index, BoundSlots
  <2>. QED  BY <2>1, <2>2
<1>3. \A i \in BoundSlots(c) : c[i].device_id # NoDevice
  BY BindingAssumption DEF BoundSlots, Located
<1>. QED  BY <1>1, <1>2, <1>3, BoundDevices

\* The address of a bound device is that of a device with this address.
LEMMA AddressesLookUp ==
  ASSUME NEW c, Sound(c), NEW d, NEW address,
         address = address_get_by_device(c, d), address # NoAddress
  PROVE  address_get_by_device(c, address_get_device_id(c, address)) = address
<1>. DEFINE there == {i \in Slots : Bound(c[i]) /\ c[i].address = address}
<1>1. Min(Held(c, d)) \in there
  BY HeldInSlots DEF address_get_by_device
<1>2. there \in SUBSET Slots /\ there # {}
  BY <1>1
<1>3. address_get_device_id(c, address) = c[Min(there)].device_id
  BY <1>2 DEF address_get_device_id
<1>4. Min(there) \in there
  <2>. HIDE DEF there
  <2>. QED  BY <1>2, MinOfSlots
<1>. QED  BY <1>3, <1>4, LookupBound

-----------------------------------------------------------------------------
\* The bound slots after the k-th are the rest of the bindings.
LEMMA BindingsRest ==
  ASSUME NEW c, NEW k \in 1 .. Len(Bindings(c))
  PROVE  IsRest(InOrder({i \in Slots : i > Bindings(c)[k] /\ Bound(c[i])}), Bindings(c), k)
<1>1. PICK S \in SUBSET Slots : S = {i \in Slots : Bound(c[i])}
  OBVIOUS
<1>2. Bindings(c) = InOrder(S)
  BY <1>1, Zenon DEF Bindings
<1>3. {i \in Slots : i > Bindings(c)[k] /\ Bound(c[i])} = {i \in S : i > InOrder(S)[k]}
  <2>1. PICK m : m = Bindings(c)[k] /\ m = InOrder(S)[k]
    BY <1>2, Zenon
  <2>2. {i \in Slots : i > m /\ Bound(c[i])} = {i \in S : i > m}
    BY <1>1
  <2>. QED  BY <2>1, <2>2, Zenon
<1>4. k \in 1 .. Len(InOrder(S))
  BY <1>2, Zenon
<1>5. IsRest(InOrder({i \in S : i > InOrder(S)[k]}), InOrder(S), k)
  BY <1>4, InOrderRest
<1>. QED  BY <1>2, <1>3, <1>5, Zenon

\* The sequence that begins with one and goes on with the rest.
LEMMA OneAndRest ==
  ASSUME NEW x \in Nat, NEW t \in Seq(Nat)
  PROVE  /\ (<<x>> \o t)[1] = x
         /\ \A j \in 1 .. Len(t) : (<<x>> \o t)[j + 1] = t[j]
<1>1. PICK one : one = <<x>>
  OBVIOUS
<1>2. one \in Seq(Nat) /\ Len(one) = 1 /\ one[1] = x
  BY <1>1
<1>3. PICK u : u = one \o t
  OBVIOUS
<1>4. /\ \A i \in 1 .. Len(one) : u[i] = one[i]
      /\ \A j \in 1 .. Len(t) : u[Len(one) + j] = t[j]
  BY <1>2, <1>3, ConcatPlaces, Zenon
<1>5. u[1] = x /\ \A j \in 1 .. Len(t) : u[j + 1] = t[j]
  BY <1>2, <1>4
<1>. QED  BY <1>1, <1>3, <1>5, Zenon

\* A range read of all returns the list.
LEMMA AllIsRead ==
  ASSUME NEW c, Len(Bindings(c)) <= MAX_ADDRESS_CACHE
  PROVE  LET list == address_list_encode(c)
         IN  handler_read_range(c, RangeRequest("READ_ALL", 0, 0), FALSE, MAX_ADDRESS_CACHE).detail
               = [items |-> list, first |-> list # << >>, last |-> list # << >>, more |-> FALSE]
<1>. DEFINE request == RangeRequest("READ_ALL", 0, 0)
            list    == address_list_encode(c)
<1>1. PICK b : b = Bindings(c)
  OBVIOUS
<1>2. b \in Seq(Nat) /\ Len(b) \in Nat /\ address_count(c) = Len(b)
  BY <1>1, InOrderProperty DEF OrderedUpTo, Bindings, BoundSlots, address_count
<1>3. handler_read_range(c, request, FALSE, MAX_ADDRESS_CACHE).detail
        = rr_address_list_encode(c, request, MAX_ADDRESS_CACHE)
  BY SMT DEF handler_read_range, Encode_RR_payload, DeviceGetRRInfo, RangeRequest,
     BACNET_ARRAY_ALL
<1>4. FromTo(c, request) = <<1, Len(b)>>
  <2>1. request.type = "READ_ALL"
    BY DEF RangeRequest
  <2>. HIDE DEF request
  <2>. QED  BY <1>2, <2>1 DEF FromTo
<1>5. list = [k \in 1 .. Len(b) |-> Binding(c, b[k])]
  BY <1>1, <1>2 DEF address_list_encode
<1>6. CASE b = << >>
  <2>1. rr_address_list_encode(c, request, MAX_ADDRESS_CACHE)
          = [items |-> << >>, first |-> FALSE, last |-> FALSE, more |-> FALSE]
    BY <1>1, <1>6 DEF rr_address_list_encode
  <2>2. list = << >>
    <3>. HIDE DEF list
    <3>. QED  BY <1>5, <1>6
  <2>. QED  BY <1>3, <2>1, <2>2
<1>7. CASE b # << >>
  <2>1. PICK rest : rest = InOrder({i \in Slots : i > b[1] /\ Bound(c[i])})
    OBVIOUS
  <2>2. 1 \in 1 .. Len(b)
    BY <1>2, <1>7
  <2>3. rest \in Seq(Nat) /\ Len(rest) = Len(b) - 1 /\ \A j \in 1 .. Len(rest) : rest[j] = b[1 + j]
    <3>1. IsRest(rest, b, 1)
      BY <1>1, <2>1, <2>2, BindingsRest, Zenon
    <3>. QED  BY <3>1 DEF IsRest
  <2>4. ASSUME NEW k \in 1 .. Len(b) PROVE (<<b[1]>> \o rest)[k] = b[k]
    <3>1. b[1] \in Nat
      BY <1>2, <2>2
    <3>2. CASE k = 1
      BY <2>3, <3>1, <3>2, OneAndRest
    <3>3. CASE k # 1
      <4>1. PICK j : j = k - 1
        OBVIOUS
      <4>2. j \in 1 .. Len(rest) /\ j + 1 = k /\ 1 + j = k
        BY <1>2, <2>3, <3>3, <4>1
      <4>3. (<<b[1]>> \o rest)[j + 1] = rest[j]
        BY <2>3, <3>1, <4>2, OneAndRest
      <4>. QED  BY <2>3, <4>2, <4>3
    <3>. QED  BY <3>2, <3>3
  <2>5. rr_address_list_encode(c, request, MAX_ADDRESS_CACHE)
          = [items |-> [k \in 1 .. Len(b) |-> Binding(c, (<<b[1]>> \o rest)[k])],
             first |-> TRUE, last |-> TRUE, more |-> FALSE]
    <3>1. /\ (Len(b) - 1) + 1 = Len(b) /\ (1 + Len(b)) - 1 = Len(b) /\ Len(b) > 0
          /\ ~(1 > Len(b)) /\ ~(Len(b) > MAX_ADDRESS_CACHE)
      BY <1>1, <1>2, <2>2, CacheAssumption
    <3>2. FromTo(c, request)[1] = 1 /\ FromTo(c, request)[2] = Len(b)
      BY <1>4
    <3>3. PICK from, to : from = FromTo(c, request)[1] /\ to = FromTo(c, request)[2]
      OBVIOUS
    <3>. HIDE DEF request
    <3>4. rr_address_list_encode(c, request, MAX_ADDRESS_CACHE)
            = [items |-> [k \in 1 .. to - from + 1 |-> Binding(c, (<<b[1]>> \o rest)[k])],
               first |-> from = 1, last  |-> Len(b) > 0 /\ from + Len(b) - 1 = Len(b),
               more  |-> Len(b) > MAX_ADDRESS_CACHE]
      BY ZenonT(60), <1>1, <1>7, <2>1, <3>1, <3>2, <3>3 DEF rr_address_list_encode
    <3>5. PICK n, first, last, more :
            /\ n = to - from + 1 /\ first = (from = 1)
            /\ last = (Len(b) > 0 /\ from + Len(b) - 1 = Len(b))
            /\ more = (Len(b) > MAX_ADDRESS_CACHE)
      OBVIOUS
    <3>6. n = Len(b) /\ first = TRUE /\ last = TRUE /\ more = FALSE
      <4>1. from = 1 /\ to = Len(b) /\ Len(b) \in Nat
        BY <1>2, <3>2, <3>3
      <4>2. n = Len(b)
        BY <3>5, <4>1
      <4>3. first = TRUE
        BY <3>5, <4>1
      <4>4. (Len(b) > 0 /\ from + Len(b) - 1 = Len(b)) = TRUE
        BY <3>1, <4>1
      <4>5. (Len(b) > MAX_ADDRESS_CACHE) = FALSE
        BY <3>1
      <4>. QED  BY <3>5, <4>2, <4>3, <4>4, <4>5, Zenon
    <3>7. rr_address_list_encode(c, request, MAX_ADDRESS_CACHE)
            = [items |-> [k \in 1 .. n |-> Binding(c, (<<b[1]>> \o rest)[k])],
               first |-> first, last |-> last, more |-> more]
      BY <3>4, <3>5, Zenon
    <3>. QED  BY <3>6, <3>7, Zenon
  <2>6. [k \in 1 .. Len(b) |-> Binding(c, (<<b[1]>> \o rest)[k])] = list
    <3>. HIDE DEF list
    <3>. QED  BY <1>5, <2>4
  <2>7. list # << >>
    <3>. HIDE DEF list
    <3>. QED  BY <1>2, <1>5, <2>2
  <2>. QED  BY <1>3, <2>5, <2>6, <2>7
<1>. QED  BY <1>6, <1>7

-----------------------------------------------------------------------------
\* What is bound has been heard of: some address of the device is in its slot.
HasAddress == \E told \in [Devices -> Addresses] : AsHeard(cache, told)

\* No slot comes to say more than it did.
NoMoreTold(c, n) == \A told : AsHeard(c, told) => AsHeard(n, told)

LEMMA AddressInit == Init => HasAddress
BY InitSound, BindingAssumption DEF Init, HasAddress

LEMMA AddressStep ==
  ASSUME Inv, HasAddress, [Next]_vars
  PROVE  HasAddress'
<1> USE BindingAssumption DEF Inv
<1>1. ASSUME NEW n, cache' = n, NoMoreTold(cache, n) PROVE HasAddress'
  BY <1>1 DEF HasAddress, NoMoreTold, AsHeard
<1>2. CASE UNCHANGED cache
  BY <1>2 DEF HasAddress, AsHeard
<1>3. CASE Client
  <2>1. UNCHANGED cache \/ cache' = address_bind_request(cache, top, Target)
    BY <1>3 DEF Client, ClientStarts, ClientAsks, ClientLooks, ClientSends, CacheBecomes
  <2>2. NoMoreTold(cache, address_bind_request(cache, top, Target))
    BY RequestSound DEF NoMoreTold
  <2>. QED  BY <1>1, <1>2, <2>1, <2>2
<1>4. CASE Application
  <2>1. ASSUME NEW d \in Devices, BindRequest(d) PROVE HasAddress'
    <3>1. NoMoreTold(cache, address_bind_request(cache, top, d))
      BY RequestSound DEF NoMoreTold
    <3>. QED  BY <1>1, <2>1, <3>1 DEF BindRequest, CacheBecomes
  <2>2. ASSUME NEW d \in Devices, RemoveDevice(d) PROVE HasAddress'
    <3>1. cache' = address_remove_device(cache, top, d).cache
      BY <2>2 DEF RemoveDevice, CacheBecomes
    <3>2. NoMoreTold(cache, address_remove_device(cache, top, d).cache)
      BY RemoveSound DEF NoMoreTold, Others
    <3>. QED  BY <1>1, <3>1, <3>2
  <2>3. ASSUME NEW d \in Devices, NEW static \in BOOLEAN, SetTTL(d, 0, static)
        PROVE  HasAddress'
    <3>1. NoMoreTold(cache, address_set_device_TTL(cache, d, 0, static))
      BY SetTTLSound DEF NoMoreTold
    <3>. QED  BY <1>1, <2>3, <3>1 DEF SetTTL, CacheBecomes
  <2>4. ASSUME NEW seconds \in {1, LONG_TIME + 1}, CacheTimer(seconds)
        PROVE  HasAddress'
    <3>1. seconds \in Nat
      BY CacheAssumption
    <3>2. NoMoreTold(cache, address_cache_timer(cache, seconds))
      BY <3>1, TimerSound DEF NoMoreTold
    <3>. QED  BY <1>1, <2>4, <3>2 DEF CacheTimer, CacheBecomes
  <2>5. ASSUME NEW kept \in BOOLEAN, Restart(kept) PROVE HasAddress'
    <3>1. cache' = address_init_partial(cache) \/ cache' = address_init
      BY <2>5 DEF Restart
    <3>2. NoMoreTold(cache, address_init_partial(cache)) /\ NoMoreTold(cache, address_init)
      BY ClearedSound, InitSound DEF NoMoreTold, address_init_partial
    <3>. QED  BY <1>1, <3>1, <3>2
  <2>6. AskAll \/ CommunicationControl \/ (\E n \in 1 .. MAX_ADDRESS_CACHE : Protect(n))
        => UNCHANGED cache
    BY DEF AskAll, CommunicationControl, Protect
  <2>. QED  BY <1>2, <1>4, <2>1, <2>2, <2>3, <2>4, <2>5, <2>6 DEF Application
<1>5. ASSUME NEW m \in network,
             WhoIsArrives(m) \/ IAmArrives(m) \/ IAmIsAdded(m) \/ IAmIgnored(m) \/ Lose(m)
      PROVE  HasAddress'
  <2>1. CASE WhoIsArrives(m) \/ IAmIgnored(m) \/ Lose(m)
    BY <1>2, <2>1 DEF WhoIsArrives, IAmIgnored, Lose, Gone
  <2>2. CASE IAmArrives(m) \/ IAmIsAdded(m)
    <3>1. m.device \in Devices /\ m.address \in Addresses
      BY <2>2 DEF IAmArrives, IAmIsAdded, Heard, Others
    <3>2. PICK told \in [Devices -> Addresses] : AsHeard(cache, told)
      BY DEF HasAddress
    <3>3. told \in [Devices -> Addresses \cup {NoAddress}]
      BY <3>2
    <3>4. PICK anew : anew = [told EXCEPT ![m.device] = m.address]
      OBVIOUS
    <3>5. anew \in [Devices -> Addresses]
      BY <3>1, <3>4
    <3>6. AsHeard(handler_i_am_bind(m), anew) /\ AsHeard(handler_i_am_add(m), anew)
      BY <3>1, <3>2, <3>3, <3>4, BindingAddedSound, AddedSound
         DEF handler_i_am_bind, handler_i_am_add
    <3>7. cache' = handler_i_am_bind(m) \/ cache' = handler_i_am_add(m)
      BY <2>2 DEF IAmArrives, IAmIsAdded, CacheBecomes
    <3>8. ASSUME NEW n, AsHeard(n, anew), cache' = n PROVE HasAddress'
      BY <3>5, <3>8 DEF HasAddress, AsHeard
    <3>. QED  BY <3>6, <3>7, <3>8
  <2>. QED  BY <1>5, <2>1, <2>2
<1>6. ASSUME NEW d \in Devices, NEW address \in Addresses, Move(d, address)
      PROVE  UNCHANGED cache
  BY <1>6 DEF Move
<1>7. CASE UNCHANGED vars
  BY <1>2, <1>7 DEF vars
<1>8. CASE Next
  BY <1>2, <1>3, <1>4, <1>5, <1>6, <1>8 DEF Next
<1>. QED  BY <1>7, <1>8

LEMMA AddressLocated ==
  ASSUME Inv, HasAddress
  PROVE  Sound(cache) /\ Located(cache)
BY DEF Inv, HasAddress, AsHeard, Sound, SoundEntry, Located, Bound

\* No more slots are bound than there are.
LEMMA BindingsFit ==
  ASSUME NEW c
  PROVE  Len(Bindings(c)) <= MAX_ADDRESS_CACHE
<1>1. PICK b : b = Bindings(c)
  OBVIOUS
<1>2. OrderedUpTo(b, BoundSlots(c), MAX_ADDRESS_CACHE)
  BY <1>1, InOrderProperty DEF Bindings, BoundSlots
<1>3. /\ Len(b) \in Nat
      /\ \A k \in 1 .. Len(b) : b[k] \in Slots
      /\ \A j, k \in 1 .. Len(b) : b[j] = b[k] => j = k
  <2>1. Len(b) \in Nat /\ \A k \in 1 .. Len(b) : b[k] \in BoundSlots(c) /\ b[k] \in Nat
    BY <1>2, SlotsAreNat DEF OrderedUpTo, BoundSlots
  <2>2. \A j, k \in 1 .. Len(b) : b[j] = b[k] => ~(j < k) /\ ~(k < j)
    BY <1>2, <2>1 DEF OrderedUpTo
  <2>3. \A j, k \in 1 .. Len(b) : ~(j < k) /\ ~(k < j) => j = k
    BY <2>1
  <2>. QED  BY <2>1, <2>2, <2>3 DEF BoundSlots
<1>. DEFINE f == [k \in 1 .. Len(b) |-> b[k]]
<1>4. f \in Injection(1 .. Len(b), Slots)
  BY <1>3 DEF Injection, IsInjective
<1>5. /\ IsFiniteSet(1 .. Len(b)) /\ Cardinality(1 .. Len(b)) = Len(b)
      /\ IsFiniteSet(Slots) /\ Cardinality(Slots) = MAX_ADDRESS_CACHE
  <2>1. \A n \in Nat : IsFiniteSet(1 .. n) /\ Cardinality(1 .. n) = n
    BY FS_Interval
  <2>2. MAX_ADDRESS_CACHE \in Nat
    BY CacheAssumption
  <2>. QED  BY <1>3, <2>1, <2>2, Zenon DEF Slots
<1>6. Cardinality(1 .. Len(b)) <= Cardinality(Slots)
  <2>. HIDE DEF f
  <2>. QED  BY <1>4, <1>5, FS_Injection, Zenon
<1>. QED  BY <1>1, <1>5, <1>6

LEMMA ListsAgree ==
  ASSUME Sound(cache), Located(cache)
  PROVE  ListsWhatIsBound
<1>. DEFINE bound == {d \in Devices : address_get_by_device(cache, d) # NoAddress}
            list  == address_list_encode(cache)
            all   == handler_read_range(cache, RangeRequest("READ_ALL", 0, 0), FALSE, MAX_ADDRESS_CACHE).detail
<1>1. \A d \in bound :
        LET address == address_get_by_device(cache, d)
        IN  address_get_by_device(cache, address_get_device_id(cache, address)) = address
  BY AddressesLookUp
<1>2. /\ ToSet(list) = {<<d, address_get_by_device(cache, d)>> : d \in bound}
      /\ Len(list) = Cardinality(bound)
  BY ListHoldsBound
<1>3. {address_get_by_index(cache, n) : n \in 0 .. MAX_ADDRESS_CACHE} \ {NoDevice} = bound
  BY WalkMeetsBound
<1>4. all = [items |-> list, first |-> list # << >>, last |-> list # << >>, more |-> FALSE]
  BY BindingsFit, AllIsRead
<1>. QED  BY <1>1, <1>2, <1>3, <1>4, Zenon DEF ListsWhatIsBound

\* Every way to read the bindings gives the same, whatever the size of the cache:
\* the lookup, the walk by index, the list, the range read of all of it; each
\* device is there once (address.c, h_rr.c).
THEOREM ListsAreBindings == Spec => []ListsWhatIsBound
<1>1. Inv /\ HasAddress => ListsWhatIsBound
  BY AddressLocated, ListsAgree
<1>2. Spec => []HasAddress
  BY Invariance, AddressInit, AddressStep, PTL DEF Spec
<1>. QED  BY <1>1, <1>2, Invariance, PTL

-----------------------------------------------------------------------------
(***************************************************************************)
(* The list of bindings, read in parts by position.  Nothing is needed of   *)
(* the cache but its size: the positions reckoned from the end asked for,   *)
(* the entries that fit and the flags agree with the list cut out of the    *)
(* whole.                                                                  *)
(***************************************************************************)
\* The first and the last position the code reckons are the ends of what is asked for.
EndsAre(c, request, total, asked) ==
  \E from \in Nat \ {0}, to \in Int :
    /\ FromTo(c, request) = <<from, to>>
    /\ asked = from .. to
    /\ to <= total
    /\ from > to => from > total

\* The positions the code reckons are those that were asked for.
LEMMA FromToAsked ==
  ASSUME NEW c, NEW total \in Nat, address_count(c) = total,
         NEW ref \in Nat \ {0}, NEW count \in Int \ {0}
  PROVE  EndsAre(c, RangeRequest("BY_POSITION", ref, count), total, Asked(total, ref, count))
<1>1. PICK request : request = RangeRequest("BY_POSITION", ref, count)
  OBVIOUS
<1>2. request.type = "BY_POSITION" /\ request.ref = ref /\ request.count = count
  BY <1>1 DEF RangeRequest
<1>. DEFINE Until(n) == IF n < total THEN n ELSE total
<1>3. CASE count > 0
  <2>1. FromTo(c, request) = <<ref, Until(ref + count - 1)>>
    BY <1>2, <1>3 DEF FromTo
  <2>2. Asked(total, ref, count) = ref .. Until(ref + count - 1)
    BY <1>3 DEF Asked
  <2>3. /\ Until(ref + count - 1) \in Int /\ Until(ref + count - 1) <= total
        /\ ref > Until(ref + count - 1) => ref > total
    BY <1>3
  <2>. HIDE DEF Until
  <2>. QED  BY <1>1, <2>1, <2>2, <2>3 DEF EndsAre
<1>4. CASE count < 0 /\ ref + count + 1 < 1
  <2>1. FromTo(c, request) = <<1, Until(1 + ref - 1)>>
    BY <1>2, <1>4 DEF FromTo
  <2>2. Asked(total, ref, count) = 1 .. Until(1 + ref - 1)
    BY <1>4 DEF Asked
  <2>3. /\ Until(1 + ref - 1) \in Int /\ Until(1 + ref - 1) <= total
        /\ 1 > Until(1 + ref - 1) => 1 > total
    OBVIOUS
  <2>. HIDE DEF Until
  <2>. QED  BY <1>1, <2>1, <2>2, <2>3 DEF EndsAre
<1>5. CASE count < 0 /\ ~(ref + count + 1 < 1)
  <2>1. PICK back : back = ref + count + 1
    OBVIOUS
  <2>2. FromTo(c, request) = <<back, Until(back + -count - 1)>>
    BY <1>2, <1>5, <2>1 DEF FromTo
  <2>3. Asked(total, ref, count) = back .. Until(back + -count - 1)
    BY <1>5, <2>1 DEF Asked
  <2>4. /\ Until(back + -count - 1) \in Int /\ Until(back + -count - 1) <= total
        /\ back > Until(back + -count - 1) => back > total
    BY <1>5, <2>1
  <2>5. back \in Nat \ {0}
    BY <1>5, <2>1
  <2>. HIDE DEF Until
  <2>. QED  BY <1>1, <2>2, <2>3, <2>4, <2>5 DEF EndsAre
<1>. QED  BY <1>3, <1>4, <1>5

\* The bound slots after a slot.
BoundAfter(c, n) == InOrder({i \in Slots : i > n /\ Bound(c[i])})

\* What is read from a position on.
ReadOn(c, b, from) ==
  \A k \in 1 .. Len(b) - from + 1 :
    (<<b[from]>> \o BoundAfter(c, b[from]))[k] = b[from + k - 1]

\* The elements that are read when the first is found where the seek stops.
LEMMA ReadFrom ==
  ASSUME NEW c, NEW b, NEW from, b = Bindings(c), from \in 1 .. Len(b)
  PROVE  ReadOn(c, b, from)
<1>1. b \in Seq(Nat) /\ Len(b) \in Nat
  BY InOrderProperty DEF OrderedUpTo, Bindings, BoundSlots
<1>2. PICK rest : rest = BoundAfter(c, b[from])
  OBVIOUS
<1>3. IsRest(rest, b, from)
  BY <1>2, BindingsRest, Zenon DEF BoundAfter
<1>4. rest \in Seq(Nat) /\ Len(rest) = Len(b) - from /\ \A j \in 1 .. Len(rest) : rest[j] = b[from + j]
  BY <1>3 DEF IsRest
<1>5. PICK x \in Nat : x = b[from]
  BY <1>1
<1>6. /\ (<<x>> \o rest)[1] = x
      /\ \A j \in 1 .. Len(rest) : (<<x>> \o rest)[j + 1] = rest[j]
  BY <1>4, OneAndRest
<1>7. PICK read : read = <<x>> \o rest
  OBVIOUS
<1>8. ASSUME NEW k \in 1 .. Len(b) - from + 1 PROVE read[k] = b[from + k - 1]
  <2>1. CASE k = 1
    BY <1>1, <1>5, <1>6, <1>7, <2>1
  <2>2. CASE k # 1
    <3>1. PICK j : j = k - 1
      OBVIOUS
    <3>2. j \in 1 .. Len(rest) /\ j + 1 = k /\ from + j = from + k - 1
      BY <1>1, <1>4, <2>2, <3>1
    <3>3. read[j + 1] = rest[j]
      BY <1>6, <1>7, <3>2
    <3>. QED  BY <1>4, <3>2, <3>3
  <2>. QED  BY <2>1, <2>2
<1>. QED  BY <1>2, <1>5, <1>7, <1>8, Zenon DEF ReadOn

\* The least and the largest of an interval, and how many there are.
LEMMA IntervalEnds ==
  ASSUME NEW from \in Int, NEW to \in Int, from <= to
  PROVE  Min(from .. to) = from /\ Max(from .. to) = to /\ Cardinality(from .. to) = to - from + 1
<1>1. Min(from .. to) = from
  <2>1. from \in from .. to /\ \A y \in from .. to : from <= y
    OBVIOUS
  <2>2. \A x \in from .. to : (\A y \in from .. to : x <= y) => x = from
    OBVIOUS
  <2>. QED  BY <2>1, <2>2, Zenon DEF Min
<1>2. Max(from .. to) = to
  <2>1. to \in from .. to /\ \A y \in from .. to : to >= y
    OBVIOUS
  <2>2. \A x \in from .. to : (\A y \in from .. to : x >= y) => x = to
    OBVIOUS
  <2>. QED  BY <2>1, <2>2, Zenon DEF Max
<1>3. Cardinality(from .. to) = to - from + 1
  BY FS_Interval
<1>. QED  BY <1>1, <1>2, <1>3

\* How many of the elements from .. to are encoded.
Fits(from, to, room) == IF to - from + 1 <= room THEN to - from + 1 ELSE room

\* The part of the list the code encodes, from its first to its last position.
EncodedPart(c, request, room, b, from, to) ==
  rr_address_list_encode(c, request, room)
    = [items |-> [k \in 1 .. Fits(from, to, room) |-> Binding(c, b[from + k - 1])],
       first |-> from = 1,
       last  |-> Fits(from, to, room) > 0 /\ from + Fits(from, to, room) - 1 = Len(b),
       more  |-> to - from + 1 > room]

\* What is encoded of the positions from .. to.
LEMMA PartEncoded ==
  ASSUME NEW c, NEW b, b = Bindings(c), NEW request, NEW room \in Nat \ {0},
         NEW from \in 1 .. Len(b), NEW to \in from .. Len(b),
         FromTo(c, request) = <<from, to>>,
         from = 1 \/ b[from] = b[from - 1] + 1
  PROVE  EncodedPart(c, request, room, b, from, to)
<1>. DEFINE start == IF from = 1 THEN b[1] ELSE b[from - 1] + 1
            reached == <<start>> \o BoundAfter(c, start)
<1>1. PICK fit : fit = Fits(from, to, room)
  OBVIOUS
<1>2. start = b[from]
  OBVIOUS
<1>3. Len(b) \in Nat /\ b # << >> /\ ~(from > Len(b)) /\ b \in Seq(Nat)
  <2>1. b \in Seq(Nat)
    BY InOrderProperty DEF OrderedUpTo, Bindings, BoundSlots
  <2>. QED  BY <2>1
<1>4. \A k \in 1 .. Len(b) - from + 1 : reached[k] = b[from + k - 1]
  <2>1. \A k \in 1 .. Len(b) - from + 1 :
          (<<b[from]>> \o BoundAfter(c, b[from]))[k] = b[from + k - 1]
    <3>1. ReadOn(c, b, from)
      BY ReadFrom
    <3>. QED  BY <3>1, Zenon DEF ReadOn
  <2>2. reached = <<b[from]>> \o BoundAfter(c, b[from])
    BY <1>2, Zenon
  <2>. QED  BY <2>1, <2>2, Zenon
<1>5. rr_address_list_encode(c, request, room)
        = [items |-> [k \in 1 .. fit |-> Binding(c, reached[k])],
           first |-> from = 1,
           last  |-> fit > 0 /\ from + fit - 1 = Len(b),
           more  |-> to - from + 1 > room]
  <2>1. PICK p, q : p = FromTo(c, request)[1] /\ q = FromTo(c, request)[2]
    OBVIOUS
  <2>2. p = from /\ q = to
    BY <2>1
  <2>3. rr_address_list_encode(c, request, room)
          = IF b = << >> \/ p > Len(b)
            THEN [items |-> << >>, first |-> FALSE, last |-> FALSE, more |-> FALSE]
            ELSE LET startp == IF p = 1 THEN b[1] ELSE b[p - 1] + 1
                     sentp == Fits(p, q, room)
                 IN  [items |-> [k \in 1 .. sentp |->
                                   Binding(c, (<<startp>> \o BoundAfter(c, startp))[k])],
                      first |-> p = 1,
                      last  |-> sentp > 0 /\ p + sentp - 1 = Len(b),
                      more  |-> q - p + 1 > room]
    BY <2>1, Zenon DEF rr_address_list_encode, BoundAfter, Fits
  <2>. QED  BY <1>3, <1>1, <2>2, <2>3, Zenon
<1>6. fit \in Nat /\ fit <= Len(b) - from + 1
  BY <1>3, <1>1 DEF Fits
<1>7. [k \in 1 .. fit |-> Binding(c, reached[k])] = [k \in 1 .. fit |-> Binding(c, b[from + k - 1])]
  <2>1. \A k \in 1 .. fit : reached[k] = b[from + k - 1]
    <3>1. \A k \in 1 .. fit : k \in 1 .. Len(b) - from + 1
      BY <1>3, <1>6
    <3>. QED  BY <1>4, <3>1, Zenon
  <2>. HIDE DEF reached
  <2>. QED  BY <2>1
<1>. HIDE DEF reached
<1>. QED  BY <1>5, <1>7, <1>1, Zenon DEF EncodedPart

\* What the reader expects of an answer.
PartAsAsked(part, slots, list, wanted, room) ==
  /\ part.pdu = "COMPLEX_ACK"
  /\ wanted = {} => part.detail.items = << >>
  /\ wanted # {} /\ (Min(wanted) = 1 \/ slots[Min(wanted)] = slots[Min(wanted) - 1] + 1) =>
       /\ part.detail.items =
            SubSeq(list, Min(wanted), Min({Max(wanted), Min(wanted) + room - 1}))
       /\ part.detail.more = (Cardinality(wanted) > room)
       /\ part.detail.first = (1 \in wanted)
       /\ part.detail.last = (Len(list) \in wanted /\ ~part.detail.more)

\* The smaller of two.
LEMMA MinOfTwo ==
  ASSUME NEW x \in Int, NEW y \in Int
  PROVE  Min({x, y}) = IF x <= y THEN x ELSE y
<1>. DEFINE m == IF x <= y THEN x ELSE y
<1>1. m \in {x, y} /\ \A z \in {x, y} : m <= z
  OBVIOUS
<1>2. \A w \in {x, y} : (\A z \in {x, y} : w <= z) => w = m
  OBVIOUS
<1>. HIDE DEF m
<1>3. Min({x, y}) = m
  BY <1>1, <1>2, Zenon DEF Min
<1>. QED  BY <1>3 DEF m

\* The part is cut off where the room ends, and says so.
IsCut(c, b, list, room, from, to) ==
  [k \in 1 .. Fits(from, to, room) |-> Binding(c, b[from + k - 1])]
    = SubSeq(list, from, Min({to, from + room - 1}))

\* A part of a list is encoded as it is cut from the list.
LEMMA CutAsEncoded ==
  ASSUME NEW c, NEW b, Len(b) \in Nat, NEW list, NEW room \in Nat \ {0},
         list = [k \in 1 .. Len(b) |-> Binding(c, b[k])],
         NEW from \in 1 .. Len(b), NEW to \in from .. Len(b)
  PROVE  IsCut(c, b, list, room, from, to)
<1>1. PICK last \in Int : last = IF to <= from + room - 1 THEN to ELSE from + room - 1
  OBVIOUS
<1>2. Min({to, from + room - 1}) = last
  BY <1>1, MinOfTwo
<1>3. PICK fit : fit = Fits(from, to, room)
  OBVIOUS
<1>4. fit = last - from + 1 /\ fit \in Nat /\ from <= last /\ last <= Len(b)
  BY <1>1, <1>3 DEF Fits
<1>. DEFINE Item(n) == Binding(c, b[n])
<1>5. PICK S : list \in Seq(S)
  <2>. HIDE DEF Item
  <2>1. list = [k \in 1 .. Len(b) |-> Item(k)]
    BY DEF Item
  <2>2. list \in Seq({Item(n) : n \in 1 .. Len(b)})
    BY <2>1
  <2>. QED  BY <2>2
<1>6. Len(list) = Len(b)
  <2>. HIDE DEF Item
  <2>1. list = [k \in 1 .. Len(b) |-> Item(k)]
    BY DEF Item
  <2>. QED  BY <2>1
<1>7. SubSeq(list, from, last) = [k \in 1 .. fit |-> list[from + k - 1]]
  <2>1. PICK cut : cut = SubSeq(list, from, last)
    OBVIOUS
  <2>2. cut \in Seq(S) /\ Len(cut) = fit /\ \A k \in 1 .. fit : cut[k] = list[from + k - 1]
    <3>1. from \in 1 .. Len(list) + 1 /\ last \in from - 1 .. Len(list) /\ fit = last - from + 1
      BY <1>4, <1>6
    <3>. QED  BY <1>5, <2>1, <3>1, SubSeqProperties
  <2>3. cut = [k \in 1 .. fit |-> cut[k]]
    BY <2>2
  <2>4. [k \in 1 .. fit |-> cut[k]] = [k \in 1 .. fit |-> list[from + k - 1]]
    BY <2>2
  <2>. QED  BY <2>1, <2>3, <2>4, Zenon
<1>8. \A k \in 1 .. fit : list[from + k - 1] = Binding(c, b[from + k - 1])
  BY <1>4
<1>9. [k \in 1 .. fit |-> list[from + k - 1]] = [k \in 1 .. fit |-> Binding(c, b[from + k - 1])]
  BY <1>8
<1>. QED  BY <1>2, <1>3, <1>7, <1>9, Zenon DEF IsCut

\* The list has an entry for every binding.
LEMMA ListOfBindings ==
  ASSUME NEW c, NEW b, b = Bindings(c)
  PROVE  /\ Len(b) \in Nat /\ address_count(c) = Len(b)
         /\ address_list_encode(c) = [k \in 1 .. Len(b) |-> Binding(c, b[k])]
         /\ Len(address_list_encode(c)) = Len(b)
<1>1. Len(b) \in Nat /\ address_count(c) = Len(b)
  BY InOrderProperty DEF OrderedUpTo, Bindings, BoundSlots, address_count
<1>2. address_list_encode(c) = [k \in 1 .. Len(b) |-> Binding(c, b[k])]
  BY <1>1 DEF address_list_encode
<1>3. Len(address_list_encode(c)) = Len(b)
  BY <1>1, <1>2
<1>. QED  BY <1>1, <1>2, <1>3

\* The answer is this part of the list.
Answered(answer, part) == answer.pdu = "COMPLEX_ACK" /\ answer.detail = part

\* An answer that fits is the part that was asked for.
LEMMA AnsweredWithPart ==
  ASSUME NEW c, NEW ref \in Nat \ {0}, NEW count \in Int \ {0}, NEW room
  PROVE  Answered(handler_read_range(c, RangeRequest("BY_POSITION", ref, count), FALSE, room),
                  rr_address_list_encode(c, RangeRequest("BY_POSITION", ref, count), room))
<1>1. PICK request : request = RangeRequest("BY_POSITION", ref, count)
  OBVIOUS
<1>2. /\ request.property = "DEVICE_ADDRESS_BINDING" /\ request.type = "BY_POSITION"
      /\ request.index = BACNET_ARRAY_ALL /\ request.ref = ref /\ request.count = count
  BY <1>1 DEF RangeRequest
<1>3. DeviceGetRRInfo(request.property) = {"BY_POSITION"}
  BY <1>2 DEF DeviceGetRRInfo
<1>4. handler_read_range(c, request, FALSE, room)
        = [pdu |-> "COMPLEX_ACK", detail |-> rr_address_list_encode(c, request, room)]
  BY <1>2, <1>3 DEF handler_read_range, Encode_RR_payload
<1>5. PICK part : part = handler_read_range(c, request, FALSE, room)
  OBVIOUS
<1>6. part.pdu = "COMPLEX_ACK" /\ part.detail = rr_address_list_encode(c, request, room)
  <2>1. PICK d : d = rr_address_list_encode(c, request, room)
    OBVIOUS
  <2>2. part = [pdu |-> "COMPLEX_ACK", detail |-> d]
    BY <1>4, <1>5, <2>1, Zenon
  <2>. QED  BY <2>1, <2>2
<1>. QED  BY <1>1, <1>5, <1>6, Zenon DEF Answered

\* A part of any list of bindings is as it was asked for.
LEMMA PartIsRight ==
  ASSUME NEW c, NEW ref \in Nat \ {0}, NEW count \in Int \ {0}, NEW room \in Nat \ {0}
  PROVE  PartAsAsked(handler_read_range(c, RangeRequest("BY_POSITION", ref, count), FALSE, room),
                     Bindings(c), address_list_encode(c),
                     Asked(Len(address_list_encode(c)), ref, count), room)
<1>1. PICK request, b, list, part :
        /\ request = RangeRequest("BY_POSITION", ref, count)
        /\ b = Bindings(c) /\ list = address_list_encode(c)
        /\ part = handler_read_range(c, request, FALSE, room)
  OBVIOUS
<1>2. /\ Len(b) \in Nat /\ address_count(c) = Len(b)
      /\ list = [k \in 1 .. Len(b) |-> Binding(c, b[k])] /\ Len(list) = Len(b)
  BY <1>1, ListOfBindings
<1>3. PICK from \in Nat \ {0}, to \in Int :
        /\ FromTo(c, request) = <<from, to>>
        /\ Asked(Len(b), ref, count) = from .. to
        /\ to <= Len(b)
        /\ from > to => from > Len(b)
  <2>1. EndsAre(c, RangeRequest("BY_POSITION", ref, count), Len(b), Asked(Len(b), ref, count))
    BY <1>2, FromToAsked
  <2>2. EndsAre(c, request, Len(b), Asked(Len(b), ref, count))
    BY <1>1, <2>1, Zenon
  <2>. QED  BY <2>2 DEF EndsAre
<1>4. part.pdu = "COMPLEX_ACK" /\ part.detail = rr_address_list_encode(c, request, room)
  <2>1. Answered(handler_read_range(c, RangeRequest("BY_POSITION", ref, count), FALSE, room),
                 rr_address_list_encode(c, RangeRequest("BY_POSITION", ref, count), room))
    BY AnsweredWithPart
  <2>. QED  BY <1>1, <2>1, Zenon DEF Answered
<1>5. PICK wanted : wanted = Asked(Len(list), ref, count) /\ wanted = from .. to
  BY <1>2, <1>3, Zenon
<1>6. PartAsAsked(part, b, list, wanted, room)
  <2>1. CASE from > to
    <3>1. wanted = {} /\ from > Len(b)
      BY <1>3, <1>5, <2>1
    <3>2. PICK p : p = FromTo(c, request)[1]
      OBVIOUS
    <3>3. p > Len(b)
      BY <1>3, <3>1, <3>2
    <3>4. rr_address_list_encode(c, request, room)
            = [items |-> << >>, first |-> FALSE, last |-> FALSE, more |-> FALSE]
      BY <1>1, <3>2, <3>3, Zenon DEF rr_address_list_encode
    <3>5. part.detail.items = << >>
      BY <1>4, <3>4
    <3>. QED  BY <1>4, <3>1, <3>5, Zenon DEF PartAsAsked
  <2>2. CASE ~(from > to)
    <3>1. from \in 1 .. Len(b) /\ to \in from .. Len(b) /\ from <= to
      BY <1>2, <1>3, <2>2
    <3>2. Min(wanted) = from /\ Max(wanted) = to /\ Cardinality(wanted) = to - from + 1 /\ wanted # {}
      <4>1. from .. to # {}
        BY <3>1
      <4>. QED  BY <1>5, <3>1, <4>1, IntervalEnds
    <3>3. SUFFICES ASSUME from = 1 \/ b[from] = b[from - 1] + 1
                   PROVE  /\ part.detail.items = SubSeq(list, from, Min({to, from + room - 1}))
                          /\ part.detail.more = (Cardinality(wanted) > room)
                          /\ part.detail.first = (1 \in wanted)
                          /\ part.detail.last = (Len(list) \in wanted /\ ~part.detail.more)
      BY <1>4, <3>2, Zenon DEF PartAsAsked
    <3>4. PICK fit : fit = Fits(from, to, room)
      OBVIOUS
    <3>5. rr_address_list_encode(c, request, room)
            = [items |-> [k \in 1 .. fit |-> Binding(c, b[from + k - 1])],
               first |-> from = 1,
               last  |-> fit > 0 /\ from + fit - 1 = Len(b),
               more  |-> to - from + 1 > room]
      <4>1. EncodedPart(c, request, room, b, from, to)
        BY <1>1, <1>3, <3>1, <3>3, PartEncoded
      <4>. QED  BY <3>4, <4>1, Zenon DEF EncodedPart
    <3>6. [k \in 1 .. fit |-> Binding(c, b[from + k - 1])]
            = SubSeq(list, from, Min({to, from + room - 1}))
      <4>1. IsCut(c, b, list, room, from, to)
        BY <1>2, <3>1, CutAsEncoded
      <4>. QED  BY <3>4, <4>1, Zenon DEF IsCut
    <3>7. PICK items, first, last, more :
            /\ items = SubSeq(list, from, Min({to, from + room - 1}))
            /\ first = (from = 1) /\ last = (fit > 0 /\ from + fit - 1 = Len(b))
            /\ more = (to - from + 1 > room)
      OBVIOUS
    <3>8. part.detail = [items |-> items, first |-> first, last |-> last, more |-> more]
      BY <1>4, <3>5, <3>6, <3>7, Zenon
    <3>9. /\ part.detail.items = items /\ part.detail.first = first
          /\ part.detail.last = last /\ part.detail.more = more
      BY <3>8
    <3>10. more = (Cardinality(wanted) > room)
      BY <3>2, <3>7, Zenon
    <3>11. first = (1 \in wanted)
      <4>1. (from = 1) <=> (1 \in wanted)
        BY <1>5, <3>1
      <4>2. (from = 1) = (1 \in wanted)
        BY <4>1
      <4>. QED  BY <3>7, <4>2, Zenon
    <3>12. last = (Len(list) \in wanted /\ ~more)
      <4>1. (fit > 0 /\ from + fit - 1 = Len(b)) <=> (Len(list) \in wanted /\ ~(to - from + 1 > room))
        BY <1>2, <1>5, <3>1, <3>4 DEF Fits
      <4>. QED  BY <3>7, <4>1, Zenon
    <3>. QED  BY <3>7, <3>9, <3>10, <3>11, <3>12, Zenon
  <2>. QED  BY <2>1, <2>2
<1>. QED  BY <1>1, <1>5, <1>6, Zenon

\* The same of every range that can be asked for.
LEMMA EveryPart == RangeIsPartOfList
<1>1. SUFFICES ASSUME NEW ref \in 1 .. MAX_ADDRESS_CACHE + 1, NEW room \in Slots,
                      NEW count \in (-MAX_ADDRESS_CACHE .. MAX_ADDRESS_CACHE) \ {0}
               PROVE  PartAsAsked(Part(ref, count, room), Bindings(Table), address_list_encode(Table),
                                  Asked(Len(address_list_encode(Table)), ref, count), room)
  BY Zenon DEF RangeIsPartOfList, PartAsAsked
<1>2. ref \in Nat \ {0} /\ count \in Int \ {0} /\ room \in Nat \ {0}
  BY CacheAssumption DEF Slots
<1>. QED  BY <1>2, PartIsRight DEF Part

(***************************************************************************)
(* Whatever the size of the cache and whatever it holds: a range of the     *)
(* address bindings read by position, from either end, is that part of the  *)
(* whole list, as much of it as there is room for, and the flags say which  *)
(* end was reached (address.c: rr_address_list_encode).                     *)
(***************************************************************************)
THEOREM PartsAreRead == ListSpec => []RangeIsPartOfList
BY EveryPart, PTL
=============================================================================
