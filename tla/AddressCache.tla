---------------------------- MODULE AddressCache ----------------------------
(***************************************************************************)
(* The address cache (components/bacnet/address.c): where the devices of    *)
(* the network can be reached, as operators on the table and on the number  *)
(* of its first entries that are protected.  A slot keeps the device and    *)
(* the address it last had when its flags are cleared.                      *)
(*                                                                          *)
(* An address stands for all that is stored with it, the largest APDU of    *)
(* the device included.                                                     *)
(***************************************************************************)
EXTENDS Integers, Sequences, FiniteSets, FiniteSetsExt, SequencesExt

CONSTANTS
  MAX_ADDRESS_CACHE,
  Own_Device_ID,    \* the device no entry is made for, if address_own_device_id_set was told
  SHORT_TIME, LONG_TIME, FOREVER,  \* BAC_ADDR_...
  NoDevice, NoAddress   \* what a slot never used holds

ASSUME CacheAssumption ==
  /\ MAX_ADDRESS_CACHE \in Nat \ {0}
  /\ SHORT_TIME \in Nat /\ LONG_TIME \in Nat /\ FOREVER \in Nat
  /\ SHORT_TIME < LONG_TIME /\ LONG_TIME < FOREVER

Slots == 1 .. MAX_ADDRESS_CACHE

\* BAC_ADDR_SHORT_TTL is left out: nothing ever sets it.  BAC_ADDR_RESERVED is:
\* what address_remove_oldest reserves, its callers fill in the same call.
BAC_ADDR == {"IN_USE", "BIND_REQ", "STATIC"}

Entry(Devices, Addresses) ==
  [Flags      : SUBSET BAC_ADDR,
   device_id  : Devices \cup {NoDevice},
   address    : Addresses \cup {NoAddress},
   TimeToLive : 0 .. FOREVER]

InUse(entry) == "IN_USE" \in entry.Flags
Bound(entry) == InUse(entry) /\ "BIND_REQ" \notin entry.Flags

\* address_init: every flag is cleared; a first start finds zeroed memory.
address_init ==
  [i \in Slots |-> [Flags |-> {}, device_id |-> NoDevice, address |-> NoAddress,
                    TimeToLive |-> 0]]

Cleared(cache, S) ==
  [i \in Slots |-> IF i \in S THEN [cache[i] EXCEPT !.Flags = {}] ELSE cache[i]]

\* address_init_partial: after a restart with the memory kept, only what is bound
\* and has not run out stays.
address_init_partial(cache) ==
  Cleared(cache, {i \in Slots : ~Bound(cache[i]) \/ cache[i].TimeToLive = 0})

\* What the searches for a device find: the first entry in use for it.
Held(cache, d) == {i \in Slots : InUse(cache[i]) /\ cache[i].device_id = d}
Free(cache) == {i \in Slots : ~InUse(cache[i])}

-----------------------------------------------------------------------------
address_get_by_device(cache, d) ==
  IF Held(cache, d) # {} /\ Bound(cache[Min(Held(cache, d))])
  THEN cache[Min(Held(cache, d))].address ELSE NoAddress

address_get_device_id(cache, address) ==
  LET there == {i \in Slots : Bound(cache[i]) /\ cache[i].address = address}
  IN  IF there = {} THEN NoDevice ELSE cache[Min(there)].device_id

\* The entry of a device goes; one before the boundary takes the boundary along.
address_remove_device(cache, top, d) ==
  LET i == Min(Held(cache, d))
  IN  IF Held(cache, d) = {} THEN [cache |-> cache, top |-> top]
      ELSE [cache |-> Cleared(cache, {i}), top |-> IF i <= top THEN top - 1 ELSE top]

\* Of those that live shortest, the last.
Oldest(cache, S) ==
  CHOOSE i \in S : \A j \in S : \/ cache[i].TimeToLive < cache[j].TimeToLive
                                \/ cache[i].TimeToLive = cache[j].TimeToLive /\ i >= j

\* Mutant: the first pass looks at static entries as well.
remove_oldest_or_static(cache, top) ==
  LET bound   == {i \in Slots : i > top /\ Bound(cache[i])}
      pending == {i \in Slots : InUse(cache[i]) /\ "BIND_REQ" \in cache[i].Flags}
  IN  IF bound # {} THEN Oldest(cache, bound)
      ELSE IF pending # {} THEN Oldest(cache, pending)
      ELSE 0

(***************************************************************************)
(* address_remove_oldest: the slot to give up, 0 for none.  Of the bound    *)
(* entries past the protected ones the one nearest its expiry; if there is  *)
(* none, of the pending ones, wherever they are.                            *)
(***************************************************************************)
address_remove_oldest(cache, top) ==
  LET expiring == {i \in Slots : /\ InUse(cache[i])
                                 /\ "STATIC" \notin cache[i].Flags
                                 /\ cache[i].TimeToLive < FOREVER}
      bound    == {i \in expiring : i > top /\ Bound(cache[i])}
      pending  == {i \in expiring : ~Bound(cache[i])}
  IN  IF top >= MAX_ADDRESS_CACHE THEN 0
      ELSE IF bound # {} THEN Oldest(cache, bound)
      ELSE IF pending # {} THEN Oldest(cache, pending)
      ELSE 0

\* The slot a new entry gets: a free one, or one that is given up for it.
SlotForNew(cache, top) ==
  IF Free(cache) # {} THEN Min(Free(cache)) ELSE address_remove_oldest(cache, top)

Placed(cache, slot, entry) == IF slot = 0 THEN cache ELSE [cache EXCEPT ![slot] = entry]

Renewed(entry, address) ==
  [entry EXCEPT !.address = address, !.Flags = @ \ {"BIND_REQ"},
                !.TimeToLive = IF "STATIC" \in entry.Flags /\ "BIND_REQ" \notin entry.Flags
                               THEN FOREVER ELSE LONG_TIME]

\* address_add: what an I-Am tells is entered whether it was asked for or not.
address_add(cache, top, d, address) ==
  LET known == Held(cache, d)
      new   == [Flags |-> {"IN_USE"}, device_id |-> d, address |-> address,
                TimeToLive |-> SHORT_TIME]
  IN  IF d = Own_Device_ID THEN cache
      ELSE IF known # {}
           THEN [cache EXCEPT ![Min(known)] = Renewed(@, address)]
           ELSE Placed(cache, SlotForNew(cache, top), new)

\* address_bind_request: an entry awaits the answer of a device not yet known.
address_bind_request(cache, top, d) ==
  LET slot    == SlotForNew(cache, top)
      pending == IF slot = 0 THEN [Flags |-> {}]
                 ELSE [cache[slot] EXCEPT !.Flags = {"IN_USE", "BIND_REQ"},
                                          !.device_id = d, !.TimeToLive = SHORT_TIME]
  IN  IF Held(cache, d) # {} THEN cache ELSE Placed(cache, slot, pending)

\* Mutant: the address of a device that is bound already is not updated.
add_binding_once(cache, d, address) ==
  LET i == Min(Held(cache, d))
      e == cache[i]
  IN  IF Held(cache, d) = {} \/ Bound(e) THEN cache
      ELSE [cache EXCEPT ![i] = [e EXCEPT !.address = address, !.Flags = @ \ {"BIND_REQ"},
                                          !.TimeToLive = LONG_TIME]]

\* address_add_binding: only a device the cache knows is updated.
address_add_binding(cache, d, address) ==
  LET i == Min(Held(cache, d))
      e == cache[i]
  IN  IF Held(cache, d) = {} THEN cache
      ELSE [cache EXCEPT ![i] =
             [e EXCEPT !.address = address, !.Flags = @ \ {"BIND_REQ"},
                       !.TimeToLive = IF "STATIC" \in e.Flags THEN @ ELSE LONG_TIME]]

\* address_set_device_TTL: only a bound entry can be made static or normal.
address_set_device_TTL(cache, d, TimeOut, static) ==
  LET i == Min(Held(cache, d))
      e == cache[i]
  IN  IF Held(cache, d) = {} THEN cache
      ELSE [cache EXCEPT ![i] =
             IF ~Bound(e) THEN [e EXCEPT !.TimeToLive = TimeOut]
             ELSE IF static
                  THEN [e EXCEPT !.Flags = @ \cup {"STATIC"}, !.TimeToLive = FOREVER]
                  ELSE [e EXCEPT !.Flags = @ \ {"STATIC"}, !.TimeToLive = TimeOut]]

\* address_cache_timer: an entry in use that is not static grows older, and goes
\* when it has less to live than has passed.
address_cache_timer(cache, seconds) ==
  [i \in Slots |->
     LET e == cache[i]
     IN  IF ~InUse(e) \/ "STATIC" \in e.Flags THEN e
         ELSE IF e.TimeToLive >= seconds THEN [e EXCEPT !.TimeToLive = @ - seconds]
         ELSE [e EXCEPT !.Flags = {}]]

-----------------------------------------------------------------------------
\* Some slots in their order, as a loop over the table meets them.
InOrder(S) ==
  LET upTo[n \in 0 .. MAX_ADDRESS_CACHE] ==
        IF n = 0 THEN << >> ELSE IF n \in S THEN Append(upTo[n - 1], n) ELSE upTo[n - 1]
  IN  upTo[MAX_ADDRESS_CACHE]

\* Mutant: an entry that still waits counts as well.
Entries_In_Use(cache) == InOrder({i \in Slots : InUse(cache[i])})

\* The bound entries in the order of their slots; what the searches for
\* bound entries go by.
Bindings(cache) == InOrder({i \in Slots : Bound(cache[i])})

address_count(cache) == Len(Bindings(cache))

\* address_get_by_index, counted from 0.
address_get_by_index(cache, index) ==
  IF index < MAX_ADDRESS_CACHE /\ Bound(cache[index + 1])
  THEN cache[index + 1].device_id ELSE NoDevice

\* One element of Device_Address_Binding.
Binding(cache, i) == <<cache[i].device_id, cache[i].address>>

address_list_encode(cache) == [k \in 1 .. address_count(cache) |-> Binding(cache, Bindings(cache)[k])]

\* Mutant: going backwards leaves out the entry it starts from.
FromTo_Exclusive(cache, request) ==
  LET total == address_count(cache)
      back  == request.ref + request.count
      range == CASE request.type = "READ_ALL" -> <<1, total>>
                 [] request.type # "READ_ALL" /\ request.count >= 0 -> <<request.ref, request.count>>
                 [] request.type # "READ_ALL" /\ request.count < 0 /\ back < 1 -> <<1, request.ref>>
                 [] OTHER -> <<back, -request.count>>
  IN  <<range[1], IF range[1] + range[2] - 1 < total THEN range[1] + range[2] - 1 ELSE total>>

\* The first entry asked for and how many: a negative count goes backwards.
FromTo(cache, request) ==
  LET total == address_count(cache)
      back  == request.ref + request.count + 1
      range == CASE request.type = "READ_ALL" -> <<1, total>>
                 [] request.type # "READ_ALL" /\ request.count >= 0 -> <<request.ref, request.count>>
                 [] request.type # "READ_ALL" /\ request.count < 0 /\ back < 1 -> <<1, request.ref>>
                 [] OTHER -> <<back, -request.count>>
  IN  <<range[1], IF range[1] + range[2] - 1 < total THEN range[1] + range[2] - 1 ELSE total>>

(***************************************************************************)
(* rr_address_list_encode: `room` entries fit.  The seek to the first entry *)
(* asked for counts bound entries but stops in the slot after the last it   *)
(* counted, bound or not; from there on only bound ones are taken.          *)
(***************************************************************************)
rr_address_list_encode(cache, request, room) ==
  LET bound   == Bindings(cache)
      from    == FromTo(cache, request)[1]
      to      == FromTo(cache, request)[2]
      start   == IF from = 1 THEN bound[1] ELSE bound[from - 1] + 1
      reached == <<start>> \o InOrder({i \in Slots : i > start /\ Bound(cache[i])})
      wanted  == to - from + 1
      sent    == IF wanted <= room THEN wanted ELSE room
  IN  IF bound = << >> \/ from > Len(bound)
      THEN [items |-> << >>, first |-> FALSE, last |-> FALSE, more |-> FALSE]
      ELSE [items |-> [k \in 1 .. sent |-> Binding(cache, reached[k])],
            first |-> from = 1,
            last  |-> sent > 0 /\ from + sent - 1 = Len(bound),
            more  |-> wanted > room]

-----------------------------------------------------------------------------
(***************************************************************************)
(* ReadRange (h_rr.c) of the device, the only object with lists: what       *)
(* DeviceGetRRInfo knows, and how the request is answered when `room`       *)
(* elements fit.                                                            *)
(***************************************************************************)
DeviceGetRRInfo(property) ==
  IF property = "DEVICE_ADDRESS_BINDING" THEN {"BY_POSITION"} ELSE {}

\* The index of a request that has none: 0xFFFFFFFF.
BACNET_ARRAY_ALL == -1

Encode_RR_payload(cache, request, room) ==
  LET types == DeviceGetRRInfo(request.property)
      error(code) == [pdu |-> "ERROR", detail |-> code]
  IN  IF types = {} THEN error("PROPERTY_IS_NOT_A_LIST")
      ELSE IF request.type = "BY_POSITION" /\ request.ref = 0 THEN error("OTHER")
      ELSE IF request.index \notin {0, BACNET_ARRAY_ALL} THEN error("PROPERTY_IS_NOT_AN_ARRAY")
      ELSE IF request.type \notin types \cup {"READ_ALL"} THEN error("OTHER")
      ELSE IF request.count = 0 /\ request.type # "READ_ALL" THEN error("OTHER")
      ELSE [pdu |-> "COMPLEX_ACK", detail |-> rr_address_list_encode(cache, request, room)]

handler_read_range(cache, request, segmented, room) ==
  IF segmented THEN [pdu |-> "ABORT", detail |-> "SEGMENTATION_NOT_SUPPORTED"]
  ELSE Encode_RR_payload(cache, request, room)

RangeRequest(type, ref, count) ==
  [property |-> "DEVICE_ADDRESS_BINDING", type |-> type, index |-> BACNET_ARRAY_ALL,
   ref |-> ref, count |-> count]
=============================================================================
