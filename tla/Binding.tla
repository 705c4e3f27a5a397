------------------------------ MODULE Binding -------------------------------
(***************************************************************************)
(* How a device finds the others: the address cache, the client task that   *)
(* asks for a device and writes to it (main/client_task.c), the others that *)
(* answer (h_whois.c, s_iam.c) and move to other addresses, and a network   *)
(* that delays, reorders and loses what they send.  Besides the client, the *)
(* application uses the cache as address.h lets it: it asks for devices,    *)
(* makes bindings static, protects and removes entries, lets time pass and  *)
(* starts again, with the memory of the cache kept or not.                  *)
(*                                                                          *)
(* A Who-Is reaches the devices it reaches at once.  heard, lost and dropped are     *)
(* history: the address last heard of each device, whether a message of the *)
(* client's device was lost or never sent since the client started, and     *)
(* whether the device's entry went.                                         *)
(***************************************************************************)
EXTENDS AddressCache

CONSTANTS
  Devices,          \* instance numbers of the other devices
  Target,           \* CONFIG_CLIENT_DEVICE_ID
  Addresses,
  Start,            \* where each device is at first
  MaxCalls          \* bound: what the application does and the devices move

ASSUME BindingAssumption ==
  /\ Devices \subseteq Nat /\ Target \in Devices /\ Own_Device_ID \notin Devices
  /\ NoDevice \notin Devices /\ NoAddress \notin Addresses
  /\ Start \in [Devices -> Addresses]
  /\ MaxCalls \in Nat

VARIABLES cache, top, communication, client, found, sent, where, network,
          heard, lost, dropped, calls

vars == <<cache, top, communication, client, found, sent, where, network,
          heard, lost, dropped, calls>>

NothingSent == [to |-> NoAddress, known |-> NoAddress]

Init ==
  /\ cache = address_init
  /\ top = 0
  /\ communication = TRUE
  /\ client = "OFF"
  /\ found = FALSE
  /\ sent = NothingSent
  /\ where = Start
  /\ network = {}
  /\ heard = [d \in Devices |-> NoAddress]
  /\ lost = FALSE
  /\ dropped = FALSE
  /\ calls = 0

\* The application has MaxCalls calls, and moves of devices count.
Call == calls < MaxCalls /\ calls' = calls + 1

-----------------------------------------------------------------------------
\* whois_encode_apdu leaves limits out that are not in the range of an instance.
Unlimited == <<-1, -1>>

WhoIs(limits) == [type |-> "WHO_IS", limits |-> limits]
IAm(d, address) == [type |-> "I_AM", device |-> d, address |-> address]

\* Send_WhoIs: silent while communication is disabled.
Send_WhoIs(limits) == IF communication THEN {WhoIs(limits)} ELSE {}

\* The cache changes; the entry of the client's device may go.
CacheBecomes(table) ==
  /\ cache' = table
  /\ dropped' = (dropped \/ (Held(cache, Target) # {} /\ Held(table, Target) = {}))

-----------------------------------------------------------------------------
\* client_task: an entry for the device is made, unless it is known.
ClientStarts ==
  /\ client = "OFF"
  /\ cache' = address_bind_request(cache, top, Target)
  /\ found' = (address_get_by_device(cache, Target) # NoAddress)
  /\ client' = IF found' THEN "TURN" ELSE "ASK"
  /\ dropped' = (Held(cache', Target) = {})
  /\ UNCHANGED <<top, communication, sent, where, network, heard, lost, calls>>

\* The one time it asks.
ClientAsks ==
  /\ client = "ASK"
  /\ network' = network \cup Send_WhoIs(<<Target, Target>>)
  /\ lost' = ~communication
  /\ client' = "TURN"
  /\ UNCHANGED <<cache, top, communication, found, sent, where, heard, dropped, calls>>

\* In each turn it looks again, until it has found the device once.
ClientLooks ==
  /\ client = "TURN"
  /\ IF found THEN UNCHANGED <<cache, found, dropped>>
     ELSE /\ CacheBecomes(address_bind_request(cache, top, Target))
          /\ found' = (address_get_by_device(cache, Target) # NoAddress)
  /\ client' = IF found' THEN "SEND" ELSE "TURN"
  /\ UNCHANGED <<top, communication, sent, where, network, heard, lost, calls>>

(***************************************************************************)
(* Send_Write_Property_Request_Data: nothing is sent while communication is *)
(* disabled, or to a device no longer bound; `possible` says whether there  *)
(* is a transaction free and the request fits the device's APDU.            *)
(***************************************************************************)
Destination(possible) ==
  IF communication /\ possible THEN address_get_by_device(cache, Target) ELSE NoAddress

ClientSends ==
  /\ client = "SEND"
  /\ \E possible \in BOOLEAN :
       sent' = IF Destination(possible) = NoAddress THEN sent
               ELSE [to |-> Destination(possible), known |-> heard[Target]]
  /\ client' = "TURN"
  /\ UNCHANGED <<cache, top, communication, found, where, network, heard, lost, dropped, calls>>

-----------------------------------------------------------------------------
\* Mutant: the limits of a Who-Is do not include the last instance.
answers_below(d, limits) == limits = Unlimited \/ (limits[1] <= d /\ d < limits[2])

\* handler_who_is: a device answers if it is meant.
Answers(d, limits) == limits = Unlimited \/ (limits[1] <= d /\ d <= limits[2])

WhoIsArrives(m) ==
  /\ m \in network /\ m.type = "WHO_IS"
  /\ \E reached \in SUBSET Devices :
       /\ network' = (network \ {m}) \cup
                     {IAm(d, where[d]) : d \in {e \in reached : Answers(e, m.limits)}}
       /\ lost' = (lost \/ Target \notin reached)
  /\ UNCHANGED <<cache, top, communication, client, found, sent, where, heard, dropped, calls>>

\* handler_i_am_bind, the handler the firmware registers: known devices only.
handler_i_am_bind(m) == address_add_binding(cache, m.device, m.address)

\* handler_i_am_add, the other one of the library: every device that is heard.
handler_i_am_add(m) == address_add(cache, top, m.device, m.address)

Heard(m) ==
  /\ m \in network /\ m.type = "I_AM"
  /\ communication
  /\ heard' = [heard EXCEPT ![m.device] = m.address]
  /\ network' = network \ {m}
  /\ UNCHANGED <<top, communication, client, found, sent, where, lost>>

IAmArrives(m) == Heard(m) /\ CacheBecomes(handler_i_am_bind(m)) /\ UNCHANGED calls

IAmIsAdded(m) == Heard(m) /\ CacheBecomes(handler_i_am_add(m)) /\ UNCHANGED calls

\* apdu_handler drops an I-Am while communication is not enabled.
Gone(m) ==
  /\ m \in network /\ m.type = "I_AM"
  /\ network' = network \ {m}
  /\ lost' = (lost \/ m.device = Target)
  /\ UNCHANGED <<cache, top, communication, client, found, sent, where, heard, dropped, calls>>

IAmIgnored(m) == ~communication /\ Gone(m)

\* The network loses one.
Lose(m) == communication /\ Gone(m)

\* A device gets another address, and says so or not.
Move(d, address) ==
  /\ Call
  /\ address \notin {where[e] : e \in Devices}
  /\ where' = [where EXCEPT ![d] = address]
  /\ \/ network' = network \cup {IAm(d, address)}
     \/ UNCHANGED network
  /\ UNCHANGED <<cache, top, communication, client, found, sent, heard, lost, dropped>>

-----------------------------------------------------------------------------
CacheOnly ==
  UNCHANGED <<top, communication, client, found, sent, where, network, heard, lost>>

\* The application asks for a device, or for all that are there.
BindRequest(d) == Call /\ CacheBecomes(address_bind_request(cache, top, d)) /\ CacheOnly

AskAll ==
  /\ Call
  /\ network' = network \cup Send_WhoIs(Unlimited)
  /\ UNCHANGED <<cache, top, communication, client, found, sent, where, heard, lost, dropped>>

SetTTL(d, seconds, static) ==
  Call /\ CacheBecomes(address_set_device_TTL(cache, d, seconds, static)) /\ CacheOnly

Protect(n) ==
  /\ Call
  /\ top' = n
  /\ UNCHANGED <<cache, communication, client, found, sent, where, network, heard, lost, dropped>>

RemoveDevice(d) ==
  LET result == address_remove_device(cache, top, d)
  IN  /\ Call
      /\ CacheBecomes(result.cache)
      /\ top' = result.top
      /\ UNCHANGED <<communication, client, found, sent, where, network, heard, lost>>

CacheTimer(seconds) == Call /\ CacheBecomes(address_cache_timer(cache, seconds)) /\ CacheOnly

\* dcc_communication_enabled, as the DeviceCommunicationControl service sets it.
CommunicationControl ==
  /\ Call
  /\ communication' = ~communication
  /\ UNCHANGED <<cache, top, client, found, sent, where, network, heard, lost, dropped>>

\* A restart, with the cache in memory that is kept or not.
Restart(kept) ==
  /\ Call
  /\ cache' = IF kept THEN address_init_partial(cache) ELSE address_init
  /\ top' \in IF kept THEN {0, top} ELSE {0}
  /\ communication' = TRUE
  /\ client' = "OFF"
  /\ found' = FALSE
  /\ sent' = NothingSent
  /\ lost' = FALSE
  /\ dropped' = FALSE
  /\ UNCHANGED <<where, network, heard>>

Client == ClientStarts \/ ClientAsks \/ ClientLooks \/ ClientSends

Application ==
  \/ AskAll
  \/ CommunicationControl
  \/ \E d \in Devices : BindRequest(d) \/ RemoveDevice(d)
  \/ \E d \in Devices : SetTTL(d, 0, TRUE) \/ SetTTL(d, 0, FALSE)
  \/ \E n \in 1 .. MAX_ADDRESS_CACHE : Protect(n)
  \/ \E seconds \in {1, LONG_TIME + 1} : CacheTimer(seconds)
  \/ \E kept \in BOOLEAN : Restart(kept)

Next ==
  \/ Client
  \/ Application
  \/ \E m \in network : WhoIsArrives(m) \/ IAmArrives(m) \/ IAmIsAdded(m)
                          \/ IAmIgnored(m) \/ Lose(m)
  \/ \E d \in Devices, address \in Addresses : Move(d, address)

Spec == Init /\ [][Next]_vars

\* What the client and its device say to each other.
Conversation == {WhoIs(<<Target, Target>>)} \cup {IAm(Target, address) : address \in Addresses}

\* The client task never ends, and what the network does not lose of its
\* conversation arrives, if only to be ignored.
FairSpec ==
  /\ Spec
  /\ WF_vars(ClientAsks \/ ClientLooks \/ ClientSends)
  /\ \A m \in Conversation : WF_vars(WhoIsArrives(m) \/ IAmArrives(m) \/ IAmIgnored(m))

-----------------------------------------------------------------------------
\* Whatever is lost, delayed or overtaken, moves, expires or is displaced, a
\* device is never taken to be anywhere but where its last I-Am to be handled
\* came from, and the client never writes anywhere else (address.c, h_iam.c,
\* s_wp.c): a slot used again never shows the address of its last device.
BoundAsAnnounced ==
  /\ \A d \in Devices : address_get_by_device(cache, d) \in {NoAddress, heard[d]}
  /\ sent.to = sent.known

\* Every way to read the bindings gives the same: the lookup of a device, the
\* walk by index, the whole list, the range read of all of it (address.c, h_rr.c).
\* Each device is there once, with one address, also when it was asked for
\* before it was heard or heard before it was asked for.
ListsWhatIsBound ==
  LET bound == {d \in Devices : address_get_by_device(cache, d) # NoAddress}
      list  == address_list_encode(cache)
      all   == handler_read_range(cache, RangeRequest("READ_ALL", 0, 0), FALSE, MAX_ADDRESS_CACHE).detail
  IN  /\ ToSet(list) = {<<d, address_get_by_device(cache, d)>> : d \in bound}
      /\ Len(list) = Cardinality(bound)
      /\ {address_get_by_index(cache, n) : n \in 0 .. MAX_ADDRESS_CACHE} \ {NoDevice} = bound
      /\ \A d \in bound :
           LET address == address_get_by_device(cache, d)
           IN  address_get_by_device(cache, address_get_device_id(cache, address)) = address
      /\ all = [items |-> list, first |-> list # << >>, last |-> list # << >>, more |-> FALSE]

\* An entry in use is only given up for another device when none is free; then
\* it is not static, and it is the one nearest expiry of the bound ones that are
\* not protected, or a waiting one if there is no such (address_remove_oldest).
EvictsNearestExpiry ==
  [][\A i \in Slots :
       LET displaced  == InUse(cache[i]) /\ InUse(cache'[i])
                         /\ cache[i].device_id # cache'[i].device_id
           expendable == {j \in Slots : /\ j > top /\ Bound(cache[j])
                                        /\ "STATIC" \notin cache[j].Flags}
       IN  displaced =>
             /\ Free(cache) = {}
             /\ "STATIC" \notin cache[i].Flags
             /\ IF Bound(cache[i])
                THEN i \in expendable
                     /\ \A j \in expendable : cache[i].TimeToLive <= cache[j].TimeToLive
                ELSE expendable = {}]_vars

\* The client asks once and then only looks: it finds its device all the same,
\* unless a message of that one conversation was lost or never sent, or the entry
\* kept for the device went (client_task.c, h_whois.c, h_iam.c).
ClientFindsDevice ==
  client # "OFF" ~> found \/ lost \/ dropped \/ client = "OFF"
=============================================================================
