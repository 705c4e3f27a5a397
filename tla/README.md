# Verification of the BACnet stack for ESP32

TLA+ models of the firmware in `main/` and of the BACnet stack it links
(`components/bacnet/`), TLC configurations that check them on small instances,
and TLAPS proofs of some of their invariants for every value of the constants.
`PROJECT.json` lists the runs, the definition-to-source map, the hazards and the
theorems.

Build facts the models rely on: `BACDL_BIP`, `BBMD_ENABLED` 1, `PRINT_ENABLED` 0,
`INTRINSIC_REPORTING` undefined, `MAX_TSM_TRANSACTIONS` 5, `MAX_ADDRESS_CACHE` 1,
`MAX_COV_SUBCRIPTIONS` 128, `MAX_COV_ADDRESSES` 16, 128 entries in each of the
BBMD tables, APDU timeout 3000 ms, 3 retries.

## 1. The system

One FreeRTOS task, `server_task` (`main/server_task.c`), runs the whole stack.
`app_main` waits for an address, initialises everything, registers the service
handlers and starts it. A turn of its endless loop is:

1. `datalink_receive`, at most 50 ms: `bvlc_receive` handles BACnet/IP control
   messages itself and passes the rest to `npdu_handler` and `apdu_handler`, which
   calls one service handler to completion.
2. `tsm_timer_milliseconds(100)`: resends or gives up confirmed requests.
3. `handler_cov_task`: one step of the COV state machine.
4. once in ten turns `handler_cov_timer_seconds`.
5. the schedule's value is copied to analog value 0.

There are no locks and, inside the stack, no second thread. What makes the code
hard is that long-running activities (a confirmed request, a COV cycle of
4 * 128 + 1 turns, a registration) are cut into turns, and that any message may
arrive between two of them; that datagrams are lost, delayed, reordered and
duplicated; that tables are small and reused; and that the power may fail.

| Component | State | Operations | Hard behaviour | Correct when |
|---|---|---|---|---|
| Transaction state machine (`tsm.c`) | `TSM_List`, `Current_Invoke_ID` | reserve, transmit, timer, free, poll | late and duplicate answers, retries, ID reuse, full table | IDs are unique; what is pending has its ID; a user is told the truth; every request settles |
| COV server (`h_cov.c`, `bi.c`) | subscriptions, addresses, task state, change flags | subscribe, cancel, expire, MARK/CLEAR/FREE/SEND, writes | messages between any two steps; shared addresses; shared transactions | tables agree; no orphaned transaction; no change forgotten; subscribers end up with the current value |
| Control loop (`server_task.c`, `schedule.c`, `av.c`) | schedule 0, analog value 0, LED | writes by peers, recalculation and copy every turn | peers and loop write the same value | the calendar, or the operator's manual value, always comes back |
| Device clock (`main.c`, `device.c`) | system clock, PCF8563 registers, `Local_Date`, `Local_Time` | read, write, synchronise, restart | stale copies; BCD and centuries; broken-off transfers; restarts | a synchronised time survives a restart; setting date and time sets both |
| BACnet/IP link (`bvlc.c`) | `BBMD_Table`, `FD_Table` | receive, forward, Write-BDT, register, delete, purge | several BBMDs forwarding the same broadcast; loss; expiry | at most once, everyone reached, no echo; one entry per device, for as long as its lease |
| Services (`apdu.c`, `dcc.c`, `h_rp.c`, `h_rpm.c`, `h_wp.c`, `h_wpm.c`, `h_rd.c`, `h_dcc.c`, `h_whohas.c`) | handler table, communication state | one handler per service | several writes in one message, one refused; segmented and undecodable requests | the reply says what was done; what is refused leaves no trace |
| Objects (`device.c`, `ao.c`, `bo.c`, `bv.c`, `mso.c`, `msv.c`, `ai.c`, `bi.c`, `av.c`, `iv.c`, `piv.c`, `lav.c`, `csv.c`, `msi.c`, `acc.c`, `tl.c`, `np.c`, `schedule.c`) | one table per type; name, number and revision of the device | read, write, command, relinquish, list, rename, renumber | the same thing written sixteen times; priorities; lists and switches written apart | the present value is the command of the highest priority; what is written is read; names identify |
| Address cache (`address.c`), Who-Is/I-Am (`h_whois.c`, `h_iam.c`), client (`client_task.c`) | cache, protected prefix; `found` | ask, bind, expire, displace, list | messages lost, late, overtaken; devices that move; full cache; the client asks once | no device is looked for where it is not; the client finds its device unless disturbed |
| Codecs (`bacdcode.c`, `bacapp.c`, `rp.c` and its like), network header (`npdu.c`, `h_npdu.c`) | none | encode, decode | lengths at boundaries, optional fields, tags above 14 | what is decoded is what was encoded, to the last octet |
| Calendar (`datetime.c`), key list (`keylist.c`) | none; a sorted array | add minutes, compare; insert, find, delete | ends of months and centuries; equal keys | days and minutes come out right; what is in the list is found |
| Start-up (`main.c`, `ethernet.c`) | semaphore, address | events of the driver | address changes after start | the link uses the current address |
| Notification classes, alarms | compiled out (`INTRINSIC_REPORTING`) | | | |

Interactions: handlers run inside step 1 and share every table with steps 2 to 5.
The COV task is the only live user of the transaction table; an answer received in
step 1 frees its invoke ID in that table, the timer of step 2 resends from it, and
the task polls it cycles later. Writes of step 1 set change flags that the task
clears; they also race with step 5. A `TimeSynchronization` writes both clocks; a
read of a time property writes the static copies that later writes build on.
`PROJECT.json` lists every component, also those left out, with the reason, and
every hazard at its line.

## 2. Modules

| Module | Models | Kind |
|---|---|---|
| `TsmTable` | the operations of `tsm.c` as operators on the value of the table | operators |
| `TSM` | a table driven by a user, the timer and the network | state machine, EXTENDS `TsmTable` |
| `TransactionLedger` | what the table promises: a status per invoke ID, no table, no search, no timers | abstract specification, implemented by `TSM` |
| `CovServer` | the COV server with its objects, transactions and the server loop | composition, EXTENDS `TsmTable` |
| `ScheduleControl` | schedule 0, analog value 0 and the last step of the loop | state machine |
| `DeviceClock` | clock, chip and static copies | state machine |
| `Bvlc` | several BBMDs running `bvlc.c`, plain devices, foreign devices, the network | state machine |
| `Properties` | values, arrays, the outcome of reading and writing, the checks of `h_wp.c` | operators |
| `CommandableObjects`, `ValueObjects`, `OtherObjects` | the object types: tables, lists, reading, writing | operators |
| `Device` | the object table, the device object, object list and names | operators, EXTENDS the object types |
| `Services` | the handlers, each a function from database and request to database and reply | operators, EXTENDS `Device` |
| `Server` | requests in any order on the objects of one type, under communication control | state machine, EXTENDS `Services` |
| `AddressCache` | `address.c` as operators on the table, and the range read of the list of bindings | operators |
| `Binding` | cache, client task, the other devices and the network | composition, EXTENDS `AddressCache` |
| `AddressList` | the list of bindings read in parts | state machine on `AddressCache` |
| `Octets`, `ApplicationData`, `CompositeData`, `Reader` | primitive and composite values as octets; the reader of messages | operators |
| `PropertyCodecs`, `MessageCodecs` | the messages of each service as octets | operators, EXTENDS `Reader` |
| `Messages` | which encoder writes a message, which decoder is called for its octets | operators, EXTENDS both |
| `Exchange` | a message from encoder through network header to decoder, for any encoder and decoder | state machine, EXTENDS `MessageCodecs` |
| `Calendar`, `KeyList` | reckoning with dates; the sorted list | state machines |
| `TsmTable_proofs`, `TSM_proofs`, `CovServer_proofs`, `Library_proofs`, `Bvlc_proofs`, `Binding_proofs`, `Server_proofs` | theorems | proofs |
| `SlotFacts` | a non-empty set of natural numbers has a least element; what holds of one turn of a loop and passes from each to the next; counting the places of a table | lemmas |
| `MCTSM`, `MCCov`, `MCSchedule`, `MCDeviceClock`, `MCBvlc`, `MCServer`, `MCBinding`, `MCLibrary` | instances for TLC | |

Definitions keep the names of the code where they stand for one variable or one
function. A definition directly before one that it resembles, with a name such as
`FreeKeepsState` before `Free`, is a mutant: the same code with a plausible bug,
used to show that a property notices (section 4).

### TsmTable, TSM, TransactionLedger

`TSM_List` is a function from `0 .. MaxTransactions - 1` to records with the fields of
`BACNET_TSM_DATA`; ID 0 marks a free entry and "idle with an ID" means failed, as in
the code. Timers count calls of `tsm_timer_milliseconds` instead of milliseconds
(30 calls of 100 ms). The stored PDU is only an identity: in `TSM` the number of the
request, in `CovServer` the addressed notification. `NextUnused` stands for the loop
of `tsm_next_free_invokeID`: up from `Current_Invoke_ID`, around from 255 to 1, to the
first ID no entry holds.

`TSM` has one action per caller: `SendRequest` and `SendTooLong` (all `s_*.c` senders
are alike; the second gives the ID back because the encoded request does not fit),
`Poll` (the FREE pass of `h_cov.c` and every other user), `Timer` (step 2 of the loop),
`Answer` and `SegmentAck` (`apdu_handler`). The network is not a variable: an answer to
any request ever transmitted may arrive at any time, any number of times, which
covers loss, delay, reordering and duplication of requests and answers.
`requests` and `answered` are history.

`ImplementsLedger` is the refinement: the mapping reads the status of each ID off the
table, and every step of `TSM` is a step of the ledger or leaves it alone.

### CovServer

One variable `turn` says which step of the loop is next, so that every step happens
once in a turn and messages arrive between any two steps of the COV task. `fsm` is
`cov_task_state` with its static index. `cov_send_request` is `CovSendConfirmed` and
`CovSendUnconfirmed`; their parameter is what `datalink_send_pdu` returned, because the
code keeps the request flag set if it failed but leaves the transaction to the
timer. Expiry, cancellation and renewal release the transaction of the
subscription (`Released`), and cancellation and expiry drop unused addresses.
`owner` (who subscribed) and `heard` (the value last handed to the link for a
subscription) are history.

Dead data is left out: an invalid subscription is `NoSubscription` whatever its fields
still hold, an invalid address `NoPeer`, and a notification carries what
`Binary_Input_Encode_Value_List` encodes: present value seen through the polarity,
and the out-of-service flag. `DeviceCommunicationControl` is not registered by this
firmware, so communication is always enabled. The request's answer is not part of
the state. `Writable` says which properties of which object peers write in an
instance: the present value and out-of-service, or only one of them.

`CovAssumption` asks for `MaxSubscriptions + MaxTransactions <= MaxInvokeID`
(128 + 5 <= 255): it keeps an ID from coming round again while a subscription
remembers it. In the firmware the timer settles a request in at most
30 * (1 + 3) = 120 turns, well within the 513 turns of a COV cycle, so no answer is
needed for the FREE pass to find it concluded.

### ScheduleControl

A turn receives one message, which writes any number of the writable properties
(`WritePropertyMultiple`), and then `Link` recalculates the schedule and copies its value.
No service can write the weekly schedule, so `Schedule_Recalculate_PV` always yields the
default, 21.0. The values written are tagged, because the handlers test tags. `led` is
the level of the LED's pin, `manual` is history.

### DeviceClock

A date is a year and a day of it, a time a moment of the day. Kept exactly is the
year: counted from 1900 on the wire and in `struct tm`, from 2000 in BCD in the chip,
modulo 2^16 in `BACNET_DATE`. `Local_Date` and `Local_Time` start as zero, and `mktime` of the
zero date is a day of the year -1. A transfer to the chip may break off after any of its registers (`BrokenOff`),
and at start the chip may not answer. Clock and chip do not drift apart. `synchronised`
and `dateSet` are history.

### Bvlc

Each BBMD has its own two tables and runs the handlers of `bvlc_receive`; the datagrams
under way are a bag with one element per receiver, so a broadcast on a subnet is one
element for everyone on it but the sender. The network reorders (the next datagram
is any of the bag) and loses (`Lose`). One broadcast is under way at a time: no handler
keeps anything of a message, so two broadcasts do not interfere except through
tables, and those change at any time. Left out are unicast messages, the two
read services, and address translation, which no code of the firmware turns on.
`TimerCalls` says whether `dlenv_maintenance_timer` may be called when time passes: the
main loop never does, so `{FALSE}` is this firmware. `bvlc_registry` lets each second be told
to the timer or not, which includes this firmware and any loop that would call it. `lease`, `heard`, `undisturbed` and `lost` are history.

### Properties, objects, Device, Services, Server

An object type is a table of records, one per instance; its module part has, in the
order of the C file, the property lists, the initial table, which instances there
are and are listed, `*_Read_Property` and `*_Write_Property`. A `Write_Property`
yields the new table and whether, and if not why not. What the types share (`Read`, `Write`,
`ObjectProperties`, the checks `WPValidate*`) is stated once; where a file differs, and they do,
the difference is stated: analog outputs keep whole percent, analog inputs are settable only
out of service, a binary value's levels are read one place too far, and so on.
A REAL is counted in halves, a string is known by its text, encoding, class of
length and printability.

`Device` dispatches by type and holds the device object. `Services` are the handlers:
`handler_write_property_multiple` takes one `wpm_step` for each access, up to the first
that is refused or does not decode. `Server` adds what is around them: registration,
communication state and its timer, and `commands`, the history of what was
acknowledged. The instance registers what `main.c` registers, and DeviceCommunicationControl,
without which the communication state would never change. A behaviour is about the requests to one type; the device
object is one of them, with the object list and names of all. The types share state in one place only,
the end of a turn of `server_task` (`server_task.c:79-96`): unless schedule 0 is out of service it goes back to its default
(`Recalculated`; no service can write a weekly schedule), and a REAL value of it becomes that of analog value 0 (`Applied`).
That is the action `Link`, and `turn` says whether the loop is about to receive or to link, so that
a request is always followed by `Link` before the next. The requests to analog values therefore include
those to schedule 0. Integers the code keeps in 8 or 16 bits are cut where they are stored (`WriteUnits` takes
the room of its caller: 8 bits in `ai.h`, 16 in `av.h`, `acc.h`, `iv.h`, `piv.h`, `lav.h`).

### AddressCache, Binding, AddressList

A slot is the record of `address.c`, whose device and address stay when its flags are
cleared. `Flags` is the set of the bits that are set; `BAC_ADDR_SHORT_TTL`, which no code
sets, and `BAC_ADDR_RESERVED`, gone before the function that sets it returns, are left
out. In `Binding` messages are a set, so that they are delayed and overtake each other;
`Lose` takes one away; a Who-Is reaches a device in one step and its answer is a message.
`handler_i_am_bind` is registered by `main.c`; `IAmIsAdded` is `handler_i_am_add`, for a
firmware that registers that. The application of the model uses what `address.h` offers and this
firmware does not call: time to live, protection, removal, expiry and the restart that keeps
the memory. The client is `client_task`, loop by loop; that it may run is an
assumption, since `app_main` does not start it. `AddressList` is `AddressCache` with
more slots and nothing but the list.

### Octets to Messages

A message is a sequence of octets, built as in the code and taken apart by decoders that
return length and value. Numbers stay below 2^31 (TLC has no larger); a REAL is its
octets. A decoder is the sequence of fields it expects (`Reader`); the two ways of the code to
ask for a context tag are kept apart. `Messages` chooses encoder and decoder as `apdu_handler`
does; `Exchange`, whose encoder and decoder are constants that `Library.cfg` sets to those of
`Messages`, sends each message of a library through `npdu_encode_pdu` and `npdu_handler`, over
each of a set of routes. Messages
that are cut short or malformed are not sent, so the comparisons with the length that
remains are left out.

### Calendar, KeyList

`Calendar` adds minutes step by step, from moments before the ends of months, leap years
and centuries, and compares what it gets with the minutes elapsed. `KeyList` inserts and
deletes with keys that come twice, in every way `keylist.h` offers, and looks for every key
in every state.

## 3. Runs

Every passing run is exhaustive within its bounds.

| Run | Question | Bounds |
|---|---|---|
| `tsm` | Are the table, the user's view, the ledger and progress right? | 2 transactions, 3 IDs, timeout 2, 1 retry, 4 requests |
| `cov_tables` | Do the subscription, address and transaction tables agree? | 3 subscribers' contexts of 2 peers, 2 slots, 2 addresses, 1 transaction, lifetimes 0 and 1, 2 turns to the second |
| `cov_changes` | Is a change between the passes forgotten, do two subscribers who share one transaction both get theirs? | 2 subscribers with an object each, of which another property is written, 2 slots, 1 transaction |
| `cov_lost_change` | Does the COV flag outlive the check of all subscriptions? (violated) | 2 subscribers of one object |
| `schedule_link` | Who wins, the loop or the peers? | 3 real numbers, 2 booleans, NULL |
| `clock_restart` | Does a time survive a restart, does date-then-time work? | 2 days a year, 2 moments a day, set to 1999, 2000, 2099; passing into 2000, 2001, 2100 |
| `bvlc_forward` | Who hears a broadcast, and how often? | 2 BBMDs on 2 subnets, a device on each, 2 foreign devices, 2 table entries |
| `bvlc_registry` | Is the foreign device table right under time? | 3 devices for 2 entries, times to live 0 and 2, grace 2, 1 or 3 seconds at a time, the timer called or not |
| `server` | Does a reply say what happened, for every object type? | 2 objects of a type, 3 of the 16 priorities, right and wrong values, units that fit their C type and that do not, pairs of accesses, revisions up to 4 |
| `segmented_write` | Is a segmented WritePropertyMultiple aborted? (violated) | the same |
| `binding` | Is a device only looked for where it was last heard, and is it found? | 3 devices, 2 slots, 4 addresses, 2 calls of the application or moves |
| `library` | Are messages decoded as encoded, dates reckoned right, keys and ranges found? | 162 messages on 4 routes; 4 additions of 6 steps from 5 moments, years to 2105; 3 keys, 5 nodes, chunks of 2; 4 slots |

Why the bounds are enough to be interesting. `tsm`: the table fills, every entry is
reused, and the fourth request takes the ID of the first, whose answers may still
arrive; a late answer in the second lap can complete the wrong request, which is why
`DoneMeansAnswered` and `FailedMeansAllRetries` speak of one lap (255 requests in the
firmware). `cov_*`: two slots are the fewest that let one be before and one behind the
task's index, two peers the fewest that share and compete, one transaction the
scarcest supply; the retry timer runs out within a cycle, as in the firmware.
`cov_changes` has confirmed subscribers only, since only those share something.
`clock_*`: the years lie on both sides of 2000 and 2100, where two-digit registers and
the three ways of counting years differ. `bvlc_forward`: two BBMDs are the fewest that
forward to each other, and each subnet has a plain device, the one that suffers when a
BBMD repeats too much or too little. `bvlc_registry`: one device more than entries,
and intervals on both sides of what an entry has left. `server`: priorities 1, 6 and
16 are the two ends and the one treated differently; of a commandable type both present values
and every kind of refusal occur, and the second object is there to be commanded, or not,
in the same request as the first. `binding`: with two slots for three devices
entries are displaced; one address is free to move to; two calls suffice for each
operation after each other and between any two messages (three were tried once: 751 191 states, no
violation). `library`: the numbers, lengths and tag numbers are those on both sides of each change of
encoding; moments lie before each kind of turn of the calendar; holes in the list of
bindings lie anywhere. Bounds that are not in the program are `MaxRequests` (requests in a
run), `PassYears` (years time may pass into), `MaxRevision` (renames), `MaxRecords` (records logged),
`MaxCalls`, `MaxSteps` (additions), `LastYear` and `MaxCount` (nodes).

Conditions in the properties:

- `AtMostOnce` supposes tables of one kind of mask that list each BBMD once, every
  foreign device registered once, and tables that do not change while the broadcast is under
  way; they may differ from each other. `EveryoneReached` supposes the same of the changes, and identical
  tables of one kind of mask that list every BBMD. This is what annex J of the standard asks of an
  administrator. `NotEchoed` supposes nothing.
- `EveryoneReached` leaves out the BBMD a foreign device hands its broadcast to (the code does
  not pass such a message to its own application), and other subnets when a BBMD
  itself broadcasts (its own broadcasts leave its subnet only if others forward them).
- `NotifiesItsSubscriber` and `OnlySubscriberOrTimeEnds` hold only while there is an address
  entry for every peer; the firmware has 16 for 128 subscriptions (section 6).
- `WrittenIsRead` speaks of what is read in the next turn, that is after `Link`. While the value of schedule 0 is a REAL,
  what is read of the present value of analog value 0 is the schedule's, whatever was acknowledged (`Expected`; section 6). It leaves out commands,
  which `PresentValueIsCommanded` is about, the date and
  time, strings, which `csv.c` re-encodes, and numbers too large for the C type their property is
  kept in (`Room`, `Fits`): retries and the units of analog inputs are cut to 8 bits, timeout, vendor,
  port, network number and the other units to 16 (section 6). The run writes units on both sides of that limit.
- `RangeIsPartOfList` is about ranges that do not start after a hole of the table (section 6).
- `ClientFindsDevice` gives up once a message of the conversation was lost or not sent, or the
  entry for the device was displaced, removed or expired: the client does not ask again.
- `RestartKeepsTime` supposes a synchronisation that reached the chip and a year of
  this century; the chip cannot hold another.

Fairness:

- `TSM`: weak fairness of `Timer` and of each `Poll`. `server_task` calls the timer in every
  turn of an endless loop that waits at most 50 ms, and the COV task looks at every
  subscription in every cycle. Nothing is assumed of the network.
- `CovServer`: weak fairness of `Next`; the loop takes turns by itself (`turn`), so this says
  only that it does not stop. `EventuallyConsistent` further supposes that from some
  time on nothing is written or subscribed and what is sent leaves the device (`Quiet`);
  that peers answer is not assumed, nor that a datagram arrives.
- `ScheduleControl`: weak fairness of `Received` and `Link`: a message holds finitely many writes,
  and the loop goes on. `ManualValueHolds` and `CalendarReturns` also hold while peers
  write in every turn.
- `Binding`: weak fairness of the client's turns, an endless loop with a delay, and of the arrival of
  each message of its conversation, if only to be ignored while communication is
  disabled. `Lose` may take any message before it arrives, and then `lost` says so.
- `DeviceClock`, `Bvlc`, `Server` and the modules of `library`: safety only.

No run disables the check for deadlock.

## 4. Mutants

For each property of each passing run `PROJECT.json` names a mutant, a definition
with a bug such as a forgotten reset, a skipped last entry, an address not compared,
an off-by-one in a timer. TLC finds the property violated in each, under the same cfg.

## 5. Proofs

| Theorem | States |
|---|---|
| `TSM_proofs!TypeCorrect` | `Spec => []TypeOK` |
| `TSM_proofs!InvokeIDsAreUnique` | `Spec => []UniqueInvokeIDs` |
| `TSM_proofs!PendingAlwaysHasID` | `Spec => []PendingHasID` |
| `TsmTable_proofs!UnusedExists` | while an entry is free, an ID is unused: the endless-looking search of `tsm_next_free_invokeID` ends |
| `TsmTable_proofs!NextUnusedProperty` | the ID it returns is in 1..MaxInvokeID and held by no entry |
| `TSM_proofs!DoneIsAnswered` | `Spec => []DoneMeansAnswered` |
| `TSM_proofs!FailedAfterAllRetries` | `Spec => []FailedMeansAllRetries` |
| `TSM_proofs!TableImplementsLedger` | `Spec => ImplementsLedger` |
| `CovServer_proofs!TypeCorrect` | `Spec => []TypeOK` |
| `CovServer_proofs!AddressesExact` | `Spec => []AddressTableExact` |
| `CovServer_proofs!NotifiesSubscribers` | `EnoughAddresses /\ Spec => []NotifiesItsSubscriber` |
| `CovServer_proofs!SubscriptionsUnique` | `EnoughAddresses /\ Spec => []NoDuplicateSubscription` |
| `CovServer_proofs!SubscriberEndsIt` | `EnoughAddresses /\ Spec => OnlySubscriberOrTimeEnds` |
| `CovServer_proofs!ChangesPending` | `EnoughAddresses /\ OneSubscriberEach /\ PolarityKept /\ Spec => []ChangeIsPending` |
| `CovServer_proofs!TransactionsOwned` | `EnoughAddresses /\ RetriesEndInACycle /\ Spec => []TransactionsAreOwned` |
| `Library_proofs!TypeCorrect` | `Spec => []TypeOK` |
| `Library_proofs!RestartCorrect` | `Spec => RestartKeepsTime` |
| `Library_proofs!DateSurvives` | `PassYears \subseteq 0 .. LastKept /\ Spec => DateThenTime` |
| `Library_proofs!KeysAreFound` | `KeySpec => []FoundWhereItIs` |
| `Library_proofs!MinutesAreReckoned` | `CalendarSpec => []ReckonedExactly` |
| `Library_proofs!TagsAreRead` | of every number, class and length: `decode_tag_number_and_value` reads what `encode_tag` wrote |
| `Library_proofs!ValuesAreRead` | of every value of eleven kinds: `decode_context_*` reads what `encode_context_*` wrote, in the field of that number alone |
| `Bvlc_proofs!RegistrationsUnique` | `Spec => []UniqueRegistrations` |
| `Bvlc_proofs!ListedForItsLease` | `Spec => []ListedThroughLease` |
| `Bvlc_proofs!NeverEchoed` | `Spec => []NotEchoed` |
| `Bvlc_proofs!TypeCorrect` | `Spec => []TypeOK` |
| `Bvlc_proofs!DeliveredOnce` | `Spec => []AtMostOnce` |
| `Bvlc_proofs!DeliveredToAll` | `Spec => []EveryoneReached` |
| `Binding_proofs!LookupsAreAnnounced` | `Spec => []BoundAsAnnounced` |
| `Binding_proofs!NearestExpiryGoes` | `Spec => EvictsNearestExpiry` |
| `Binding_proofs!ListsAreBindings` | `Spec => []ListsWhatIsBound` |
| `Binding_proofs!PartsAreRead` | `ListSpec => []RangeIsPartOfList` |
| `Server_proofs!CommandsShow` | `Spec => []PresentValueIsCommanded` |
| `Server_proofs!RefusedIsUndone` | `Spec => RefusalLeavesNoTrace` |
| `Server_proofs!DirectoryRevised` | `Spec => RevisionTellsOfChange` |
| `Server_proofs!NamesAreUnique` | `Spec => []NamesIdentify` |
| `Server_proofs!ListedIsRead` | `Spec => []EveryListedPropertyReads` |
| `Server_proofs!WritesAreRead` | `Spec => []WrittenIsRead` |

They hold for all values of the constants that satisfy the named assumptions of the
modules (`TableAssumption`, `RequestsAssumption`, `CovAssumption`, `SubscriptionAssumption`,
`ClockAssumption`, `KeyListAssumption`, `CalendarAssumption`, `BvlcAssumption`, `CacheAssumption`, `BindingAssumption`,
`MaxObjectsAssumption`, `ServerAssumption`), which TLC evaluates for the instances it checks. `TableAssumption` needs `MaxTransactions <= MaxInvokeID`
(5 and 255): with more entries than IDs the search of the code would not end.
`BvlcAssumption` keeps BBMDs and other devices apart (every node is one or the other), `BindingAssumption` the device's own instance and
those it looks for, and what a slot never used holds and what is announced. `ServerAssumption` says that a request is about objects of one type, and that no two
accesses of a WritePropertyMultiple name the same property of the same object: an error names only these two, so
with a second such access its sender could not tell which was refused, and what was promised would be anyone's guess.
It also says that a written value is one the decoder returns (`WellFormed`): an unsigned integer is a natural number, a
string has its encoding and length. Any `UnderTest` of the registered object types is allowed.
`DateSurvives` lets time pass only into years that fit the 16 bits of
`BACNET_DATE` (`LastKept`); a later one would be cut. `CalendarAssumption` starts from valid dates and ends the years before
2155, which stands for any year in the octets of a date; the years before 1900 are kept out by the bound of `Reckonable`.

- TSM. The inductive invariant `IInv` is typing, unique IDs, and "what is pending holds
  an ID and has time left". Uniqueness alone is not inductive: `Reserve` takes the first
  free entry, and only with typing and the property of `NextUnused` does the new ID differ
  from every other; `Free` touches the first entry with the ID, which clears the ID from the
  table only if no second has it. `TsmTable_proofs` proves
  for each operator that it keeps a well-formed table well-formed (`WellFormed`), so
  that `TSM_proofs` has one short lemma per action; `CovServer` can cite the same lemmas.
  `UnusedExists` is a counting argument: the IDs held are the image of fewer than
  `MaxTransactions` entries.
- The lap (second part of `TSM_proofs`). What a user sees of a request depends on the table only through
  its ID, so uniqueness does not suffice. `LapInv` says that until the counter wraps around request
  `r` has ID `r`, that a held entry is the entry of a request that still waits, with as many
  attempts as its retry count says, and that a failed one has used them all. An entry is
  therefore released only by an answer to that very request. After the wrap an old answer can
  release a new request, so neither property is claimed there.
- The ledger (third part of `TSM_proofs`). The initial table shows the empty ledger; each action of `TSM` maps to
  one action of `TransactionLedger` or leaves the view alone. That the ledger has room when the
  table has an entry free is a counting argument: the IDs in use inject into the entries.
- CovServer. `StepKinds` sorts all steps into three: a subscription, one that ends subscriptions and drops
  unused addresses, and one that keeps address, object, process and owner of each. With that,
  `AddressTableExact` is inductive together with the types: a subscription taken over
  already has the address of its new owner. The next three need
  `OwnInv` (addresses exact, each subscription's address its owner's, no two alike) and
  `EnoughAddresses`, an address entry for every peer, as the runs have it: then a table with no room for
  another peer would hold as many addresses as entries but leave one peer out
  (`RoomForAddress`), and no subscription is ever without address. With fewer entries than peers
  they do not hold (section 6). `ChangeIsPending` is inductive with them once no object has two
  subscribers (`OneSubscriberEach`) and no polarity is written (`PolarityKept`): CLEAR drops the flag only for a
  subscription that is to be notified, and no other needs it. Without the first condition
  `cov_lost_change` shows a change lost, without the second a write flags nothing.
  `TransactionsAreOwned` is a matter of time. An answer may release an invoke ID while the subscription still
  waits for it, and the next to send is given what is released. `WaitInv` bounds both ends: no request has more
  calls of the timer left (`Left`) than there are until FREE comes to its subscription (`CallsToFree`), so FREE finds each
  one answered or given up; SEND therefore starts with none waiting and hands out at most one ID for
  each subscription, fewer than there are (`Recent` dates them by `Age`). The condition is `RetriesEndInACycle`:
  4 x 30 calls are no more than 3 x 128 + 1 in the firmware as it starts (apdu.c:52-58, h_cov.c:75, one call in each pass of
  server_task.c). A peer may write `APDU_Timeout` and `Number_Of_APDU_Retries` (device.c:1520-1535); with values that
  keep a request longer than a cycle nothing is proved. The condition suffices; that it is necessary is not claimed.
- DeviceClock. `Inv` is typing and `ChipFollows`: while synchronised and in this century, the
  registers decode to the clock. It rests on `BcdRoundTrip` (encoding and decoding a
  number below 100 gives it back) and `LaterAlike` (chip and clock advance alike,
  which needs the case of the turn of a year). `RestartKeepsTime` is an action property
  and follows from `Inv` before the step. For `DateThenTime` the copies the device keeps matter: a
  write to `Local_Time` sets the clock from the date last read, not from the date last written. `DateFollows` keeps
  the three in order (written, last read, clock), so a time written after a date takes the clock to no date
  before the one written and to none later than it had.
- KeyList (second part of `Library_proofs`). The search by halving is right if the list is sorted, and the list stays sorted if the search
  comes to the right place, so both are one invariant (`KeyInv`). The halvings are counted: after each, the places
  before the left end hold smaller keys and those behind the right end greater ones (`Between`), and at least one place less
  is left (`OneRound`, `SearchTurns`), so that as many turns as there are nodes end it (`SearchEnds`). `FindIndexProperty` says what
  that means to a caller. With equal keys the search may stop at any of them; every way to the key then stops at the same. That
  `Keylist_Next_Empty_Key` comes to a free key counts the keys that are taken (`SomeKeyFree`).
- Calendar (third part of `Library_proofs`). The loops over months and years are recursive functions; each adds up to a closed form
  (`DaysBeforeClosed`, `DaysOfYearsClosed`), by the least month or year that could be an exception. From the closed forms years and
  months follow each other without gap or overlap, so a day number is taken apart into one valid day, and that day has
  the number it came from (`DaysApart`). `AddedMinutes` does the arithmetic of the code, which divides towards 0 and steps
  back over midnight separately. `Reckoning` is then inductive: start and moment are proper (valid, of the right weekday),
  as many minutes apart as were added, with the same seconds. The order of two moments is that of their fields (`MomentsTell`), and
  the closed form of the Gregorian calendar in `ReckonedExactly` counts the same days from another first one (`ClosedDaysCount`).
- Octets (fourth part of `Library_proofs`). A number is the sum of its octets by weight (`JoinedIs`); that of a negative one is the
  same once the first octet counts as signed, and in the width the encoder chose it does (`SignFirst`). In `TagsAreRead` each form of a tag
  has its lemma (`ShortTag` to `LongTag`), the octets are found by their places (`TagPlaces`, `LengthPlaces`), and what follows is an
  arbitrary message. `FieldRead` is then the same for a field, `InContextIs` passes the content to its decoder, and each kind of
  content has its lemma (`UnsignedCarried` to `CharacterStringCarried`). `ValuesAreRead` puts them together; its
  hypotheses are the ranges of the types: 32 bits, years 1900 to 2155 (an octet from 1900), ten bits of type and 22 of instance,
  strings that fit the receiver's buffer and an APDU. It reaches beyond what TLC sees, which has no number above 2^31 - 1. Bit strings
  are not among the kinds: their octets are folds.
- Bvlc. `Inv` is a type of the foreign device table and uniqueness. The proof follows the
  four handlers that write the table; a registration takes the entry of the device if
  there is one, so a second cannot arise. For the lease, `LeaseInv` says that an
  entry has at least as many seconds left as its device was promised, so no call of the timer, early,
  late or left out, ends it before; that it ends at all is false in this firmware (section 6). For
  the echo, `EchoInv` says that everything under way leads away from the subnet the broadcast came
  from: a BBMD skips itself in its tables, and none is forwarded what comes from its own subnet.
- Bvlc, delivery. A broadcast spreads over a tree: the first BBMD to get it (`Home`), the other BBMDs
  below it, below each BBMD its subnet and the foreign devices registered with it. `Route` says that every
  datagram runs along an edge of the tree, in the form its sender gives it. For
  `AtMostOnce`, `Once` says that each node has heard of the message at most once, copies under way included, and
  `AlongTree` that whoever is touched by it has a parent that relayed it: when a BBMD gets its copy, those below it are
  therefore untouched. The proof showed that the tables need not be identical, as the property had supposed, but that each
  must list a BBMD once. For `EveryoneReached`, `ReachInv` says that each node a broadcast is meant for has it, or
  a copy is on its way to it, or to a BBMD above it that has not relayed it yet. The proof of `TypeOK` corrected the model: the initial
  value of the timers was outside its type where no device asks for a time to live.
- Binding. `BoundAsAnnounced` is about the slots that are bound: one that is freed keeps the old address, and a
  slot given to another device keeps it until the answer comes. `Sound` (types, no slot with odd
  flags, one slot for each device) is needed because an I-Am updates only the first slot with the device's
  instance; `AsHeard` and `Others` tie each bound slot to what was last announced. That the displaced entry is the one nearest to its end
  (`EvictsNearestExpiry`) follows from what the search returns (`OldestIsShortest`), and from the other operations giving no slot in use to
  another device (`NoneDisplaced`). `ListsWhatIsBound` compares four ways through one table. The sequence a loop builds
  from some of its slots (`InOrder`) holds exactly these, in their order, after each turn (`GrowOrdered`,
  `InOrderProperty`), and what follows one of them is the sequence of the slots behind it (`InOrderRest`): so a range
  read, which seeks first and then goes on, gives what the list gives. That each device is listed once and with the address its lookup
  returns is `Sound` again; that what is bound has an address at all is an invariant of its own (`HasAddress`).
  `RangeIsPartOfList` needs no invariant: any part of any table is cut out of the list as asked. The positions the code reckons are
  those asked for (`FromToAsked`), the seek leads to the first of them unless a slot is skipped there, which the property leaves out since
  it is then wrong (section 6), and what fits is a prefix of what follows (`InOrderRest`).
- Server. Each `Write_Property` function is looked at once, for what it leaves of its table when it refuses
  (`Kept`); the dispatch by type and the handlers add little to that. For the directory, `Follows` says of each write that the
  revision does not fall, and that the number and name of the device are the same where it is the same; the
  list of objects and all names depend on the device only through these two (`DirectoryFollows`). A
  WritePropertyMultiple changes the database several times in one step: its accesses are the turns of a loop
  (`Progress`), and what each turn keeps all of it keeps (`StepByStep`). For `PresentValueIsCommanded` the invariant is `CommandInv`: the
  priority array of every object of a commandable type is what was promised, level by level and as it is stored (an analog output
  cuts halves). A loop that breaks off has carried out exactly the accesses before the one its error names (`CarriedOut`), which is
  where `ServerAssumption` is needed: the error must not fit an earlier access. What is read is the
  element of lowest index that is not NULL (`PresentValueRead`, for each of the five types). `MaxRevision` keeps the
  revision, a `uint32_t`, from wrapping around. For `NamesIdentify` the invariant is that no object of
  another type has the device's name (`Apart`); it rests on what `FlattenSeq` returns (`FlattenRange`), since a name is looked for
  in the object list, and that is put together type by type (`ListHolds`).
  `EveryListedPropertyReads` compares, for each type, the lists that ReadPropertyMultiple of ALL goes by with the cases of
  the type's `Read_Property` switch. A case reads a field, so the invariant is that the tables keep the objects they were
  started with, and these their fields (`Shaped`, in `BaseInv`); `Standard` turns the agreement of lists and
  cases into what is read, and `AllOfLists` says that ALL is the three lists together. For `WrittenIsRead`
  a lemma of each type (`AnalogInputStores` to `DeviceStores`) lists what an acknowledged write can have been and the
  field it went to, which the lemma about reading the type finds again; a new number of the device is read under that number.
  The next turn is one step later, so the invariant, `HoldInv`, says what holds in between as well: after the request what
  was written is what is stored (`RequestHolds`), and after `Link` still, but for analog value 0 where
  the schedule's value was copied (`LinkHolds`, from `LinkFields`, which lists what `Link` changes field by field).

Only model-checked: everything under fairness (TLAPS proves no liveness here, nor
ENABLED), the schedule, and the codecs of whole messages. The theorems that take an
operator for induction cannot be used; where a loop counts, the least number that could be the exception
does instead (`StepByStep` for sequences built in turns, `SearchTurns` for halvings, `DaysBeforeClosed` for months). What would
need induction over the data itself stays out: what a codec does with every message (`RoundTrip`), whose octets are
taken apart by decoders that call each other. `TagsAreRead` and `ValuesAreRead` prove the tags and values it is made of.

## 6. Where code and text disagree

Shown by a run, see "findings" in `PROJECT.json`:

1. `cov_lost_change`: a change is lost when it falls between the checks of two
   subscriptions of the same object (`h_cov.c`).
2. `segmented_write`: a segmented WritePropertyMultiple is acknowledged although nothing
   was written (`h_wpm.c`).

Met while modelling, without a run of their own:

- Foreign device registrations never end in this firmware: the timers its main loop calls are those of `tsm.c` and
  `h_cov.c` (`server_task.c:51-58`), and nothing calls `dlenv_maintenance_timer`, the only caller of
  `bvlc_maintenance_timer`. `bvlc.c:1286-1289` says of an entry whose time expires that it "shall be cleared". Entries
  their devices do not delete fill the table for good.
- `server_task.c:93-94` writes the schedule's value with "Priorité 16 (la plus basse)", and
  `av.c:183` says it sets the value "at a given priority 1..16"; the priority is not used, and
  the loop overwrites what was commanded with a higher one.
- `device.c:1487`: a write to `Local_Date` sets the clock from the copy of the time last
  read, one to `Local_Time` from that of the date.
- Writing Polarity inverts what a subscriber sees without flagging a change
  (`PolaritySet`); the runs write the other two properties.
- With the subscription table full, a cancellation that has nothing to cancel is
  refused; with the address table full, a subscription is accepted, never
  notified, and anybody's to cancel.
- SEND starts at slot 0 in every cycle: unresponsive subscribers in low slots can
  keep a later one waiting for as long as an object goes on changing.
- The LED follows writes of peers, not the value the loop sets. A time written through
  `Local_Date` is not written to the chip. The chip's voltage-low flag is masked away.
- With one unicast and one directed mask in identical tables, a forwarded
  broadcast can be heard twice; a Write-BDT that does not fit has replaced the table all the same;
  a foreign device's remaining time above 65535 seconds is reported cut to 16 bits.
- `apdu.c:382-383` says that with only initiation disabled all APDUs shall be processed;
  `apdu_unconfirmed_dcc_disabled` drops every unconfirmed one but Who-Is, and with it the
  I-Am a client waits for and the synchronisation of time.
- ReinitializeDevice acknowledges a restart that never happens (`device.c:471-507`).
- A binary value's priority array read by element is off by one (`bv.c:313`), and past the table
  for the last element of the last object. It can be relinquished, but not commanded, at priority 6.
- `APDU_Timeout`, `Vendor_Identifier`, the UDP port and the network number are acknowledged and
  cut to 16 bits, the number of retries to 8. Units are cut to 8 bits by analog inputs (`ai.h:50`) and to 16
  by the other types whose units can be written.
- A write to the present value of analog value 0 is acknowledged and overwritten in the same turn while schedule 0 has
  a REAL value, which it has from the start (`server_task.c:89-95`).
- A range of the address bindings that starts after a hole of the table starts with an entry that
  is no binding, and the search for the next may leave the table (`address.c:820`, `871`), against
  the description at `address.c:719-723`. The second pass over the pending entries to displace ignores
  the protected prefix. The lifetime meant for entries asked for again is never
  used, since no code sets the short one.
- The client asks once, and `found` is latched: it goes on with an address that is gone.
- Messages whose encoder and decoder do not agree, left out of the library (`MCLibrary`) or
  sent in the form that works: WritePropertyMultiple loses the priority (`wpm.c:250-251`), and
  `wp.c:164` overwrites a length; the state BOOLEAN (`bacpropstates.c:62`), recipients of time
  synchronisation (`timesync.c:284`), days of a calendar given by week (`calendarentry.c`),
  a special event, an empty day, an empty answer to GetEventInformation; an empty list
  in a ReadPropertyMultiple answer reads as one NULL; a BOOLEAN that is TRUE in a ReadRange answer
  makes the decoder skip an octet too many (`readrange.c:427-430`); the length of the error of a private transfer, and that of a
  COV notification, come out too small.
- Dates are sent as years 1900 to 2155; reckoning before 1900 wraps around. -8388608 takes four
  octets where three are enough. Between opening and closing tags above 14 a decoder skips one octet
  too few (`bacdevobjpropref.c:304`). `KEY_LAST` is never true (`key.h`).

## 7. Not modelled

Messages that are cut short or malformed, apart from undecodable ones at the services;
segmentation (not supported by the stack); printing and parsing of values and the
tables of names for it; intrinsic reporting, which is compiled out; handlers that are
never registered and only print; the schedules by week and by exception, which no
service can write; the drivers and sockets; the change of the address after start.
Components with reasons are in `PROJECT.json`.

## 8. Plan

Done, in this order: `TsmTable`/`TSM`/`TransactionLedger`, `CovServer`, `ScheduleControl`,
`DeviceClock`, `Bvlc`, the proofs above; the objects, `Services` and `Server`; the codecs,
`Messages` and `Exchange`, `Calendar`, `KeyList`; `AddressCache`, `Binding`, `AddressList`.

Next, proofs: that a WritePropertyMultiple that is acknowledged shows each of its values, which the
parts of `WritesAreRead` and `StepByStep` prepare; and that the fields of one message come back, one after the
other, from `ValuesAreRead`.

Next, models: the ReadRange of a trend log together with the timer that fills it, for a
firmware that calls it; `Startup`, with the address that changes later; an instance of
`CovServer` with fewer addresses than peers.
