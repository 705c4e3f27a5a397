------------------------------- MODULE Server -------------------------------
(***************************************************************************)
(* The device as a server of its objects: requests arrive in any order,     *)
(* apdu_handler (apdu.c) passes them to the handlers of Services, and the   *)
(* handlers read and change the objects.  A turn of server_task serves at   *)
(* most one request and then sets schedule 0 to its default and analog      *)
(* value 0 to schedule 0: `turn` says which of the two is next.             *)
(*                                                                          *)
(* A behaviour is about the objects of one type, `under`, and of the other  *)
(* types its accesses name.  `commands` is what the replies have promised:  *)
(* for each instance and priority the last command that was acknowledged    *)
(* and not relinquished.  It is no state of the program.                    *)
(***************************************************************************)
EXTENDS Services

CONSTANTS
  Registered,       \* the confirmed services main.c registers a handler for
  UnderTest,        \* the object types whose requests are modelled
  Accesses,         \* what is written, by type
  Pairs,            \* the accesses of a WritePropertyMultiple in their order, by type
  Controlled,       \* the types while which communication control is tried
  MaxRevision,      \* bound: renames and renumberings
  MaxRecords        \* bound: records logged

Commandable == {"ANALOG_OUTPUT", "BINARY_VALUE", "BINARY_OUTPUT", "MULTI_STATE_OUTPUT",
                "MULTI_STATE_VALUE"}

\* What is asked to be written, decoded: of the data the device looks into, what they are.
WellFormed(write) ==
  LET value == write.value
  IN  /\ value = [tag |-> value.tag, datum |-> value.datum]
      /\ value.tag = "UNSIGNED_INT" => value.datum \in Nat
      /\ value.tag = "ENUMERATED" /\ write.property = "UNITS" => value.datum \in Nat
      /\ value.tag = "OBJECT_ID" => value.datum = <<value.datum[1], value.datum[2]>>
      /\ value.tag = "CHARACTER_STRING" =>
           value.datum = [text |-> value.datum.text, encoding |-> value.datum.encoding,
                          length |-> value.datum.length, printable |-> value.datum.printable]

\* Where commands are kept track of, they are all to objects of the type under test.
Concerns(type, access) ==
  /\ access.type \in Range(ObjectTypes)
  /\ type \in Commandable => access.type = type

\* No access of a request has the object and the property of another, so that an error
\* tells which was refused.
ASSUME ServerAssumption ==
  /\ UnderTest \subseteq Range(ObjectTypes)
  /\ \A type \in UnderTest :
       /\ \A access \in Accesses[type] : Concerns(type, access) /\ WellFormed(access.write)
       /\ \A accesses \in Pairs[type] :
            /\ accesses \in Seq(Range(accesses))
            /\ \A n \in DOMAIN accesses : Concerns(type, accesses[n])
            /\ \A m, n \in DOMAIN accesses : Names(accesses[m]) = Names(accesses[n]) => m = n

VARIABLES under, turn, db, dcc, commands, last

vars == <<under, turn, db, dcc, commands, last>>

NoAccess == [type |-> "NONE", instance |-> 0, write |-> << >>, decodes |-> FALSE]

\* What is remembered of the last step: of an acknowledged write the access as well.
Outcome(service, segmented, reply) ==
  [service |-> service, segmented |-> segmented, access |-> NoAccess, reply |-> reply]

Init ==
  /\ under \in UnderTest
  /\ turn = "receive"
  /\ db = StartedDatabase
  /\ dcc = dcc_enabled
  /\ commands = [i \in Instances |-> NoLevels]
  /\ last = Outcome("NONE", FALSE, NoReply)

-----------------------------------------------------------------------------
\* apdu_confirmed_dcc_disabled, and whether there is a handler.
Passes(service) ==
  dcc.status # "DISABLE"
  \/ service \in {"DEVICE_COMMUNICATION_CONTROL", "REINITIALIZE_DEVICE"}

Handled(service) == Passes(service) /\ service \in Registered

\* datalink_receive returns a request; once it is served the turn goes on with the schedule.
Received ==
  /\ turn = "receive"
  /\ turn' = "link"

\* A request nobody handles: dropped in silence or rejected.
TurnedAway ==
  \E service \in Registered \cup {"CREATE_OBJECT"} :
    /\ Received
    /\ ~Handled(service)
    /\ last' = Outcome("NONE", FALSE,
                 IF Passes(service) THEN Reject("UNRECOGNIZED_SERVICE") ELSE NoReply)
    /\ UNCHANGED <<under, db, dcc, commands>>

\* What a command leaves promised.
Promise(promised, access) ==
  IF access.write.property = "PRESENT_VALUE"
  THEN [promised EXCEPT ![access.instance][access.write.priority] =
          IF access.write.value.tag = "NULL" THEN NULL ELSE access.write.value.datum]
  ELSE promised

\* What the first accesses of a request leave promised.
Promised(accesses, number) ==
  LET promised[n \in 0..number] ==
        IF n = 0 THEN commands ELSE Promise(promised[n - 1], accesses[n])
  IN  IF under \in Commandable THEN promised[number] ELSE commands

Bounded == db'.DEVICE.Database_Revision <= MaxRevision

WriteProperty ==
  \E access \in Accesses[under], segmented \in BOOLEAN :
    LET result == handler_write_property(db, access, segmented)
    IN  /\ Received
        /\ Handled("WRITE_PROPERTY")
        /\ db' = result.db
        /\ last' = [Outcome("WRITE_PROPERTY", segmented, result.reply)
                      EXCEPT !.access = IF result.reply = SimpleAck THEN access ELSE @]
        /\ commands' = Promised(<<access>>, IF result.reply = SimpleAck THEN 1 ELSE 0)
        /\ Bounded
        /\ UNCHANGED <<under, dcc>>

(***************************************************************************)
(* How many accesses of a request its reply says were carried out: all, or  *)
(* those before the one the error names.  A reject does not say; what came  *)
(* before the access that could not be decoded was carried out.             *)
(***************************************************************************)
Carried(accesses, reply) ==
  LET stops(n) == IF reply.pdu = "ERROR" THEN reply.detail[2] = Names(accesses[n])
                  ELSE ~accesses[n].decodes
  IN  IF reply = SimpleAck THEN Len(accesses)
      ELSE Min({n \in DOMAIN accesses : stops(n)}) - 1

WritePropertyMultiple ==
  \E accesses \in Pairs[under] :
    LET result == handler_write_property_multiple(db, accesses, FALSE)
    IN  /\ Received
        /\ Handled("WRITE_PROP_MULTIPLE")
        /\ db' = result.db
        /\ last' = Outcome("WRITE_PROP_MULTIPLE", FALSE, result.reply)
        /\ commands' = Promised(accesses, Carried(accesses, result.reply))
        /\ Bounded
        /\ UNCHANGED <<under, dcc>>

\* A segmented one is acknowledged unread: what its sender takes for promised is not.
SegmentedWritePropertyMultiple ==
  \E accesses \in Pairs[under] :
    LET result == handler_write_property_multiple(db, accesses, TRUE)
    IN  /\ Received
        /\ Handled("WRITE_PROP_MULTIPLE")
        /\ db' = result.db
        /\ last' = Outcome("WRITE_PROP_MULTIPLE", TRUE, result.reply)
        /\ UNCHANGED <<under, dcc, commands>>

-----------------------------------------------------------------------------
\* The references of the read services: all of one object, or one property of it.
References ==
  LET ref(i, p, n) == [type |-> under, instance |-> i, property |-> p, index |-> n,
                       decodes |-> TRUE]
  IN  {ref(0, "ALL", ARRAY_ALL), ref(BACNET_MAX_INSTANCE, "ALL", ARRAY_ALL),
       ref(0, "ALL", 1), ref(0, "PRESENT_VALUE", ARRAY_ALL), ref(0, "PRIORITY_ARRAY", 1),
       [ref(0, "ALL", ARRAY_ALL) EXCEPT !.decodes = FALSE]}

\* A request may be segmented, and the room its sender has for the reply small.
Forms == {[segmented |-> FALSE, max_resp |-> 99], [segmented |-> FALSE, max_resp |-> 0],
          [segmented |-> TRUE, max_resp |-> 99]}

\* What was read is not remembered, only how the request was answered.
Answered(reply) == Outcome("READ", FALSE, [reply EXCEPT !.detail = << >>])

ReadProperty ==
  \E ref \in References, form \in Forms :
    /\ Received
    /\ Handled("READ_PROPERTY")
    /\ last' = Answered(handler_read_property(db, ref, form.segmented, form.max_resp))
    /\ UNCHANGED <<under, db, dcc, commands>>

ReadPropertyMultiple ==
  \E ref \in References, form \in Forms :
    /\ Received
    /\ Handled("READ_PROP_MULTIPLE")
    /\ last' = Answered(handler_read_property_multiple(db, <<ref>>, form.segmented, form.max_resp))
    /\ UNCHANGED <<under, db, dcc, commands>>

\* Who-Has passes apdu_unconfirmed_dcc_disabled only while nothing is disabled.
WhoHas ==
  \E ref \in References, limits \in {<< >>, <<1, 2>>} :
    LET byName(d, c)   == match_name(d, c, Ansi("DEVICE", 0))
        byObject(d, c) == match_object(d, c, <<ref.type, ref.instance>>)
        answers == handler_who_has(db, dcc, limits, byName)
                   \cup handler_who_has(db, dcc, limits, byObject)
    IN  /\ Received
        /\ dcc.status = "ENABLE"
        /\ last' = Answered(Reply(IF answers = {} THEN "NONE" ELSE "I_HAVE", << >>))
        /\ UNCHANGED <<under, db, dcc, commands>>

-----------------------------------------------------------------------------
DeviceCommunicationControl ==
  \E request \in [state : {"ENABLE", "DISABLE", "DISABLE_INITIATION", "OTHER"},
                   minutes : {0, 1}, password_right : BOOLEAN, decodes : BOOLEAN],
     segmented \in BOOLEAN :
    LET result == handler_device_communication_control(dcc, request, segmented)
    IN  /\ Received
        /\ under \in Controlled
        /\ Handled("DEVICE_COMMUNICATION_CONTROL")
        /\ dcc' = result.dcc
        /\ last' = Outcome("DEVICE_COMMUNICATION_CONTROL", FALSE, result.reply)
        /\ UNCHANGED <<under, db, commands>>

ReinitializeDevice ==
  \E request \in [state : {"WARMSTART", "STARTBACKUP", "OTHER"}, password_right : BOOLEAN,
                   decodes : BOOLEAN],
     segmented \in BOOLEAN :
    LET result == handler_reinitialize_device(dcc, request, segmented)
    IN  /\ Received
        /\ under \in Controlled
        /\ Handled("REINITIALIZE_DEVICE")
        /\ dcc' = result.dcc
        /\ last' = Outcome("REINITIALIZE_DEVICE", FALSE, result.reply)
        /\ UNCHANGED <<under, db, commands>>

\* dcc_timer_seconds, which nothing in main/ calls.
Timer ==
  /\ turn = "receive"
  /\ dcc.seconds > 0
  /\ dcc' = dcc_timer_seconds(dcc, 45)
  /\ last' = Outcome("NONE", FALSE, NoReply)
  /\ UNCHANGED <<under, turn, db, commands>>

\* A record is logged and a pulse counted: functions nothing in main/ calls.
AddRecord ==
  /\ turn = "receive"
  /\ under = "TREND_LOG"
  /\ db.TREND_LOG[0].Total_Record_Count < MaxRecords
  /\ db' = [db EXCEPT !.TREND_LOG =
              TL_Add_Record(@, 0, db.TREND_LOG[0].Total_Record_Count + 1)]
  /\ last' = Outcome("NONE", FALSE, NoReply)
  /\ UNCHANGED <<under, turn, dcc, commands>>

Pulses ==
  \E pulses \in 1..2 :
    /\ turn = "receive"
    /\ under = "ACCUMULATOR"
    /\ db' = [db EXCEPT !.ACCUMULATOR = ACC_Present_Value_Increment(@, 0, pulses, 0)]
    /\ last' = Outcome("NONE", FALSE, NoReply)
    /\ UNCHANGED <<under, turn, dcc, commands>>

(***************************************************************************)
(* The end of a turn of server_task, whether or not a request was received: *)
(* in service schedule 0 goes back to its default, as no day has entries,   *)
(* and a REAL value of it becomes that of analog value 0.                   *)
(***************************************************************************)
Recalculated(schedules) ==
  IF schedules[0].Out_Of_Service THEN schedules
  ELSE [schedules EXCEPT ![0].Present_Value = Schedule_Default]

Applied(values, scheduled) ==
  IF scheduled.tag = "REAL" THEN [values EXCEPT ![0].Present_Value = scheduled.datum] ELSE values

Linked(d) ==
  LET schedules == Recalculated(d.SCHEDULE)
  IN  [d EXCEPT !.SCHEDULE     = schedules,
                !.ANALOG_VALUE = Applied(@, schedules[0].Present_Value)]

Link ==
  /\ turn' = "receive"
  /\ db' = Linked(db)
  /\ UNCHANGED <<under, dcc, commands, last>>

Next ==
  \/ WriteProperty \/ WritePropertyMultiple \/ SegmentedWritePropertyMultiple
  \/ ReadProperty \/ ReadPropertyMultiple \/ WhoHas \/ TurnedAway
  \/ DeviceCommunicationControl \/ ReinitializeDevice \/ Timer
  \/ AddRecord \/ Pulses \/ Link

Spec == Init /\ [][Next]_vars

-----------------------------------------------------------------------------
(***************************************************************************)
(* The present value of a commandable object is the acknowledged command of *)
(* the highest priority, whatever was commanded, relinquished, refused or   *)
(* broken off before: ao.c, bv.c, bo.c, mso.c, msv.c and h_wpm.c.  An       *)
(* analog output keeps whole percent.                                       *)
(***************************************************************************)
RelinquishDefault(type) ==
  IF type \in {"MULTI_STATE_OUTPUT", "MULTI_STATE_VALUE"} THEN 1 ELSE 0

PresentValue(type, i) ==
  Device_Read_Property(db, type, i, "PRESENT_VALUE", ARRAY_ALL).data[1].datum

PresentValueIsCommanded ==
  under \in Commandable =>
    \A i \in Instances :
      LET active   == {p \in Priorities : commands[i][p] # NULL}
          promised == IF active = {} THEN RelinquishDefault(under) ELSE commands[i][Min(active)]
      IN  PresentValue(under, i) =
            IF under = "ANALOG_OUTPUT" THEN promised - (promised % 2) ELSE promised

(***************************************************************************)
(* What a WriteProperty acknowledged is what the next turn reads, but for   *)
(* the value of analog value 0 while schedule 0 has a REAL: that is the     *)
(* schedule's, whatever was acknowledged (server_task.c:89-95).  Left out   *)
(* are commands, which a higher priority may hide, the date and time, which *)
(* go on, strings, which csv.c cuts and re-encodes, and numbers too large   *)
(* for the C type their property is kept in, which are cut to it: those of  *)
(* device.c and np.c, and the units, kept in 8 bits by ai.c and in 16 by    *)
(* the others.                                                              *)
(***************************************************************************)
Room(type) ==
  [NUMBER_OF_APDU_RETRIES |-> 256, APDU_TIMEOUT |-> 65536, VENDOR_IDENTIFIER |-> 65536,
   BACNET_IP_UDP_PORT |-> 65536, NETWORK_NUMBER |-> 65536,
   UNITS |-> IF type = "ANALOG_INPUT" THEN 256 ELSE 65536]

Fits(type, write) ==
  write.property \in DOMAIN Room(type) => write.value.datum < Room(type)[write.property]

Scheduled(access) ==
  /\ access.type = "ANALOG_VALUE" /\ access.instance = 0
  /\ access.write.property = "PRESENT_VALUE"
  /\ db.SCHEDULE[0].Present_Value.tag = "REAL"

\* What the access is to read as: what was written, or what the schedule has.
Expected(access) ==
  IF Scheduled(access) THEN Real(db.SCHEDULE[0].Present_Value.datum) ELSE access.write.value

\* Whether the access is one of those the property speaks of.
Kept_As_Written(access) ==
  LET type == access.type  property == access.write.property
  IN  /\ ~(type \in Commandable /\ property = "PRESENT_VALUE")
      /\ property \notin {"LOCAL_DATE", "LOCAL_TIME"}
      /\ type # "CHARACTERSTRING_VALUE"
      /\ Fits(type, access.write)

ReadNow(access) ==
  LET instance == IF access.type = "DEVICE" THEN db.DEVICE.Object_Instance_Number
                  ELSE access.instance
  IN  Device_Read_Property(db, access.type, instance, access.write.property, ARRAY_ALL).data

WrittenIsRead ==
  LET access == last.access
  IN  /\ turn = "receive"
      /\ last.reply = SimpleAck
      /\ access # NoAccess
      /\ Kept_As_Written(access)
      => ReadNow(access) = <<Expected(access)>>

(***************************************************************************)
(* Every property an object lists can be read, in every state: the lists    *)
(* ReadPropertyMultiple goes by and the switches that answer are written    *)
(* apart.  The log of a trend log is for ReadRange.                         *)
(***************************************************************************)
EveryListedPropertyReads ==
  \A i \in IF under = "DEVICE" THEN {db.DEVICE.Object_Instance_Number} ELSE DOMAIN db[under] :
    LET all == [type |-> under, instance |-> i, property |-> "ALL", index |-> ARRAY_ALL,
                decodes |-> TRUE]
        results == RPM_Results(db, all)
    IN  /\ results # << >>
        /\ \A n \in DOMAIN results :
             results[n].property # "LOG_BUFFER" => results[n].result.ok

(***************************************************************************)
(* Who-Has finds a listed object, and no other, under the name it gives     *)
(* itself: names stay unique while the device is renamed and renumbered,    *)
(* which only requests to the device object do.                             *)
(***************************************************************************)
NamesIdentify ==
  under = "DEVICE" =>
    \A id \in Range(Object_List(db)) :
      \A answer \in match_object(db, dcc_enabled, id) :
        match_name(db, dcc_enabled, answer.name) = {answer}

(***************************************************************************)
(* A request that is refused, aborted or rejected leaves every object as it *)
(* was, but for the accesses of a WritePropertyMultiple before the one the  *)
(* reply stopped at.                                                        *)
(***************************************************************************)
RefusalLeavesNoTrace ==
  [][/\ turn' = "link"
     /\ last'.reply.pdu \in {"ERROR", "ABORT", "REJECT"}
     /\ last'.service # "WRITE_PROP_MULTIPLE"
     => db' = db /\ dcc' = dcc]_vars

(***************************************************************************)
(* While Database_Revision stays, so do the list of objects and their       *)
(* names: a client that knows the revision need not read them again.        *)
(***************************************************************************)
Directory(d) == {<<id, Object_Name(d, id[1], id[2])>> : id \in Range(Object_List(d))}

RevisionTellsOfChange ==
  [][/\ under = "DEVICE"
     /\ db'.DEVICE.Database_Revision = db.DEVICE.Database_Revision
     => Directory(db') = Directory(db)]_vars

(***************************************************************************)
(* h_wpm.c:51-53 says of the handler's reply that it is "an Abort if the     *)
(* message is segmented".                                                   *)
(***************************************************************************)
SegmentedIsAborted == last.segmented => last.reply = SEGMENTATION_NOT_SUPPORTED
=============================================================================
