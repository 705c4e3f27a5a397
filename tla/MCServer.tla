------------------------------ MODULE MCServer ------------------------------
(***************************************************************************)
(* Small instances of Server: two objects of each type, and for each type  *)
(* the writes that its Write_Property function tells apart.                *)
(***************************************************************************)
EXTENDS Server

MCRegistered ==
  (Services_Supported \ {"WHO_IS", "WHO_HAS", "I_AM", "TIME_SYNCHRONIZATION"})
  \cup {"DEVICE_COMMUNICATION_CONTROL"}

MCUnderTest == Range(ObjectTypes)

Access(type, i, p, index, value, priority) ==
  [type |-> type, instance |-> i, decodes |-> TRUE,
   write |-> [property |-> p, index |-> index, value |-> value, priority |-> priority]]

Broken(access) == [access EXCEPT !.decodes = FALSE]

\* One that fits the C type the units are kept in and one that does not.
Units(type) ==
  IF type = "ANALOG_INPUT" THEN {Enumerated(3), Enumerated(259)}
  ELSE {Enumerated(259), Enumerated(65539)}

\* Writes every type is asked for: refused by some, accepted by others.
Common_Accesses(type) ==
  {Access(type, 0, "OUT_OF_SERVICE", ARRAY_ALL, v, 16) :
     v \in {Boolean(TRUE), Boolean(FALSE), Unsigned(1)}}
  \cup {Access(type, 0, "UNITS", ARRAY_ALL, v, 16) : v \in Units(type) \cup {Null}}
  \cup {Access(type, 0, "OBJECT_TYPE", ARRAY_ALL, Enumerated(99), 16),
        Access(type, 0, "NO_SUCH", ARRAY_ALL, Null, 16),
        Access(type, 0, "OUT_OF_SERVICE", ARRAY_ALL, Undecodable, 16),
        Access(type, 0, "PRIORITY_ARRAY", 1, Null, 16),
        Access(type, 0, "OUT_OF_SERVICE", 1, Boolean(TRUE), 16),
        Access(type, MaxObjects, "OUT_OF_SERVICE", ARRAY_ALL, Boolean(TRUE), 16),
        Broken(Access(type, 0, "OUT_OF_SERVICE", ARRAY_ALL, Boolean(TRUE), 16))}

\* What a present value may be set to: right and wrong types, in and out of range.
Values(type) ==
  CASE type = "ANALOG_OUTPUT" -> {Real(3), Real(200), Real(202), Null, Unsigned(1)}
    [] type \in {"BINARY_VALUE", "BINARY_OUTPUT"} ->
         {Enumerated(0), Enumerated(1), Enumerated(2), Null, Unsigned(1)}
    [] type \in {"MULTI_STATE_OUTPUT", "MULTI_STATE_VALUE"} ->
         {Unsigned(2), Unsigned(3), Unsigned(4), Null, Real(2)}
    [] type \in {"ANALOG_INPUT", "ANALOG_VALUE"} -> {Real(0), Real(3), Unsigned(1)}
    [] type = "BINARY_INPUT" -> {Enumerated(0), Enumerated(1), Enumerated(2), Real(1)}
    [] type = "MULTI_STATE_INPUT" -> {Unsigned(1), Unsigned(3), Unsigned(4), Null}
    [] type = "INTEGER_VALUE" -> {Signed(-1), Signed(5), Unsigned(1)}
    [] type = "POSITIVE_INTEGER_VALUE" -> {Unsigned(1), Unsigned(5), Signed(1)}
    [] type = "LARGE_ANALOG_VALUE" -> {Double(1), Double(5), Real(1)}
    [] type = "CHARACTERSTRING_VALUE" ->
         {Characters(Ansi("text", 0)), Characters([Ansi("text", 0) EXCEPT !.length = 80]),
          Characters([Ansi("text", 0) EXCEPT !.encoding = "UCS2"]), Null}
    [] OTHER -> {Real(1), Unsigned(1)}

PresentValueAccesses(type, instances, priorities) ==
  {Access(type, i, "PRESENT_VALUE", ARRAY_ALL, v, p) :
     i \in instances, v \in Values(type), p \in priorities}

DeviceAccesses ==
  LET access(p, v) == Access("DEVICE", ServerDeviceId, p, ARRAY_ALL, v, 16)
      name(n, k)   == access("OBJECT_NAME", Characters(Ansi(n, k)))
  IN  {access("OBJECT_IDENTIFIER", ObjectId("DEVICE", ServerDeviceId + 1)),
       access("OBJECT_IDENTIFIER", ObjectId("DEVICE", BACNET_MAX_INSTANCE + 1)),
       access("OBJECT_IDENTIFIER", ObjectId("ANALOG_INPUT", 1)),
       Access("DEVICE", ServerDeviceId + 1, "OBJECT_IDENTIFIER", ARRAY_ALL,
              ObjectId("DEVICE", ServerDeviceId), 16),
       name("lab", 0), name("ANALOG_OUTPUT", 1), name("ESP32_BACnet_Server", 0),
       access("OBJECT_NAME", Characters(EmptyText)), access("OBJECT_NAME", Unsigned(1)),
       access("SYSTEM_STATUS", Enumerated("NON_OPERATIONAL")),
       access("SYSTEM_STATUS", Enumerated("BACKUP_IN_PROGRESS")),
       access("SYSTEM_STATUS", Enumerated("OTHER")),
       access("LOCATION", Characters(Ansi("roof", 0))),
       access("DESCRIPTION", Characters([Ansi("roof", 0) EXCEPT !.length = 80])),
       access("MODEL_NAME", Characters([Ansi("roof", 0) EXCEPT !.encoding = "UCS2"])),
       access("APDU_TIMEOUT", Unsigned(65535)), access("NUMBER_OF_APDU_RETRIES", Unsigned(2)),
       access("NUMBER_OF_APDU_RETRIES", Unsigned(256)),
       access("VENDOR_IDENTIFIER", Unsigned(7)), access("LOCAL_DATE", DateValue("d")),
       access("LOCAL_TIME", TimeValue("t")), access("OBJECT_LIST", Null)}

OtherAccesses(type) ==
  CASE type = "TREND_LOG" ->
         {Access(type, 0, "ENABLE", ARRAY_ALL, Boolean(b), 16) : b \in BOOLEAN}
         \cup {Access(type, 0, "RECORD_COUNT", ARRAY_ALL, Unsigned(n), 16) : n \in {0, 1}}
         \cup {Access(type, 0, "LOG_INTERVAL", ARRAY_ALL, Unsigned(7), 16)}
    [] type = "NETWORK_PORT" ->
         {Access(type, 0, p, ARRAY_ALL, v, 16) :
            p \in {"BACNET_IP_UDP_PORT", "NETWORK_NUMBER", "IP_ADDRESS"},
            v \in {Unsigned(0), Unsigned(65535), Real(1)}}
    [] type = "ANALOG_INPUT" ->
         {Access(type, 0, "COV_INCREMENT", ARRAY_ALL, v, 16) :
            v \in {Real(1), Real(-1), Unsigned(1)}}
    [] type = "BINARY_INPUT" ->
         {Access(type, 0, "POLARITY", ARRAY_ALL, v, 16) :
            v \in {Enumerated(0), Enumerated(1), Enumerated(2)}}
    \* Schedule 0, whose value analog value 0 is set to.
    [] type = "ANALOG_VALUE" ->
         {Access("SCHEDULE", 0, "PRESENT_VALUE", ARRAY_ALL, v, 16) : v \in {Real(5), Null}}
         \cup {Access("SCHEDULE", 0, "OUT_OF_SERVICE", ARRAY_ALL, Boolean(b), 16) : b \in BOOLEAN}
    [] OTHER -> {}

MCAccesses == [type \in MCUnderTest |->
  CASE type = "DEVICE" -> DeviceAccesses
    [] type \in Commandable ->
         PresentValueAccesses(type, {0}, {1, 6, 16})
         \cup {access \in Common_Accesses(type) : access.write.value # Boolean(TRUE)}
    [] OTHER -> PresentValueAccesses(type, {0, 1}, {16}) \cup Common_Accesses(type)
                \cup OtherAccesses(type)]

\* Two accesses of one request, to different objects, so that an error names one.
MCPairs == [type \in MCUnderTest |->
  LET firsts  == PresentValueAccesses(type, {0}, {16})
      seconds == PresentValueAccesses(type, {1}, {6, 16})
      broken  == {Broken(access) : access \in firsts}
  IN  IF type \in Commandable
      THEN {<<a, b>> : a \in firsts, b \in seconds} \cup {<<a, b>> : a \in seconds, b \in broken}
      ELSE {}]

MCControlled == {"INTEGER_VALUE"}
=============================================================================
