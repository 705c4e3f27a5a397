------------------------------- MODULE Device -------------------------------
(***************************************************************************)
(* The device object and the object table (device.c): how a property of    *)
(* any object is found, read and written, and what the device says of      *)
(* itself.  A database `db` holds the table of each object type and, for   *)
(* "DEVICE", the state of the device object.  The date and time are        *)
(* DeviceClock's, the subscriptions CovServer's, the bindings Binding's:   *)
(* they are read as opaque values here.                                    *)
(***************************************************************************)
EXTENDS CommandableObjects, ValueObjects, OtherObjects

CONSTANT ServerDeviceId   \* SERVER_DEVICE_ID of main.c

\* My_Object_Table, in its order.
ObjectTypes ==
  <<"DEVICE", "ANALOG_INPUT", "ANALOG_OUTPUT", "ANALOG_VALUE", "BINARY_INPUT",
    "BINARY_OUTPUT", "BINARY_VALUE", "MULTI_STATE_INPUT", "MULTI_STATE_OUTPUT",
    "MULTI_STATE_VALUE", "INTEGER_VALUE", "POSITIVE_INTEGER_VALUE",
    "CHARACTERSTRING_VALUE", "LARGE_ANALOG_VALUE", "TREND_LOG", "ACCUMULATOR",
    "NETWORK_PORT", "SCHEDULE">>

BACNET_MAX_INSTANCE == 4194303

\* A device that was just switched on, before main.c has set it up.
Device_Init ==
  [Object_Instance_Number |-> 260001, My_Object_Name |-> Ansi("SimpleServer", 0),
   System_Status |-> "OPERATIONAL", Vendor_Identifier |-> 260,
   Model_Name |-> Ansi("GNU", 0), Description |-> Ansi("server", 0),
   Location |-> Ansi("USA", 0), Database_Revision |-> 0,
   Apdu_Timeout |-> 3000, Apdu_Retries |-> 3]

-----------------------------------------------------------------------------
\* Device_Inc_Database_Revision
Revised(device) == [device EXCEPT !.Database_Revision = @ + 1]

\* The revision counts up even when the number is the one it had.
Set_Object_Instance_Number(device, n) ==
  Revised([device EXCEPT !.Object_Instance_Number = n])

\* Mutant: a new name is not counted.
Set_Object_Name_Unrevised(device, name) == [device EXCEPT !.My_Object_Name = name]

Set_Object_Name(device, name) ==
  IF device.My_Object_Name = name THEN device
  ELSE Revised([device EXCEPT !.My_Object_Name = name])

\* app_main and Init_Service_Handlers: the number, then the names.
Started ==
  LET named == Set_Object_Name(Set_Object_Instance_Number(Device_Init, ServerDeviceId),
                               Ansi("ESP32_BACnet_Server", 0))
  IN  [named EXCEPT !.Model_Name = Ansi("EdgeBox_ESP_100", 0),
                    !.Description = Ansi("BACnet_IP_Server_on_ESP32_S3", 0)]

StartedDatabase ==
  [DEVICE |-> Started, ANALOG_INPUT |-> AI_Init, ANALOG_OUTPUT |-> AO_Init,
   ANALOG_VALUE |-> AV_Init, BINARY_INPUT |-> BI_Init, BINARY_OUTPUT |-> BO_Init,
   BINARY_VALUE |-> BV_Init, MULTI_STATE_INPUT |-> MSI_Init,
   MULTI_STATE_OUTPUT |-> MSO_Init, MULTI_STATE_VALUE |-> MSV_Init,
   INTEGER_VALUE |-> IV_Init, POSITIVE_INTEGER_VALUE |-> PIV_Init,
   CHARACTERSTRING_VALUE |-> CSV_Init, LARGE_ANALOG_VALUE |-> LAV_Init,
   TREND_LOG |-> TL_Init, ACCUMULATOR |-> ACC_Init, NETWORK_PORT |-> NP_Started,
   SCHEDULE |-> SCH_Init]

-----------------------------------------------------------------------------
\* Object_Count and Object_Valid_Instance of each type: an analog input or value and
\* a binary input or value show one object and have more.
Object_Counts ==
  [DEVICE |-> 1, ANALOG_INPUT |-> AI_Count, ANALOG_OUTPUT |-> AO_Count,
   ANALOG_VALUE |-> AV_Count, BINARY_INPUT |-> BI_Count, BINARY_OUTPUT |-> BO_Count,
   BINARY_VALUE |-> BV_Count, MULTI_STATE_INPUT |-> MSI_Count,
   MULTI_STATE_OUTPUT |-> MSO_Count, MULTI_STATE_VALUE |-> MSV_Count,
   INTEGER_VALUE |-> IV_Count, POSITIVE_INTEGER_VALUE |-> PIV_Count,
   CHARACTERSTRING_VALUE |-> CSV_Count, LARGE_ANALOG_VALUE |-> LAV_Count,
   TREND_LOG |-> TL_Count, ACCUMULATOR |-> ACC_Count, NETWORK_PORT |-> NP_Count,
   SCHEDULE |-> SCH_Count]
Object_Count(type) == Object_Counts[type]

Valid_Instances ==
  [ANALOG_INPUT |-> AI_Instances, ANALOG_OUTPUT |-> AO_Instances,
   ANALOG_VALUE |-> AV_Instances, BINARY_INPUT |-> BI_Instances,
   BINARY_OUTPUT |-> BO_Instances, BINARY_VALUE |-> BV_Instances,
   MULTI_STATE_INPUT |-> MSI_Instances, MULTI_STATE_OUTPUT |-> MSO_Instances,
   MULTI_STATE_VALUE |-> MSV_Instances, INTEGER_VALUE |-> IV_Instances,
   POSITIVE_INTEGER_VALUE |-> PIV_Instances, CHARACTERSTRING_VALUE |-> CSV_Instances,
   LARGE_ANALOG_VALUE |-> LAV_Instances, TREND_LOG |-> TL_Instances,
   ACCUMULATOR |-> ACC_Instances, NETWORK_PORT |-> NP_Instances,
   SCHEDULE |-> SCH_Instances]

Object_Instance(db, type, index) ==
  IF type = "DEVICE" THEN db.DEVICE.Object_Instance_Number ELSE index

\* Device_Object_List_Identifier, for every index from 1 to the count.
Object_List(db) ==
  FlattenSeq([t \in DOMAIN ObjectTypes |->
    [k \in 1..Object_Count(ObjectTypes[t]) |->
       <<ObjectTypes[t], Object_Instance(db, ObjectTypes[t], k - 1)>>]])

Valid_Object_Id(db, type, i) ==
  CASE type = "DEVICE" -> i = db.DEVICE.Object_Instance_Number
    [] type \in DOMAIN Valid_Instances -> i \in Valid_Instances[type]
    [] OTHER -> FALSE

Object_Name(db, type, i) ==
  CASE type = "DEVICE"        -> db.DEVICE.My_Object_Name
    [] type = "ANALOG_INPUT"  -> AI_Object_Name(i)
    [] type = "ANALOG_OUTPUT" -> AO_Object_Name(i)
    [] type = "ANALOG_VALUE"  -> AV_Object_Name(i)
    [] type = "BINARY_INPUT"  -> BI_Object_Name(i)
    [] type = "BINARY_OUTPUT" -> BO_Object_Name(i)
    [] type = "BINARY_VALUE"  -> BV_Object_Name(i)
    [] type = "MULTI_STATE_INPUT"  -> MSI_Object_Name(i)
    [] type = "MULTI_STATE_OUTPUT" -> MSO_Object_Name(i)
    [] type = "MULTI_STATE_VALUE"  -> MSV_Object_Name(i)
    [] type = "INTEGER_VALUE"          -> IV_Object_Name(i)
    [] type = "POSITIVE_INTEGER_VALUE" -> PIV_Object_Name(i)
    [] type = "CHARACTERSTRING_VALUE"  -> CSV_Object_Name(i)
    [] type = "LARGE_ANALOG_VALUE"     -> LAV_Object_Name(i)
    [] type = "TREND_LOG"    -> TL_Object_Name(i)
    [] type = "ACCUMULATOR"  -> ACC_Object_Name(i)
    [] type = "NETWORK_PORT" -> NP_Object_Name(i)
    [] type = "SCHEDULE"     -> SCH_Object_Name(i)

\* Device_Valid_Object_Name: the places in the object list with that name, of which the
\* first is found.  Two strings are the same when encoding, length and text are.
NamedObjects(db, name) ==
  LET list == Object_List(db)
  IN  {n \in DOMAIN list : Object_Name(db, list[n][1], list[n][2]) = name}

FirstNamed(db, name) == Object_List(db)[Min(NamedObjects(db, name))]

-----------------------------------------------------------------------------
\* Device_Property_Lists: MAX_MASTER and MAX_INFO_FRAMES are for MS/TP only.
Device_Property_Lists ==
  Lists(<<"OBJECT_IDENTIFIER", "OBJECT_NAME", "OBJECT_TYPE", "SYSTEM_STATUS", "VENDOR_NAME",
          "VENDOR_IDENTIFIER", "MODEL_NAME", "FIRMWARE_REVISION",
          "APPLICATION_SOFTWARE_VERSION", "PROTOCOL_VERSION", "PROTOCOL_REVISION",
          "PROTOCOL_SERVICES_SUPPORTED", "PROTOCOL_OBJECT_TYPES_SUPPORTED", "OBJECT_LIST",
          "MAX_APDU_LENGTH_ACCEPTED", "SEGMENTATION_SUPPORTED", "APDU_TIMEOUT",
          "NUMBER_OF_APDU_RETRIES", "DEVICE_ADDRESS_BINDING", "DATABASE_REVISION">>,
        <<"DESCRIPTION", "LOCAL_TIME", "UTC_OFFSET", "LOCAL_DATE",
          "DAYLIGHT_SAVINGS_STATUS", "LOCATION", "ACTIVE_COV_SUBSCRIPTIONS">>, << >>)

\* Device_Objects_Property_List, by type.
Property_Lists(type) ==
  CASE type = "DEVICE"        -> Device_Property_Lists
    [] type = "ANALOG_INPUT"  -> AI_Property_Lists
    [] type = "ANALOG_OUTPUT" -> AO_Property_Lists
    [] type = "ANALOG_VALUE"  -> AV_Property_Lists
    [] type = "BINARY_INPUT"  -> BI_Property_Lists
    [] type = "BINARY_OUTPUT" -> BO_Property_Lists
    [] type = "BINARY_VALUE"  -> BV_Property_Lists
    [] type = "MULTI_STATE_INPUT"  -> MSI_Property_Lists
    [] type = "MULTI_STATE_OUTPUT" -> MSO_Property_Lists
    [] type = "MULTI_STATE_VALUE"  -> MSV_Property_Lists
    [] type = "INTEGER_VALUE"          -> IV_Property_Lists
    [] type = "POSITIVE_INTEGER_VALUE" -> PIV_Property_Lists
    [] type = "CHARACTERSTRING_VALUE"  -> CSV_Property_Lists
    [] type = "LARGE_ANALOG_VALUE"     -> LAV_Property_Lists
    [] type = "TREND_LOG"    -> TL_Property_Lists
    [] type = "ACCUMULATOR"  -> ACC_Property_Lists
    [] type = "NETWORK_PORT" -> NP_Property_Lists
    [] type = "SCHEDULE"     -> SCH_Property_Lists
    [] OTHER -> Lists(<< >>, << >>, << >>)

\* The services main.c registers a handler for.
Services_Supported ==
  {"WHO_IS", "WHO_HAS", "I_AM", "TIME_SYNCHRONIZATION", "READ_PROPERTY", "WRITE_PROPERTY",
   "READ_PROP_MULTIPLE", "WRITE_PROP_MULTIPLE", "SUBSCRIBE_COV", "READ_RANGE",
   "REINITIALIZE_DEVICE", "ACKNOWLEDGE_ALARM"}

\* Device_Read_Property_Local.  Of the object list an element is read, or the
\* count, or the whole.
Device_Properties(db) ==
  LET device  == db.DEVICE
      text(s) == One(Characters(s))
      list    == Object_List(db)
  IN  [OBJECT_IDENTIFIER |-> One(ObjectId("DEVICE", device.Object_Instance_Number)),
       OBJECT_NAME       |-> text(device.My_Object_Name),
       OBJECT_TYPE       |-> One(Enumerated("DEVICE")),
       DESCRIPTION       |-> text(device.Description),
       SYSTEM_STATUS     |-> One(Enumerated(device.System_Status)),
       VENDOR_NAME       |-> text(Ansi("vendor", 0)),
       VENDOR_IDENTIFIER |-> One(Unsigned(device.Vendor_Identifier)),
       MODEL_NAME        |-> text(device.Model_Name),
       FIRMWARE_REVISION |-> text(Ansi("version", 0)),
       APPLICATION_SOFTWARE_VERSION |-> text(Ansi("version_1_0", 0)),
       LOCATION          |-> text(device.Location),
       LOCAL_TIME        |-> One(TimeValue("now")),
       UTC_OFFSET        |-> One(Signed(0)),
       LOCAL_DATE        |-> One(DateValue("today")),
       DAYLIGHT_SAVINGS_STATUS |-> One(Boolean(FALSE)),
       PROTOCOL_VERSION  |-> One(Unsigned(1)),
       PROTOCOL_REVISION |-> One(Unsigned(12)),
       PROTOCOL_SERVICES_SUPPORTED |-> One(Bits(Services_Supported)),
       PROTOCOL_OBJECT_TYPES_SUPPORTED |->
         One(Bits({type \in Range(ObjectTypes) : Object_Count(type) > 0})),
       OBJECT_LIST       |-> Array([n \in DOMAIN list |-> <<ObjectId(list[n][1], list[n][2])>>]),
       MAX_APDU_LENGTH_ACCEPTED |-> One(Unsigned(1476)),
       SEGMENTATION_SUPPORTED   |-> One(Enumerated("NONE")),
       APDU_TIMEOUT             |-> One(Unsigned(device.Apdu_Timeout)),
       NUMBER_OF_APDU_RETRIES   |-> One(Unsigned(device.Apdu_Retries)),
       DEVICE_ADDRESS_BINDING   |-> List(<< >>),
       DATABASE_REVISION        |-> One(Unsigned(device.Database_Revision)),
       ACTIVE_COV_SUBSCRIPTIONS |-> List(<< >>)]

Device_Read_Property_Local(db, p, index) == Read(Device_Properties(db), p, index)

\* Device_Read_Property: the object must be there, then its type answers.
Device_Read_Property(db, type, i, p, index) ==
  IF ~Valid_Object_Id(db, type, i) THEN Refusal("OBJECT", "UNKNOWN_OBJECT")
  ELSE LET t == db[type]
  IN CASE type = "DEVICE"        -> Device_Read_Property_Local(db, p, index)
       [] type = "ANALOG_INPUT"  -> AI_Read_Property(t, i, p, index)
       [] type = "ANALOG_OUTPUT" -> AO_Read_Property(t, i, p, index)
       [] type = "ANALOG_VALUE"  -> AV_Read_Property(t, i, p, index)
       [] type = "BINARY_INPUT"  -> BI_Read_Property(t, i, p, index)
       [] type = "BINARY_OUTPUT" -> BO_Read_Property(t, i, p, index)
       [] type = "BINARY_VALUE"  -> BV_Read_Property(t, i, p, index)
       [] type = "MULTI_STATE_INPUT"  -> MSI_Read_Property(t, i, p, index)
       [] type = "MULTI_STATE_OUTPUT" -> MSO_Read_Property(t, i, p, index)
       [] type = "MULTI_STATE_VALUE"  -> MSV_Read_Property(t, i, p, index)
       [] type = "INTEGER_VALUE"          -> IV_Read_Property(t, i, p, index)
       [] type = "POSITIVE_INTEGER_VALUE" -> PIV_Read_Property(t, i, p, index)
       [] type = "CHARACTERSTRING_VALUE"  -> CSV_Read_Property(t, i, p, index)
       [] type = "LARGE_ANALOG_VALUE"     -> LAV_Read_Property(t, i, p, index)
       [] type = "TREND_LOG"    -> TL_Read_Property(t, i, p, index)
       [] type = "ACCUMULATOR"  -> ACC_Read_Property(t, i, p, index)
       [] type = "NETWORK_PORT" -> NP_Read_Property(t, i, p, index)
       [] type = "SCHEDULE"     -> SCH_Read_Property(t, i, p, index)

-----------------------------------------------------------------------------
\* Mutant: the status is stored before it is looked at.
SetSystemStatusFirst(device, status) ==
  LET stored == [device EXCEPT !.System_Status = status]
  IN  IF status \in {"OPERATIONAL", "OPERATIONAL_READ_ONLY", "NON_OPERATIONAL"}
      THEN Written(stored) ELSE OutOfRange(stored)

\* Device_Set_System_Status, asked by another device.
SetSystemStatus(device, status) ==
  CASE status \in {"OPERATIONAL", "OPERATIONAL_READ_ONLY", "NON_OPERATIONAL"} ->
         Written([device EXCEPT !.System_Status = status])
    [] status \in {"DOWNLOAD_REQUIRED", "DOWNLOAD_IN_PROGRESS", "BACKUP_IN_PROGRESS"} ->
         Denied(device, "PROPERTY", "OPTIONAL_FUNCTIONALITY_NOT_SUPPORTED")
    [] OTHER -> OutOfRange(device)

\* Mutant: nobody looks whether the name is taken.
WriteAnyObjectName(db, w) ==
  ValidateString(db.DEVICE, w.value, 1470, FALSE,
    Written(Set_Object_Name(db.DEVICE, w.value.datum)))

\* Case PROP_OBJECT_NAME: a name some other object is listed under is refused;
\* the device's own changes nothing.
WriteObjectName(db, w) ==
  LET device == db.DEVICE
      name   == w.value.datum
  IN  ValidateString(device, w.value, 1470, FALSE,
        IF NamedObjects(db, name) = {} THEN Written(Set_Object_Name(device, name))
        ELSE IF FirstNamed(db, name) = <<"DEVICE", device.Object_Instance_Number>>
        THEN Written(device)
        ELSE Denied(device, "PROPERTY", "DUPLICATE_NAME"))

\* Device_Set_Location, _Description and _Model_Name, each with its own room.
WriteText(device, w, field, maximum) ==
  ValidateString(device, w.value, maximum, TRUE,
    Written([device EXCEPT ![field] = [w.value.datum EXCEPT !.encoding = "ANSI_X34"]]))

\* Device_Write_Property_Local.  The numbers are cut to their C types.
Device_Write_Property_Local(db, w) ==
  LET device == db.DEVICE
      number(tag, result) == ValidateArgType(device, w.value, tag, result)
  IN Write(device, w, {"OBJECT_LIST"},
    CASE w.property = "OBJECT_IDENTIFIER" ->
           number("OBJECT_ID",
             IF w.value.datum[1] = "DEVICE" /\ w.value.datum[2] <= BACNET_MAX_INSTANCE
             THEN Written(Set_Object_Instance_Number(device, w.value.datum[2]))
             ELSE OutOfRange(device))
      [] w.property = "LOCAL_DATE" -> number("DATE", Written(device))
      [] w.property = "LOCAL_TIME" -> number("TIME", Written(device))
      [] w.property = "NUMBER_OF_APDU_RETRIES" ->
           number("UNSIGNED_INT", Written([device EXCEPT !.Apdu_Retries = w.value.datum % 256]))
      [] w.property = "APDU_TIMEOUT" ->
           number("UNSIGNED_INT", Written([device EXCEPT !.Apdu_Timeout = w.value.datum % 65536]))
      [] w.property = "VENDOR_IDENTIFIER" ->
           number("UNSIGNED_INT",
             Written([device EXCEPT !.Vendor_Identifier = w.value.datum % 65536]))
      [] w.property = "SYSTEM_STATUS" ->
           number("ENUMERATED", SetSystemStatus(device, w.value.datum))
      [] w.property = "OBJECT_NAME" -> WriteObjectName(db, w)
      [] w.property = "LOCATION"    -> WriteText(device, w, "Location", 64)
      [] w.property = "DESCRIPTION" -> WriteText(device, w, "Description", 64)
      [] w.property = "MODEL_NAME"  -> WriteText(device, w, "Model_Name", 32)
      [] w.property \in {"OBJECT_TYPE", "VENDOR_NAME", "FIRMWARE_REVISION",
           "APPLICATION_SOFTWARE_VERSION", "UTC_OFFSET", "DAYLIGHT_SAVINGS_STATUS",
           "PROTOCOL_VERSION", "PROTOCOL_REVISION", "PROTOCOL_SERVICES_SUPPORTED",
           "PROTOCOL_OBJECT_TYPES_SUPPORTED", "OBJECT_LIST", "MAX_APDU_LENGTH_ACCEPTED",
           "SEGMENTATION_SUPPORTED", "DEVICE_ADDRESS_BINDING", "DATABASE_REVISION",
           "ACTIVE_COV_SUBSCRIPTIONS"} -> AccessDenied(device)
      [] OTHER -> UnknownProperty(device))

WriteByType(db, type, i, w) ==
  LET t == db[type]
  IN CASE type = "DEVICE"        -> Device_Write_Property_Local(db, w)
       [] type = "ANALOG_INPUT"  -> AI_Write_Property(t, i, w)
       [] type = "ANALOG_OUTPUT" -> AO_Write_Property(t, i, w)
       [] type = "ANALOG_VALUE"  -> AV_Write_Property(t, i, w)
       [] type = "BINARY_INPUT"  -> BI_Write_Property(t, i, w)
       [] type = "BINARY_OUTPUT" -> BO_Write_Property(t, i, w)
       [] type = "BINARY_VALUE"  -> BV_Write_Property(t, i, w)
       [] type = "MULTI_STATE_INPUT"  -> MSI_Write_Property(t, i, w)
       [] type = "MULTI_STATE_OUTPUT" -> MSO_Write_Property(t, i, w)
       [] type = "MULTI_STATE_VALUE"  -> MSV_Write_Property(t, i, w)
       [] type = "INTEGER_VALUE"          -> IV_Write_Property(t, i, w)
       [] type = "POSITIVE_INTEGER_VALUE" -> PIV_Write_Property(t, i, w)
       [] type = "CHARACTERSTRING_VALUE"  -> CSV_Write_Property(t, i, w)
       [] type = "LARGE_ANALOG_VALUE"     -> LAV_Write_Property(t, i, w)
       [] type = "TREND_LOG"    -> TL_Write_Property(t, i, w)
       [] type = "ACCUMULATOR"  -> ACC_Write_Property(t, i, w)
       [] type = "NETWORK_PORT" -> NP_Write_Property(t, i, w)
       [] type = "SCHEDULE"     -> SCH_Write_Property(t, i, w)

\* Device_Write_Property: the database after the write, and what to answer.
Device_Write_Property(db, type, i, w) ==
  IF ~Valid_Object_Id(db, type, i)
  THEN [ok |-> FALSE, db |-> db, error |-> <<"OBJECT", "UNKNOWN_OBJECT">>]
  ELSE LET result == WriteByType(db, type, i, w)
       IN  [ok |-> result.ok, db |-> [db EXCEPT ![type] = result.table],
            error |-> result.error]
=============================================================================
