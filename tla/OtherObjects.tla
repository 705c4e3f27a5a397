---------------------------- MODULE OtherObjects ----------------------------
(***************************************************************************)
(* The trend log (tl.c), the network port (np.c) and what the schedule     *)
(* (schedule.c) shows of itself; its control loop is ScheduleControl.      *)
(***************************************************************************)
EXTENDS Properties

CONSTANT BufferSize   \* bound: TREND_LOG_BUFFER_SIZE

ASSUME BufferSizeAssumption == BufferSize \in Nat \ {0}

-----------------------------------------------------------------------------
(***************************************************************************)
(* Trend log: a ring of BufferSize records.  While it fills, records go    *)
(* behind each other; once full, to `head`, the oldest one.                *)
(***************************************************************************)
TL_Property_Lists ==
  Lists(<<"OBJECT_IDENTIFIER", "OBJECT_NAME", "OBJECT_TYPE", "ENABLE", "BUFFER_SIZE",
          "LOG_BUFFER", "RECORD_COUNT", "TOTAL_RECORD_COUNT", "EVENT_STATE", "STATUS_FLAGS">>,
        <<"DESCRIPTION", "START_TIME", "STOP_TIME", "LOG_INTERVAL">>, << >>)

NoRecord == 0

TL_Init == [i \in Instances |->
  [Enable |-> TRUE, Log_Interval |-> 100, Record_Count |-> 0, Total_Record_Count |-> 0,
   head |-> 0, Buffer |-> [slot \in 0..(BufferSize - 1) |-> NoRecord]]]

TL_Instances == Instances
TL_Count     == MaxObjects

TL_Object_Name(i) == Ansi("TREND_LOG", i)

\* Nothing in the program calls it: a log is filled by whoever extends it.
TL_Add_Record(table, i, record) ==
  LET tl   == table[i]
      full == tl.Record_Count = BufferSize
      slot == IF full THEN tl.head ELSE tl.Record_Count
  IN  IF ~tl.Enable THEN table
      ELSE [table EXCEPT
              ![i].Buffer[slot]       = record,
              ![i].Record_Count       = IF full THEN @ ELSE @ + 1,
              ![i].head               = IF full THEN (@ + 1) % BufferSize ELSE @,
              ![i].Total_Record_Count = @ + 1]

Forever == <<DateValue("any"), TimeValue("any")>>

\* The log itself is for ReadRange: it is refused with a class of its own.
TL_Read_Property(table, i, p, index) ==
  IF p = "LOG_BUFFER" THEN Refusal("SERVICES", "PROPERTY_IS_NOT_AN_ARRAY")
  ELSE Read(ObjectProperties("TREND_LOG", i, FALSE,
         [ENABLE             |-> One(Boolean(table[i].Enable)),
          BUFFER_SIZE        |-> One(Unsigned(BufferSize)),
          RECORD_COUNT       |-> One(Unsigned(table[i].Record_Count)),
          TOTAL_RECORD_COUNT |-> One(Unsigned(table[i].Total_Record_Count)),
          LOG_INTERVAL       |-> One(Unsigned(table[i].Log_Interval)),
          START_TIME         |-> List(Forever),
          STOP_TIME          |-> List(Forever)]), p, index)

\* Record_Count takes only zero, which empties the log; a value of another
\* type is said to be out of range as well.
TL_Write_Property(table, i, w) ==
  Write(table, w, {"PRIORITY_ARRAY"},
    CASE w.property = "ENABLE" ->
           ValidateArgType(table, w.value, "BOOLEAN",
             Written([table EXCEPT ![i].Enable = w.value.datum]))
      [] w.property = "RECORD_COUNT" ->
           IF w.value.tag = "UNSIGNED_INT" /\ w.value.datum = 0
           THEN Written([table EXCEPT ![i].Record_Count = 0, ![i].head = 0])
           ELSE OutOfRange(table)
      [] w.property = "LOG_INTERVAL" ->
           ValidateArgType(table, w.value, "UNSIGNED_INT",
             Written([table EXCEPT ![i].Log_Interval = w.value.datum]))
      [] OTHER -> AccessDenied(table))

-----------------------------------------------------------------------------
(***************************************************************************)
(* Network port: one object that shows how the device is reached.  A write *)
(* to the UDP port or the network number is kept as uint16_t and noted as  *)
(* pending; no code ever applies it or takes the note back.                *)
(***************************************************************************)
NP_Property_Lists ==
  Lists(<<"OBJECT_IDENTIFIER", "OBJECT_NAME", "OBJECT_TYPE", "STATUS_FLAGS", "RELIABILITY",
          "OUT_OF_SERVICE", "NETWORK_NUMBER", "CHANGES_PENDING", "APDU_LENGTH", "LINK_SPEED">>,
        <<"DESCRIPTION", "MAC_ADDRESS", "IP_ADDRESS", "IP_DEFAULT_GATEWAY", "IP_SUBNET_MASK",
          "IP_DNS_SERVER", "BACNET_IP_UDP_PORT">>, << >>)

\* Network_Port_IP_Set: what on start the address, mask and gateway are set to.
NP_IP_Set(np, address, mask, gateway, port) ==
  [np EXCEPT !.IP_Address = address, !.IP_Subnet_Mask = mask,
             !.IP_Default_Gateway = gateway,
             !.UDP_Port = IF port # 0 THEN port ELSE @]

NP_Init == [i \in {0} |->
  [IP_Address |-> "none", IP_Subnet_Mask |-> "none", IP_Default_Gateway |-> "none",
   UDP_Port |-> 47808, Network_Number |-> 0, Changes_Pending |-> FALSE]]

\* app_main, with the address DHCP gave; port 0 would leave it.
NP_Started == [i \in {0} |-> NP_IP_Set(NP_Init[i], "address", "mask", "gateway", 47808)]

NP_Instances == {0}
NP_Count     == 1

NP_Object_Name(i) == Ansi("NETWORK_PORT", i)

NP_Read_Property(table, i, p, index) ==
  LET np == table[i]
  IN  Read([OBJECT_IDENTIFIER  |-> One(ObjectId("NETWORK_PORT", i)),
            OBJECT_NAME        |-> One(Characters(NP_Object_Name(i))),
            DESCRIPTION        |-> One(Characters(NP_Object_Name(i))),
            OBJECT_TYPE        |-> One(Enumerated("NETWORK_PORT")),
            STATUS_FLAGS       |-> One(Flags(FALSE)),
            RELIABILITY        |-> One(Enumerated("NO_FAULT_DETECTED")),
            OUT_OF_SERVICE     |-> One(Boolean(FALSE)),
            NETWORK_NUMBER     |-> One(Unsigned(np.Network_Number)),
            CHANGES_PENDING    |-> One(Boolean(np.Changes_Pending)),
            APDU_LENGTH        |-> One(Unsigned(1476)),
            LINK_SPEED         |-> One(Real(200000000)),
            MAC_ADDRESS        |-> One(Octets(<<np.IP_Address, np.UDP_Port>>)),
            IP_ADDRESS         |-> One(Octets(<<np.IP_Address, 0>>)),
            IP_DEFAULT_GATEWAY |-> One(Octets(<<np.IP_Default_Gateway, 0>>)),
            IP_SUBNET_MASK     |-> One(Octets(<<np.IP_Subnet_Mask, 0>>)),
            IP_DNS_SERVER      |-> Array(<<<<Octets(<<"none", 0>>)>>>>),
            BACNET_IP_UDP_PORT |-> One(Unsigned(np.UDP_Port))], p, index)

NP_Write_Property(table, i, w) ==
  LET pending(t) == Written([t EXCEPT ![i].Changes_Pending = TRUE])
  IN  Write(table, w, {"PRIORITY_ARRAY"},
        CASE w.property = "BACNET_IP_UDP_PORT" ->
               ValidateArgType(table, w.value, "UNSIGNED_INT",
                 pending([table EXCEPT ![i].UDP_Port = w.value.datum % 65536]))
          [] w.property = "NETWORK_NUMBER" ->
               ValidateArgType(table, w.value, "UNSIGNED_INT",
                 pending([table EXCEPT ![i].Network_Number = w.value.datum % 65536]))
          [] OTHER -> AccessDenied(table))

-----------------------------------------------------------------------------
(***************************************************************************)
(* Schedule: its properties as they are read, and the two that may be      *)
(* written.  No index is ever refused but that of the weekly schedule, and *)
(* the list of references is answered with no value at all.                *)
(***************************************************************************)
SCH_Property_Lists ==
  Lists(<<"OBJECT_IDENTIFIER", "OBJECT_NAME", "OBJECT_TYPE", "PRESENT_VALUE",
          "EFFECTIVE_PERIOD", "SCHEDULE_DEFAULT", "LIST_OF_OBJECT_PROPERTY_REFERENCES",
          "PRIORITY_FOR_WRITING", "STATUS_FLAGS", "RELIABILITY", "OUT_OF_SERVICE">>,
        <<"WEEKLY_SCHEDULE">>, << >>)

Schedule_Default == Real(42)

SCH_Init == [i \in Instances |-> [Present_Value |-> Schedule_Default, Out_Of_Service |-> FALSE]]

SCH_Instances == Instances
SCH_Count     == MaxObjects

SCH_Object_Name(i) == Ansi("SCHEDULE", i)

\* A day without entries: an opening and a closing tag.
SCH_Weekly_Schedule_Encode(i, day) == <<[tag |-> "DAILY_SCHEDULE", datum |-> 0]>>

SCH_Read_Property(table, i, p, index) ==
  LET days   == [day \in 1..7 |-> SCH_Weekly_Schedule_Encode(i, day)]
      shown  == [OBJECT_IDENTIFIER |-> One(ObjectId("SCHEDULE", i)),
                 OBJECT_NAME       |-> One(Characters(SCH_Object_Name(i))),
                 OBJECT_TYPE       |-> One(Enumerated("SCHEDULE")),
                 PRESENT_VALUE     |-> One(table[i].Present_Value),
                 EFFECTIVE_PERIOD  |-> List(<<DateValue("JANUARY_1"), DateValue("DECEMBER_31")>>),
                 SCHEDULE_DEFAULT  |-> One(Schedule_Default),
                 LIST_OF_OBJECT_PROPERTY_REFERENCES |-> List(<< >>),
                 PRIORITY_FOR_WRITING |-> One(Unsigned(16)),
                 STATUS_FLAGS      |-> One(Flags(table[i].Out_Of_Service)),
                 RELIABILITY       |-> One(Enumerated("NO_FAULT_DETECTED")),
                 OUT_OF_SERVICE    |-> One(Boolean(table[i].Out_Of_Service)),
                 WEEKLY_SCHEDULE   |-> Array(days)]
  IN  Read(shown, p, IF p = "WEEKLY_SCHEDULE" THEN index ELSE ARRAY_ALL)

\* Any value becomes the present value of a schedule that is out of service.
\* What cannot be decoded is not refused and not modelled here.
SCH_Write_Property(table, i, w) ==
  CASE w.property = "PRESENT_VALUE" ->
         IF table[i].Out_Of_Service THEN Written([table EXCEPT ![i].Present_Value = w.value])
         ELSE AccessDenied(table)
    [] w.property = "OUT_OF_SERVICE" -> WriteOutOfService(table, i, w)
    [] w.property \in {"WEEKLY_SCHEDULE", "SCHEDULE_DEFAULT", "EFFECTIVE_PERIOD"} ->
         AccessDenied(table)
    [] OTHER -> UnknownProperty(table)
=============================================================================
