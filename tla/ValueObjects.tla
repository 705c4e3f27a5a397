---------------------------- MODULE ValueObjects ----------------------------
(***************************************************************************)
(* The objects that are not commandable: inputs (ai.c, bi.c, msi.c, acc.c)  *)
(* and values (av.c, iv.c, piv.c, lav.c, csv.c).  A type is a table         *)
(* Instances -> object.  The intrinsic reporting of ai.c and av.c is        *)
(* compiled out and left out here.                                          *)
(***************************************************************************)
EXTENDS Properties

Set(table, i, value) == Written([table EXCEPT ![i].Present_Value = value])

Abs(n) == IF n < 0 THEN -n ELSE n

-----------------------------------------------------------------------------
(***************************************************************************)
(* Analog input: ai.c.  The present value may be written only while the     *)
(* object is out of service; Changed is kept for a COV service the object   *)
(* table of this device does not offer for it.                              *)
(***************************************************************************)
\* Mutant: a property is listed that the switch has no case for.
AI_Lists_Too_Much ==
  Lists(CommonRequired \o <<"UNITS">>, <<"DESCRIPTION", "DEVICE_TYPE", "COV_INCREMENT">>, << >>)

AI_Property_Lists ==
  Lists(CommonRequired \o <<"UNITS">>, <<"DESCRIPTION", "RELIABILITY", "COV_INCREMENT">>,
        <<"PROPRIETARY_9997", "PROPRIETARY_9998", "PROPRIETARY_9999">>)

AI_Init == [i \in Instances |->
  [Present_Value |-> 0, Prior_Value |-> 0, COV_Increment |-> 2, Changed |-> FALSE,
   Units |-> PERCENT, Out_Of_Service |-> FALSE]]

AI_Instances == Instances
AI_Count     == 1

AI_Object_Name(i) == Ansi("ANALOG_INPUT", i)

\* One object, told of a value: a change at least as large as the increment counts.
AI_COV_Detect(ai, value) ==
  IF Abs(value - ai.Prior_Value) >= ai.COV_Increment
  THEN [ai EXCEPT !.Changed = TRUE, !.Prior_Value = value]
  ELSE ai

AI_Present_Value_Set(table, i, value) ==
  [table EXCEPT ![i] = [AI_COV_Detect(@, value) EXCEPT !.Present_Value = value]]

AI_COV_Increment_Set(table, i, increment) ==
  [table EXCEPT ![i] =
     AI_COV_Detect([@ EXCEPT !.COV_Increment = increment], table[i].Present_Value)]

AI_Out_Of_Service_Set(table, i, flag) ==
  [table EXCEPT ![i].Out_Of_Service = flag,
                ![i].Changed = @ \/ table[i].Out_Of_Service # flag]

AI_Read_Property(table, i, p, index) ==
  Read(ObjectProperties("ANALOG_INPUT", i, table[i].Out_Of_Service,
         [PRESENT_VALUE |-> One(Real(table[i].Present_Value)),
          RELIABILITY   |-> One(Enumerated("NO_FAULT_DETECTED")),
          UNITS         |-> One(Enumerated(table[i].Units)),
          COV_INCREMENT |-> One(Real(table[i].COV_Increment)),
          PROPRIETARY_9997 |-> One(Real(181)),
          PROPRIETARY_9998 |-> One(Unsigned(90)),
          PROPRIETARY_9999 |-> One(Signed(-200))]), p, index)

AI_Write_Property(table, i, w) ==
  Write(table, w, {"EVENT_TIME_STAMPS"},
    CASE w.property = "PRESENT_VALUE" ->
           ValidateArgType(table, w.value, "REAL",
             IF table[i].Out_Of_Service
             THEN Written(AI_Present_Value_Set(table, i, w.value.datum))
             ELSE AccessDenied(table))
      [] w.property = "OUT_OF_SERVICE" ->
           ValidateArgType(table, w.value, "BOOLEAN",
             Written(AI_Out_Of_Service_Set(table, i, w.value.datum)))
      [] w.property = "UNITS" -> WriteUnits(table, i, w, UINT8_ROOM)
      [] w.property = "COV_INCREMENT" ->
           ValidateArgType(table, w.value, "REAL",
             IF w.value.datum >= 0 THEN Written(AI_COV_Increment_Set(table, i, w.value.datum))
             ELSE OutOfRange(table))
      [] w.property \in {"OBJECT_IDENTIFIER", "OBJECT_NAME", "OBJECT_TYPE", "STATUS_FLAGS",
           "EVENT_STATE", "DESCRIPTION", "RELIABILITY", "PROPRIETARY_9997", "PROPRIETARY_9998",
           "PROPRIETARY_9999"} ->
           AccessDenied(table)
      [] OTHER -> UnknownProperty(table))

-----------------------------------------------------------------------------
(***************************************************************************)
(* Binary input: bi.c, the one type with change-of-value reporting.  The    *)
(* stored value is the physical one; Polarity turns it round when it is     *)
(* read and when it is set.                                                 *)
(***************************************************************************)
BI_Property_Lists == Lists(CommonRequired \o <<"POLARITY">>, <<"DESCRIPTION">>, << >>)

BI_Init == [i \in Instances |->
  [Present_Value |-> 0, Polarity |-> 0, Change_Of_Value |-> FALSE, Out_Of_Service |-> FALSE]]

BI_Instances == Instances
BI_Count     == 1

BI_Object_Name(i) == Ansi("BINARY_INPUT", i)

BI_Polarised(bi, value) == IF bi.Polarity # 0 THEN 1 - value ELSE value

BI_Present_Value(table, i) == BI_Polarised(table[i], table[i].Present_Value)

\* Mutant: the polarity is left out on the way in.
BI_Present_Value_Stored(table, i, value) ==
  [table EXCEPT ![i].Present_Value = value,
                ![i].Change_Of_Value = @ \/ table[i].Present_Value # value]

BI_Present_Value_Set(table, i, value) ==
  LET stored == BI_Polarised(table[i], value)
  IN  [table EXCEPT ![i].Present_Value = stored,
                    ![i].Change_Of_Value = @ \/ table[i].Present_Value # stored]

BI_Out_Of_Service_Set(table, i, flag) ==
  [table EXCEPT ![i].Out_Of_Service = flag,
                ![i].Change_Of_Value = @ \/ table[i].Out_Of_Service # flag]

\* The stored value stays, so what is read turns round; no change is noted.
BI_Polarity_Set(table, i, polarity) == [table EXCEPT ![i].Polarity = polarity]

BI_Read_Property(table, i, p, index) ==
  Read(ObjectProperties("BINARY_INPUT", i, table[i].Out_Of_Service,
         [PRESENT_VALUE |-> One(Enumerated(BI_Present_Value(table, i))),
          POLARITY      |-> One(Enumerated(table[i].Polarity))]), p, index)

BI_Write_Property(table, i, w) ==
  Write(table, w, {},
    CASE w.property = "PRESENT_VALUE" ->
           ValidateArgType(table, w.value, "ENUMERATED",
             IF w.value.datum \in {0, 1}
             THEN Written(BI_Present_Value_Set(table, i, w.value.datum))
             ELSE OutOfRange(table))
      [] w.property = "OUT_OF_SERVICE" ->
           ValidateArgType(table, w.value, "BOOLEAN",
             Written(BI_Out_Of_Service_Set(table, i, w.value.datum)))
      [] w.property = "POLARITY" ->
           ValidateArgType(table, w.value, "ENUMERATED",
             IF w.value.datum \in {0, 1} THEN Written(BI_Polarity_Set(table, i, w.value.datum))
             ELSE OutOfRange(table))
      [] w.property \in {"OBJECT_IDENTIFIER", "OBJECT_NAME", "DESCRIPTION", "OBJECT_TYPE",
           "STATUS_FLAGS", "EVENT_STATE"} -> AccessDenied(table)
      [] OTHER -> UnknownProperty(table))

-----------------------------------------------------------------------------
(***************************************************************************)
(* Multi-state input: msi.c.  In service nothing may write its value, and   *)
(* that is said before the type of what is written is looked at.            *)
(***************************************************************************)
MSI_Property_Lists == Lists(CommonRequired \o <<"NUMBER_OF_STATES">>, <<"DESCRIPTION">>, << >>)

MSI_Init == [i \in Instances |-> [Present_Value |-> 1, Out_Of_Service |-> FALSE]]

MSI_Instances == Instances
MSI_Count     == MaxObjects

MSI_Object_Name(i) == Ansi("MULTI_STATE_INPUT", i)

MSI_Read_Property(table, i, p, index) ==
  Read(ObjectProperties("MULTI_STATE_INPUT", i, table[i].Out_Of_Service,
         [PRESENT_VALUE    |-> One(Unsigned(table[i].Present_Value)),
          NUMBER_OF_STATES |-> One(Unsigned(3))]), p, index)

MSI_Write_Property(table, i, w) ==
  Write(table, w, {"PRIORITY_ARRAY"},
    CASE w.property = "PRESENT_VALUE" ->
           IF ~table[i].Out_Of_Service THEN AccessDenied(table)
           ELSE ValidateArgType(table, w.value, "UNSIGNED_INT",
                  IF w.value.datum \in 1..3 THEN Set(table, i, w.value.datum)
                  ELSE OutOfRange(table))
      [] w.property = "OUT_OF_SERVICE" -> WriteOutOfService(table, i, w)
      [] OTHER -> AccessDenied(table))

-----------------------------------------------------------------------------
(***************************************************************************)
(* Accumulator: acc.c.  The count stops at its maximum (2^32 - 1 in the     *)
(* code, a bound of the model here) instead of wrapping.                    *)
(***************************************************************************)
Max_Pres_Value == 3   \* bound: 0xFFFFFFFF

ACC_Property_Lists ==
  Lists(CommonRequired \o <<"SCALE", "UNITS", "MAX_PRES_VALUE", "VALUE_CHANGE_TIME">>,
        <<"DESCRIPTION", "PRESCALE">>, << >>)

ACC_Init == [i \in Instances |->
  [Present_Value |-> 0, Value_Change_Time |-> 0, Units |-> NO_UNITS,
   Out_Of_Service |-> FALSE]]

ACC_Instances == Instances
ACC_Count     == MaxObjects

ACC_Object_Name(i) == Ansi("ACCUMULATOR", i)

ACC_Present_Value_Increment(table, i, pulses, now) ==
  [table EXCEPT ![i].Present_Value =
                   IF Max_Pres_Value - @ < pulses THEN Max_Pres_Value ELSE @ + pulses,
                ![i].Value_Change_Time = now]

ACC_Read_Property(table, i, p, index) ==
  IF p = "PRESCALE" THEN Answer(<<Unsigned(1), Unsigned(1)>>)  \* with any index
  ELSE Read(ObjectProperties("ACCUMULATOR", i, table[i].Out_Of_Service,
         [PRESENT_VALUE     |-> One(Unsigned(table[i].Present_Value)),
          UNITS             |-> One(Enumerated(table[i].Units)),
          SCALE             |-> One(Signed(0)),
          MAX_PRES_VALUE    |-> One(Unsigned(Max_Pres_Value)),
          VALUE_CHANGE_TIME |-> List(<<DateValue(table[i].Value_Change_Time),
                                       TimeValue(table[i].Value_Change_Time)>>)]), p, index)

ACC_Write_Property(table, i, w) ==
  Write(table, w, {"PRIORITY_ARRAY"},
    CASE w.property = "OUT_OF_SERVICE" -> WriteOutOfService(table, i, w)
      [] w.property = "UNITS" -> WriteUnits(table, i, w, UINT16_ROOM)
      [] OTHER -> AccessDenied(table))

-----------------------------------------------------------------------------
(***************************************************************************)
(* Analog value: av.c.  The priority of a write is not looked at, and a     *)
(* value of another type is out of range.  ScheduleControl has the LED that *)
(* follows instance 0.                                                      *)
(***************************************************************************)
AV_Property_Lists == Lists(CommonRequired \o <<"UNITS">>, <<"DESCRIPTION">>, << >>)

AV_Init == [i \in Instances |->
  [Present_Value |-> 0, Units |-> NO_UNITS, Out_Of_Service |-> FALSE]]

AV_Instances == Instances
AV_Count     == 1

AV_Object_Name(i) == Ansi("ANALOG_VALUE", i)

AV_Read_Property(table, i, p, index) ==
  Read(ObjectProperties("ANALOG_VALUE", i, table[i].Out_Of_Service,
         [PRESENT_VALUE |-> One(Real(table[i].Present_Value)),
          UNITS         |-> One(Enumerated(table[i].Units))]), p, index)

AV_Write_Property(table, i, w) ==
  Write(table, w, {"PRIORITY_ARRAY", "EVENT_TIME_STAMPS"},
    CASE w.property = "PRESENT_VALUE" ->
           IF w.value.tag = "REAL" THEN Set(table, i, w.value.datum) ELSE OutOfRange(table)
      [] w.property = "OUT_OF_SERVICE" -> WriteOutOfService(table, i, w)
      [] w.property = "UNITS" -> WriteUnits(table, i, w, UINT16_ROOM)
      [] w.property \in {"OBJECT_IDENTIFIER", "OBJECT_NAME", "OBJECT_TYPE", "STATUS_FLAGS",
           "EVENT_STATE", "DESCRIPTION"} -> AccessDenied(table)
      [] OTHER -> UnknownProperty(table))

-----------------------------------------------------------------------------
(***************************************************************************)
(* Integer, positive integer and large analog values: iv.c, piv.c, lav.c.   *)
(* Any value of the right type is taken, at any priority.                   *)
(***************************************************************************)
NumberProperties(type, table, i, value) ==
  ObjectProperties(type, i, table[i].Out_Of_Service,
    [PRESENT_VALUE |-> One(value), UNITS |-> One(Enumerated(table[i].Units))])

WriteNumber(table, i, w, tag) ==
  Write(table, w, {"PRIORITY_ARRAY"},
    CASE w.property = "PRESENT_VALUE" ->
           ValidateArgType(table, w.value, tag, Set(table, i, w.value.datum))
      [] w.property = "OUT_OF_SERVICE" -> WriteOutOfService(table, i, w)
      [] w.property = "UNITS" -> WriteUnits(table, i, w, UINT16_ROOM)
      [] OTHER -> AccessDenied(table))

NumberInit == [i \in Instances |->
  [Present_Value |-> 0, Units |-> NO_UNITS, Out_Of_Service |-> FALSE]]

IV_Property_Lists == Lists(CommonRequired, <<"DESCRIPTION", "UNITS">>, << >>)
IV_Init      == NumberInit
IV_Instances == Instances
IV_Count     == MaxObjects
IV_Object_Name(i) == Ansi("INTEGER_VALUE", i)
IV_Read_Property(table, i, p, index) ==
  Read(NumberProperties("INTEGER_VALUE", table, i, Signed(table[i].Present_Value)), p, index)
IV_Write_Property(table, i, w) == WriteNumber(table, i, w, "SIGNED_INT")

PIV_Property_Lists == Lists(CommonRequired, <<"DESCRIPTION", "UNITS">>, << >>)
PIV_Init      == NumberInit
PIV_Instances == Instances
PIV_Count     == MaxObjects
PIV_Object_Name(i) == Ansi("POSITIVE_INTEGER_VALUE", i)
PIV_Read_Property(table, i, p, index) ==
  Read(NumberProperties("POSITIVE_INTEGER_VALUE", table, i, Unsigned(table[i].Present_Value)),
       p, index)
PIV_Write_Property(table, i, w) == WriteNumber(table, i, w, "UNSIGNED_INT")

LAV_Property_Lists == Lists(CommonRequired \o <<"UNITS">>, <<"DESCRIPTION">>, << >>)
LAV_Init      == NumberInit
LAV_Instances == Instances
LAV_Count     == MaxObjects
LAV_Object_Name(i) == Ansi("LARGE_ANALOG_VALUE", i)
LAV_Read_Property(table, i, p, index) ==
  Read(NumberProperties("LARGE_ANALOG_VALUE", table, i, Double(table[i].Present_Value)), p, index)
LAV_Write_Property(table, i, w) == WriteNumber(table, i, w, "DOUBLE")

-----------------------------------------------------------------------------
(***************************************************************************)
(* Character string value: csv.c.  The octets are copied up to the first    *)
(* zero one and no more than 63 of them; the encoding is not kept, and a    *)
(* reader is told ANSI.  Text in UCS-2 starts with a zero octet.            *)
(***************************************************************************)
MAX_CSV_STRING_LEN == 64

EmptyText == [text |-> <<"", 0>>, encoding |-> "ANSI_X34", length |-> 0, printable |-> TRUE]

CSV_Copied(s) ==
  IF s.encoding = "UCS2" \/ s.length = 0 THEN EmptyText
  ELSE [s EXCEPT !.encoding = "ANSI_X34",
                 !.length = IF @ < MAX_CSV_STRING_LEN THEN @ ELSE MAX_CSV_STRING_LEN - 1]

CSV_Property_Lists == Lists(CommonRequired, <<"DESCRIPTION">>, << >>)

CSV_Init == [i \in Instances |-> [Present_Value |-> EmptyText, Out_Of_Service |-> FALSE]]

CSV_Instances == Instances
CSV_Count     == MaxObjects

CSV_Object_Name(i) == Ansi("CHARACTERSTRING_VALUE", i)

CSV_Read_Property(table, i, p, index) ==
  Read(ObjectProperties("CHARACTERSTRING_VALUE", i, table[i].Out_Of_Service,
         [PRESENT_VALUE |-> One(Characters(table[i].Present_Value))]), p, index)

CSV_Write_Property(table, i, w) ==
  Write(table, w, {"PRIORITY_ARRAY"},
    CASE w.property = "PRESENT_VALUE" ->
           ValidateArgType(table, w.value, "CHARACTER_STRING",
             Set(table, i, CSV_Copied(w.value.datum)))
      [] w.property = "OUT_OF_SERVICE" -> WriteOutOfService(table, i, w)
      [] OTHER -> AccessDenied(table))
=============================================================================
