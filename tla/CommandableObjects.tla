------------------------- MODULE CommandableObjects -------------------------
(***************************************************************************)
(* The commandable objects: analog output (ao.c), binary value (bv.c),     *)
(* binary output (bo.c), multi-state output and value (mso.c, msv.c).      *)
(* A type is a table Instances -> object; an object's levels are what is   *)
(* commanded at each of the 16 priorities.  The five were written apart    *)
(* and differ in what they accept, above all at priority 6, which is kept  *)
(* for the minimum on/off algorithm.                                       *)
(***************************************************************************)
EXTENDS Properties

\* AO_LEVEL_NULL and BINARY_NULL, and for MSO_LEVEL_NULL (0): a level no command sets.
NULL == 255

NoLevels == [p \in Priorities |-> NULL]

\* The loop every Present_Value function runs: the first level that is set.
Highest(levels, relinquish_default) ==
  LET active == {p \in Priorities : levels[p] # NULL}
  IN  IF active = {} THEN relinquish_default
      ELSE levels[CHOOSE p \in active : \A q \in active : p <= q]

\* A level as the element of the priority array that is sent for it.
LevelElements(levels, Value(_)) ==
  [p \in Priorities |-> IF levels[p] = NULL THEN <<Null>> ELSE <<Value(levels[p])>>]

Command(table, i, priority, level) ==
  Written([table EXCEPT ![i].Level[priority] = level])

-----------------------------------------------------------------------------
(***************************************************************************)
(* Analog output: ao.c                                                     *)
(***************************************************************************)
AO_Property_Lists ==
  Lists(CommonRequired \o <<"UNITS", "PRIORITY_ARRAY", "RELINQUISH_DEFAULT">>, << >>, << >>)

AO_Init == [i \in Instances |-> [Level |-> NoLevels, Out_Of_Service |-> FALSE]]

\* Valid_Instance, Count, Index_To_Instance, Instance_To_Index: all listed.
AO_Instances == Instances
AO_Count     == MaxObjects

AO_RELINQUISH_DEFAULT == 0

AO_Present_Value(table, i) == Highest(table[i].Level, AO_RELINQUISH_DEFAULT)

\* The table is of uint8_t: the fraction of the value is cut off.
AO_Present_Value_Set(table, i, halves, priority) ==
  IF priority \in Priorities \ {6} /\ halves \in 0..200
  THEN Command(table, i, priority, halves \div 2)
  ELSE OutOfRange(table)

AO_Present_Value_Relinquish(table, i, priority) ==
  IF priority \in Priorities \ {6} THEN Command(table, i, priority, NULL)
  ELSE OutOfRange(table)

AO_Object_Name(i) == Ansi("ANALOG_OUTPUT", i)

AO_Read_Property(table, i, p, index) ==
  LET percent(level) == Real(2 * level)
  IN  Read(ObjectProperties("ANALOG_OUTPUT", i, table[i].Out_Of_Service,
             [PRESENT_VALUE      |-> One(percent(AO_Present_Value(table, i))),
              UNITS              |-> One(Enumerated(PERCENT)),
              PRIORITY_ARRAY     |-> Array(LevelElements(table[i].Level, percent)),
              RELINQUISH_DEFAULT |-> One(percent(AO_RELINQUISH_DEFAULT))]), p, index)

\* Whatever is not a REAL is taken for a relinquishment, which has to be a NULL.
AO_Write_Property(table, i, w) ==
  Write(table, w, {"PRIORITY_ARRAY"},
    CASE w.property = "PRESENT_VALUE" ->
           IF w.value.tag = "REAL"
           THEN IF w.priority = 6 THEN AccessDenied(table)
                ELSE AO_Present_Value_Set(table, i, w.value.datum, w.priority)
           ELSE ValidateArgType(table, w.value, "NULL",
                  AO_Present_Value_Relinquish(table, i, w.priority))
      [] w.property = "OUT_OF_SERVICE" -> WriteOutOfService(table, i, w)
      [] w.property \in {"OBJECT_IDENTIFIER", "OBJECT_NAME", "OBJECT_TYPE", "STATUS_FLAGS",
           "EVENT_STATE", "UNITS", "PRIORITY_ARRAY", "RELINQUISH_DEFAULT", "DESCRIPTION"} ->
           AccessDenied(table)
      [] OTHER -> UnknownProperty(table))

-----------------------------------------------------------------------------
(***************************************************************************)
(* What bv.c and bo.c share: the case PROP_PRESENT_VALUE of their switch.  *)
(* A command is refused at priority 6, a relinquishment is not.            *)
(***************************************************************************)
WriteBinary(table, i, w) ==
  IF w.value.tag = "ENUMERATED"
  THEN IF w.priority \in Priorities \ {6} /\ w.value.datum \in {0, 1}
       THEN Command(table, i, w.priority, w.value.datum)
       ELSE IF w.priority = 6 THEN AccessDenied(table)
       ELSE OutOfRange(table)
  ELSE ValidateArgType(table, w.value, "NULL",
         IF w.priority \in Priorities THEN Command(table, i, w.priority, NULL)
         ELSE OutOfRange(table))

INACTIVE == 0   \* RELINQUISH_DEFAULT of both

(***************************************************************************)
(* Binary value: bv.c.  Only the first of its instances is listed.         *)
(***************************************************************************)
BV_Property_Lists ==
  Lists(CommonRequired, <<"DESCRIPTION", "PRIORITY_ARRAY", "RELINQUISH_DEFAULT">>, << >>)

BV_Init == [i \in Instances |-> [Level |-> NoLevels, Out_Of_Service |-> FALSE]]

BV_Instances == Instances
BV_Count     == 1

BV_Present_Value(table, i) == Highest(table[i].Level, INACTIVE)

BV_Object_Name(i) == Ansi("BINARY_VALUE", i)

(***************************************************************************)
(* An element of the priority array is read one place too far: element n   *)
(* is level n + 1, and element 16 the first level of the next instance.    *)
(* What lies behind the last instance is not modelled.                     *)
(***************************************************************************)
BV_Level_Read(table, i, n) ==
  IF n < 16 THEN table[i].Level[n + 1] ELSE table[i + 1].Level[1]

BV_Read_Property(table, i, p, index) ==
  IF p = "PRIORITY_ARRAY" /\ index \in Priorities
  THEN LET level == BV_Level_Read(table, i, index)
       IN  Answer(<<IF level = NULL THEN Null ELSE Enumerated(level)>>)
  ELSE Read(ObjectProperties("BINARY_VALUE", i, table[i].Out_Of_Service,
              [PRESENT_VALUE      |-> One(Enumerated(BV_Present_Value(table, i))),
               PRIORITY_ARRAY     |-> Array(LevelElements(table[i].Level, Enumerated)),
               RELINQUISH_DEFAULT |-> One(Enumerated(INACTIVE))]), p, index)

BV_Write_Property(table, i, w) ==
  Write(table, w, {"PRIORITY_ARRAY"},
    CASE w.property = "PRESENT_VALUE"  -> WriteBinary(table, i, w)
      [] w.property = "OUT_OF_SERVICE" -> WriteOutOfService(table, i, w)
      [] w.property \in {"OBJECT_IDENTIFIER", "OBJECT_NAME", "DESCRIPTION", "OBJECT_TYPE",
           "STATUS_FLAGS", "EVENT_STATE", "PRIORITY_ARRAY", "RELINQUISH_DEFAULT"} ->
           AccessDenied(table)
      [] OTHER -> UnknownProperty(table))

-----------------------------------------------------------------------------
(***************************************************************************)
(* Binary output: bo.c.  Its status flags never say it is out of service,  *)
(* and a write to its description finds no such property.                  *)
(***************************************************************************)
BO_Property_Lists ==
  Lists(CommonRequired \o <<"POLARITY", "PRIORITY_ARRAY", "RELINQUISH_DEFAULT">>,
        <<"DESCRIPTION", "ACTIVE_TEXT", "INACTIVE_TEXT">>, << >>)

BO_Init == [i \in Instances |-> [Level |-> NoLevels, Out_Of_Service |-> FALSE]]

BO_Instances == Instances
BO_Count     == MaxObjects

BO_Present_Value(table, i) == Highest(table[i].Level, INACTIVE)

BO_Object_Name(i) == Ansi("BINARY_OUTPUT", i)

BO_Read_Property(table, i, p, index) ==
  Read(ObjectProperties("BINARY_OUTPUT", i, table[i].Out_Of_Service,
         [STATUS_FLAGS       |-> One(Flags(FALSE)),
          PRESENT_VALUE      |-> One(Enumerated(BO_Present_Value(table, i))),
          POLARITY           |-> One(Enumerated("NORMAL")),
          ACTIVE_TEXT        |-> One(Characters(Ansi("on", 0))),
          INACTIVE_TEXT      |-> One(Characters(Ansi("off", 0))),
          PRIORITY_ARRAY     |-> Array(LevelElements(table[i].Level, Enumerated)),
          RELINQUISH_DEFAULT |-> One(Enumerated(INACTIVE))]), p, index)

BO_Write_Property(table, i, w) ==
  Write(table, w, {"PRIORITY_ARRAY"},
    CASE w.property = "PRESENT_VALUE"  -> WriteBinary(table, i, w)
      [] w.property = "OUT_OF_SERVICE" -> WriteOutOfService(table, i, w)
      [] w.property \in {"OBJECT_IDENTIFIER", "OBJECT_NAME", "OBJECT_TYPE", "STATUS_FLAGS",
           "RELIABILITY", "EVENT_STATE", "POLARITY", "PRIORITY_ARRAY", "RELINQUISH_DEFAULT",
           "ACTIVE_TEXT", "INACTIVE_TEXT"} -> AccessDenied(table)
      [] OTHER -> UnknownProperty(table))

-----------------------------------------------------------------------------
(***************************************************************************)
(* What mso.c and msv.c share: three states, of which the first is the     *)
(* relinquish default, and the cases of their switches.                    *)
(***************************************************************************)
States == 1..3

MultiState(type, table, i, value) ==
  ObjectProperties(type, i, table[i].Out_Of_Service,
    [PRESENT_VALUE      |-> One(Unsigned(value)),
     NUMBER_OF_STATES   |-> One(Unsigned(Cardinality(States))),
     PRIORITY_ARRAY     |-> Array(LevelElements(table[i].Level, Unsigned)),
     RELINQUISH_DEFAULT |-> One(Unsigned(1))])

\* Whatever is asked at priority 6 is denied before the value is looked at.
WriteMultiState(table, i, w) ==
  Write(table, w, {"PRIORITY_ARRAY"},
    CASE w.property = "PRESENT_VALUE" ->
           IF w.priority = 6 THEN AccessDenied(table)
           ELSE IF w.priority \in Priorities
                   /\ w.value.tag = "UNSIGNED_INT" /\ w.value.datum \in States
           THEN Command(table, i, w.priority, w.value.datum)
           ELSE IF w.priority \in Priorities /\ w.value.tag = "NULL"
           THEN Command(table, i, w.priority, NULL)
           ELSE OutOfRange(table)
      [] w.property = "OUT_OF_SERVICE" -> WriteOutOfService(table, i, w)
      [] OTHER -> AccessDenied(table))

\* Multi-state output: mso.c
MSO_Property_Lists ==
  Lists(CommonRequired \o <<"NUMBER_OF_STATES", "PRIORITY_ARRAY", "RELINQUISH_DEFAULT">>,
        <<"DESCRIPTION">>, << >>)

MSO_Init == [i \in Instances |-> [Level |-> NoLevels, Out_Of_Service |-> FALSE]]

MSO_Instances == Instances
MSO_Count     == MaxObjects
MSO_Present_Value(table, i) == Highest(table[i].Level, 1)
MSO_Object_Name(i) == Ansi("MULTI_STATE_OUTPUT", i)

MSO_Read_Property(table, i, p, index) ==
  Read(MultiState("MULTI_STATE_OUTPUT", table, i, MSO_Present_Value(table, i)), p, index)

MSO_Write_Property(table, i, w) == WriteMultiState(table, i, w)

\* Multi-state value: msv.c
MSV_Property_Lists ==
  Lists(CommonRequired \o <<"NUMBER_OF_STATES">>,
        <<"DESCRIPTION", "PRIORITY_ARRAY", "RELINQUISH_DEFAULT">>, << >>)

MSV_Init == [i \in Instances |-> [Level |-> NoLevels, Out_Of_Service |-> FALSE]]

MSV_Instances == Instances
MSV_Count     == MaxObjects
MSV_Present_Value(table, i) == Highest(table[i].Level, 1)
MSV_Object_Name(i) == Ansi("MULTI_STATE_VALUE", i)

MSV_Read_Property(table, i, p, index) ==
  Read(MultiState("MULTI_STATE_VALUE", table, i, MSV_Present_Value(table, i)), p, index)

MSV_Write_Property(table, i, w) == WriteMultiState(table, i, w)
=============================================================================
