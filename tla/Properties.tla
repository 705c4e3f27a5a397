----------------------------- MODULE Properties -----------------------------
(***************************************************************************)
(* What the objects of the device have in common: application values, the  *)
(* outcome of reading and of writing a property, arrays, and the checks of *)
(* h_wp.c that every Write_Property function starts with.                  *)
(*                                                                         *)
(* A REAL is counted in halves (Real(3) is 1.5), the smallest step at which *)
(* the cut to whole percent of an analog output shows.  A character string *)
(* is known by what it says, its encoding, the class of its length and     *)
(* whether it is printable.                                                *)
(***************************************************************************)
EXTENDS Integers, Sequences, SequencesExt

CONSTANT MaxObjects   \* bound: instances of an object type that are modelled

ASSUME MaxObjectsAssumption == MaxObjects \in Nat \ {0}

Instances  == 0..(MaxObjects - 1)
Priorities == 1..16          \* BACNET_MAX_PRIORITY
ARRAY_ALL  == -1             \* BACNET_ARRAY_ALL: no array index
PERCENT    == 98             \* UNITS_PERCENT
NO_UNITS   == 95             \* UNITS_NO_UNITS

-----------------------------------------------------------------------------
\* Application values: bacapp_encode_application_data, by tag.
Null            == [tag |-> "NULL", datum |-> 0]
Boolean(b)      == [tag |-> "BOOLEAN", datum |-> b]
Unsigned(n)     == [tag |-> "UNSIGNED_INT", datum |-> n]
Signed(n)       == [tag |-> "SIGNED_INT", datum |-> n]
Real(halves)    == [tag |-> "REAL", datum |-> halves]
Double(halves)  == [tag |-> "DOUBLE", datum |-> halves]
Enumerated(e)   == [tag |-> "ENUMERATED", datum |-> e]
Characters(s)   == [tag |-> "CHARACTER_STRING", datum |-> s]
Octets(s)       == [tag |-> "OCTET_STRING", datum |-> s]
Bits(b)         == [tag |-> "BIT_STRING", datum |-> b]
DateValue(d)    == [tag |-> "DATE", datum |-> d]
TimeValue(t)    == [tag |-> "TIME", datum |-> t]
ObjectId(t, i)  == [tag |-> "OBJECT_ID", datum |-> <<t, i>>]

\* A value bacapp_decode_application_data cannot decode.
Undecodable == [tag |-> "UNDECODABLE", datum |-> 0]

\* A string of the device's own: ANSI, printable, neither empty nor long. An object's name
\* is the words of its type, joined here by underscores, and its number.
Ansi(name, number) ==
  [text |-> <<name, number>>, encoding |-> "ANSI_X34", length |-> 10, printable |-> TRUE]

-----------------------------------------------------------------------------
\* What a Read_Property function returns.
Answer(data)         == [ok |-> TRUE, data |-> data, error |-> << >>]
Refusal(class, code) == [ok |-> FALSE, data |-> << >>, error |-> <<class, code>>]

Unknown_Property    == Refusal("PROPERTY", "UNKNOWN_PROPERTY")
Not_An_Array        == Refusal("PROPERTY", "PROPERTY_IS_NOT_AN_ARRAY")
Invalid_Array_Index == Refusal("PROPERTY", "INVALID_ARRAY_INDEX")

\* A property: one value, or an array whose elements are lists of values.
One(value)      == [array |-> FALSE, elements |-> <<<<value>>>>]
List(values)    == [array |-> FALSE, elements |-> <<values>>]
Array(elements) == [array |-> TRUE, elements |-> elements]

Whole(property) == FlattenSeq(property.elements)

(***************************************************************************)
(* The common course of a Read_Property function: `properties` are the     *)
(* cases of its switch.                                                    *)
(***************************************************************************)
Read(properties, p, index) ==
  IF p \notin DOMAIN properties THEN Unknown_Property
  ELSE LET property == properties[p]
       IN  IF index = ARRAY_ALL THEN Answer(Whole(property))
           ELSE IF ~property.array THEN Not_An_Array
           ELSE IF index = 0 THEN Answer(<<Unsigned(Len(property.elements))>>)
           ELSE IF index \in DOMAIN property.elements
           THEN Answer(property.elements[index])
           ELSE Invalid_Array_Index

Flags(out_of_service) ==
  Bits([IN_ALARM |-> FALSE, FAULT |-> FALSE, OVERRIDDEN |-> FALSE,
        OUT_OF_SERVICE |-> out_of_service])

\* What is read of an object: the cases every switch but those of the device and the
\* network port has, and the object's own, which come first.
ObjectProperties(type, i, out_of_service, own) ==
  LET common == [OBJECT_IDENTIFIER |-> One(ObjectId(type, i)),
                 OBJECT_NAME       |-> One(Characters(Ansi(type, i))),
                 DESCRIPTION       |-> One(Characters(Ansi(type, i))),
                 OBJECT_TYPE       |-> One(Enumerated(type)),
                 STATUS_FLAGS      |-> One(Flags(out_of_service)),
                 EVENT_STATE       |-> One(Enumerated("NORMAL")),
                 OUT_OF_SERVICE    |-> One(Boolean(out_of_service))]
  IN  [p \in DOMAIN common \cup DOMAIN own |-> IF p \in DOMAIN own THEN own[p] ELSE common[p]]

CommonRequired ==
  <<"OBJECT_IDENTIFIER", "OBJECT_NAME", "OBJECT_TYPE", "PRESENT_VALUE",
    "STATUS_FLAGS", "EVENT_STATE", "OUT_OF_SERVICE">>

Lists(required, optional, proprietary) ==
  [required |-> required, optional |-> optional, proprietary |-> proprietary]

-----------------------------------------------------------------------------
(***************************************************************************)
(* A write is [property, index, value, priority].  A Write_Property         *)
(* function returns the table of its type after the write, and whether it  *)
(* was accepted; a refused write leaves the table as it was.               *)
(***************************************************************************)
Written(table) == [ok |-> TRUE, table |-> table, error |-> << >>]
Denied(table, class, code) == [ok |-> FALSE, table |-> table, error |-> <<class, code>>]

OutOfRange(table)   == Denied(table, "PROPERTY", "VALUE_OUT_OF_RANGE")
AccessDenied(table) == Denied(table, "PROPERTY", "WRITE_ACCESS_DENIED")
UnknownProperty(table)   == Denied(table, "PROPERTY", "UNKNOWN_PROPERTY")
WrongType(table)    == Denied(table, "PROPERTY", "INVALID_DATA_TYPE")

\* WPValidateArgType, then the write proper.
ValidateArgType(table, value, tag, result) ==
  IF value.tag # tag THEN WrongType(table) ELSE result

\* WPValidateString: only strings, in ANSI, not empty or unprintable unless
\* that is allowed, and no longer than there is room for.
ValidateString(table, value, maximum, emptyAllowed, result) ==
  IF value.tag # "CHARACTER_STRING" THEN WrongType(table)
  ELSE LET s == value.datum
       IN  IF s.encoding # "ANSI_X34"
           THEN Denied(table, "PROPERTY", "CHARACTER_SET_NOT_SUPPORTED")
           ELSE IF ~emptyAllowed /\ (s.length = 0 \/ ~s.printable)
           THEN OutOfRange(table)
           ELSE IF s.length > maximum
           THEN Denied(table, "RESOURCES", "NO_SPACE_TO_WRITE_PROPERTY")
           ELSE result

\* The common course of a Write_Property function before its switch: only a
\* property in `arrays` may be written by element.
Write(table, w, arrays, result) ==
  IF w.value = Undecodable THEN OutOfRange(table)
  ELSE IF w.property \notin arrays /\ w.index # ARRAY_ALL
  THEN Denied(table, "PROPERTY", "PROPERTY_IS_NOT_AN_ARRAY")
  ELSE result

\* Case PROP_OUT_OF_SERVICE of most switches.
WriteOutOfService(table, i, w) ==
  ValidateArgType(table, w.value, "BOOLEAN",
    Written([table EXCEPT ![i].Out_Of_Service = w.value.datum]))

\* How many values an unsigned C type of 8 and of 16 bits has.
UINT8_ROOM  == 256
UINT16_ROOM == 65536

\* Case PROP_UNITS of the objects whose units can be set.  The object keeps them in an
\* integer of `room` values: what is larger is cut to it and acknowledged.
WriteUnits(table, i, w, room) ==
  ValidateArgType(table, w.value, "ENUMERATED",
    Written([table EXCEPT ![i].Units = w.value.datum % room]))
=============================================================================
