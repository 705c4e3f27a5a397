-------------------------- MODULE ApplicationData --------------------------
(***************************************************************************)
(* Application data (bacapp.c) and the data types composed of it:           *)
(* date-times (datetime.c), time stamps (timestamp.c), references           *)
(* (bacdevobjpropref.c), property states (bacpropstates.c), time values     *)
(* (bactimevalue.c), calendar entries, days and special events.            *)
(*                                                                         *)
(* A value of a property is <<tag, datum>>; one with a context tag of its   *)
(* own is <<tag, datum, number>>.  What may be absent is a sequence of no   *)
(* or one element.                                                         *)
(***************************************************************************)
EXTENDS Octets, TLC

MAX_BACNET_APPLICATION_TAG == 16
DEVICE_OBJECT_PROPERTY_REFERENCE == 30   \* a tag no message carries
OBJECT_DEVICE == 8

Undecoded == Decoded(BACNET_STATUS_ERROR, 0)

\* Two decoders one after the other; the second is not tried when the first fails.
Then(first, second(_), apdu) ==
  LET next == second(From(apdu, first.len + 1))
  IN  IF first.len <= 0 \/ next.len <= 0 THEN Undecoded
      ELSE Decoded(first.len + next.len, <<first.datum, next.datum>>)

InTags(number, octets) == encode_opening_tag(number) \o octets \o encode_closing_tag(number)

\* What stands between an opening and a closing tag, the tags being of one octet.
BetweenTags(apdu, number, decode(_)) ==
  LET content == decode(Tail(apdu))
  IN  IF /\ decode_is_opening_tag_number(apdu, number)
         /\ content.len >= 0
         /\ decode_is_closing_tag_number(From(apdu, content.len + 2), number)
      THEN Decoded(content.len + 2, content.datum) ELSE Undecoded

\* A part of a message that is sent only when there is one.
Present(octets) == FlattenSeq(octets)
OrAbsent(apdu, number, decode(_, _)) ==
  IF decode_is_context_tag(apdu, number) /\ ~IS_CLOSING_TAG(apdu)
  THEN LET content == decode(apdu, number) IN Decoded(content.len, <<content.datum>>)
  ELSE Decoded(0, << >>)

-----------------------------------------------------------------------------
\* BACnetDeviceObjectPropertyReference <<object, property, index?, device?>>
bacapp_encode_device_obj_property_ref(ref) ==
  encode_context_object_id(0, ref[1]) \o encode_context_enumerated(1, ref[2])
  \o Present([n \in DOMAIN ref[3] |-> encode_context_unsigned(2, ref[3][n])])
  \o Present([n \in DOMAIN ref[4] |->
                IF ref[4][n][1] = OBJECT_DEVICE THEN encode_context_object_id(3, ref[4][n])
                ELSE << >>])

bacapp_decode_device_obj_property_ref(apdu) ==
  LET object   == decode_context_object_id(apdu, 0)
      property == decode_context_enumerated(From(apdu, object.len + 1), 1)
      index    == OrAbsent(From(apdu, object.len + property.len + 1), 2, decode_context_unsigned)
      device   == OrAbsent(From(apdu, object.len + property.len + index.len + 1), 3,
                           decode_context_object_id)
  IN  IF object.len = -1 \/ property.len = -1 \/ index.len = -1 \/ device.len = -1 THEN Undecoded
      ELSE Decoded(object.len + property.len + index.len + device.len,
                   <<object.datum, property.datum, index.datum, device.datum>>)

bacapp_encode_context_device_obj_property_ref(number, ref) ==
  InTags(number, bacapp_encode_device_obj_property_ref(ref))
bacapp_decode_context_device_obj_property_ref(apdu, number) ==
  BetweenTags(apdu, number, bacapp_decode_device_obj_property_ref)

\* BACnetDeviceObjectReference <<device?, object>>
bacapp_encode_device_obj_ref(ref) ==
  Present([n \in DOMAIN ref[1] |->
             IF ref[1][n][1] = OBJECT_DEVICE THEN encode_context_object_id(0, ref[1][n])
             ELSE << >>])
  \o encode_context_object_id(1, ref[2])

bacapp_decode_device_obj_ref(apdu) ==
  LET device == OrAbsent(apdu, 0, decode_context_object_id)
      object == decode_context_object_id(From(apdu, device.len + 1), 1)
  IN  IF device.len = -1 \/ object.len = -1 THEN Undecoded
      ELSE Decoded(device.len + object.len, <<device.datum, object.datum>>)

bacapp_encode_context_device_obj_ref(number, ref) ==
  InTags(number, bacapp_encode_device_obj_ref(ref))
bacapp_decode_context_device_obj_ref(apdu, number) ==
  BetweenTags(apdu, number, bacapp_decode_device_obj_ref)

-----------------------------------------------------------------------------
bacapp_encode_application_data(value) ==
  LET datum == value[2]
  IN  CASE value[1] = NULL             -> encode_application_null
        [] value[1] = BOOL             -> encode_application_boolean(datum)
        [] value[1] = UNSIGNED_INT     -> encode_application_unsigned(datum)
        [] value[1] = SIGNED_INT       -> encode_application_signed(datum)
        [] value[1] = REAL             -> encode_application_real(datum)
        [] value[1] = DOUBLE           -> encode_application_double(datum)
        [] value[1] = OCTET_STRING     -> encode_application_octet_string(datum)
        [] value[1] = CHARACTER_STRING -> encode_application_character_string(datum)
        [] value[1] = BIT_STRING       -> encode_application_bitstring(datum)
        [] value[1] = ENUMERATED       -> encode_application_enumerated(datum)
        [] value[1] = DATE             -> encode_application_date(datum)
        [] value[1] = TIME             -> encode_application_time(datum)
        [] value[1] = OBJECT_ID        -> encode_application_object_id(datum)
        [] value[1] = DEVICE_OBJECT_PROPERTY_REFERENCE ->
             bacapp_encode_device_obj_property_ref(datum)
        [] OTHER -> << >>

bacapp_encode_context_data_value(number, value) ==
  LET datum == value[2]
  IN  CASE value[1] = NULL             -> encode_context_null(number)
        [] value[1] = BOOL             -> encode_context_boolean(number, datum)
        [] value[1] = UNSIGNED_INT     -> encode_context_unsigned(number, datum)
        [] value[1] = SIGNED_INT       -> encode_context_signed(number, datum)
        [] value[1] = REAL             -> encode_context_real(number, datum)
        [] value[1] = DOUBLE           -> encode_context_double(number, datum)
        [] value[1] = OCTET_STRING     -> encode_context_octet_string(number, datum)
        [] value[1] = CHARACTER_STRING -> encode_context_character_string(number, datum)
        [] value[1] = BIT_STRING       -> encode_context_bitstring(number, datum)
        [] value[1] = ENUMERATED       -> encode_context_enumerated(number, datum)
        [] value[1] = DATE             -> encode_context_date(number, datum)
        [] value[1] = TIME             -> encode_context_time(number, datum)
        [] value[1] = OBJECT_ID        -> encode_context_object_id(number, datum)
        [] OTHER -> << >>

\* The value that `length` says follows its tag: of NULL and BOOLEAN no octet does.
bacapp_decode_data(apdu, tag, length) ==
  LET octets == SubSeq(apdu, 1, length)
      taken  == CASE tag = NULL             -> Decoded(0, 0)
                  [] tag = BOOL             -> Decoded(0, decode_boolean(length))
                  [] tag = UNSIGNED_INT     -> decode_unsigned(octets)
                  [] tag = SIGNED_INT       -> decode_signed(octets)
                  [] tag = REAL             -> decode_real_safe(octets)
                  [] tag = DOUBLE           -> decode_double_safe(octets)
                  [] tag = OCTET_STRING     -> decode_octet_string(octets)
                  [] tag = CHARACTER_STRING -> decode_character_string(octets)
                  [] tag = BIT_STRING       -> decode_bitstring(octets)
                  [] tag = ENUMERATED       -> decode_unsigned(octets)
                  [] tag = DATE             -> decode_date(octets)
                  [] tag = TIME             -> decode_bacnet_time(octets)
                  [] tag = OBJECT_ID        -> decode_object_id(octets)
                  [] OTHER                  -> Decoded(0, 0)
  IN  IF taken.len = 0 /\ tag \notin {NULL, BOOL, OCTET_STRING}
      THEN Decoded(0, <<MAX_BACNET_APPLICATION_TAG, 0>>)
      ELSE Decoded(taken.len, <<tag, taken.datum>>)

bacapp_decode_application_data(apdu) ==
  LET tag  == decode_tag_number_and_value(apdu)
      data == bacapp_decode_data(From(apdu, tag.len + 1), tag.number, tag.value)
  IN  IF apdu = << >> \/ IS_CONTEXT_SPECIFIC(apdu) THEN Decoded(0, 0)
      ELSE IF data.datum[1] = MAX_BACNET_APPLICATION_TAG THEN Undecoded
      ELSE Decoded(tag.len + data.len, data.datum)

\* The same of octets that may be cut: the length is held against what is left.
bacapp_decode_application_data_safe(apdu) ==
  LET tag  == decode_tag_number_and_value_safe(apdu)
      data == bacapp_decode_data(From(apdu, tag.len + 1), tag.number, tag.value)
  IN  IF \/ apdu = << >> \/ IS_CONTEXT_SPECIFIC(apdu) \/ tag.len = 0
         \/ tag.number # BOOL /\ tag.value > Len(apdu) - tag.len
      THEN Undecoded
      ELSE Decoded(tag.len + data.len, data.datum)

bacapp_decode_data_len(tag, length) ==
  IF tag \in UNSIGNED_INT..OBJECT_ID THEN length ELSE 0

bacapp_decode_application_data_len(apdu) ==
  LET tag == decode_tag_number_and_value(apdu)
  IN  IF IS_CONTEXT_SPECIFIC(apdu) THEN 0
      ELSE tag.len + bacapp_decode_data_len(tag.number, tag.value)

-----------------------------------------------------------------------------
\* The properties whose values are composed, and the present value.
PROP ==
  [ACTION |-> 2, DATE_LIST |-> 23, EXCEPTION_SCHEDULE |-> 38,
   LIST_OF_GROUP_MEMBERS |-> 53, PRESENT_VALUE |-> 85, RECIPIENT_LIST |-> 102,
   TIME_SYNCHRONIZATION_RECIPIENTS |-> 116, WEEKLY_SCHEDULE |-> 123,
   EVENT_TIME_STAMPS |-> 130, LOG_DEVICE_OBJECT_PROPERTY |-> 132, START_TIME |-> 142,
   ACTIVE_COV_SUBSCRIPTIONS |-> 152, SUBORDINATE_LIST |-> 211]

ShedLevels == {212, 214, 218}

\* The type a context tag stands for in the list or array that is the property's value.
bacapp_context_tag_type(property, number) ==
  LET types ==
        CASE property \in ShedLevels ->
               (0 :> UNSIGNED_INT @@ 1 :> UNSIGNED_INT @@ 2 :> REAL)
          [] property = PROP.ACTION ->
               (0 :> OBJECT_ID @@ 1 :> OBJECT_ID @@ 2 :> ENUMERATED @@ 3 :> UNSIGNED_INT
                @@ 5 :> UNSIGNED_INT @@ 6 :> UNSIGNED_INT @@ 7 :> BOOL @@ 8 :> BOOL)
          [] property \in {PROP.LIST_OF_GROUP_MEMBERS, PROP.RECIPIENT_LIST} -> (0 :> OBJECT_ID)
          [] property = PROP.EXCEPTION_SCHEDULE -> (1 :> OBJECT_ID @@ 3 :> UNSIGNED_INT)
          [] property = PROP.LOG_DEVICE_OBJECT_PROPERTY ->
               (0 :> OBJECT_ID @@ 1 :> ENUMERATED @@ 2 :> UNSIGNED_INT @@ 3 :> OBJECT_ID)
          [] property = PROP.SUBORDINATE_LIST -> (0 :> OBJECT_ID @@ 1 :> OBJECT_ID)
          [] property = PROP.ACTIVE_COV_SUBSCRIPTIONS ->
               (2 :> BOOL @@ 3 :> UNSIGNED_INT @@ 4 :> REAL)
          [] OTHER -> << >>
  IN  IF number \in DOMAIN types THEN types[number] ELSE MAX_BACNET_APPLICATION_TAG

bacapp_encode_context_data(value, property) ==
  IF bacapp_context_tag_type(property, value[3]) < MAX_BACNET_APPLICATION_TAG
  THEN bacapp_encode_context_data_value(value[3], value) ELSE << >>

\* A tag of unknown type is passed over with its octets; one that says nothing is an error.
bacapp_decode_context_data(apdu, property) ==
  LET tag  == decode_tag_number_and_value(apdu)
      type == bacapp_context_tag_type(property, tag.number)
      data == bacapp_decode_data(From(apdu, tag.len + 1), type, tag.value)
  IN  IF ~IS_CONTEXT_SPECIFIC(apdu) THEN Decoded(0, 0)
      ELSE IF IS_CLOSING_TAG(apdu) THEN Decoded(IF tag.len = 1 THEN 0 ELSE tag.len, 0)
      ELSE IF type < MAX_BACNET_APPLICATION_TAG
      THEN Decoded(tag.len + data.len, Append(data.datum, tag.number))
      ELSE IF tag.value > 0
      THEN Decoded(tag.len + tag.value, <<MAX_BACNET_APPLICATION_TAG, 0, tag.number>>)
      ELSE Undecoded

bacapp_decode_context_data_len(apdu, property) ==
  LET tag  == decode_tag_number_and_value(apdu)
      type == bacapp_context_tag_type(property, tag.number)
  IN  IF ~IS_CONTEXT_SPECIFIC(apdu) THEN 0
      ELSE tag.len + (IF type < MAX_BACNET_APPLICATION_TAG
                      THEN bacapp_decode_data_len(type, tag.value) ELSE tag.value)

bacapp_encode_data(value) ==
  IF Len(value) = 3 THEN bacapp_encode_context_data_value(value[3], value)
  ELSE bacapp_encode_application_data(value)

\* The octets between the opening tag at the start and the closing tag that belongs to it.
bacapp_data_len(apdu, property) ==
  LET number == decode_tag_number(apdu).datum
      RECURSIVE length(_, _)
      length(rest, open) ==
        LET tag    == decode_tag_number_and_value(rest)
            inside == CASE IS_OPENING_TAG(rest) /\ tag.number = number -> open + 1
                        [] IS_CLOSING_TAG(rest) /\ tag.number = number -> open - 1
                        [] OTHER -> open
            len    == IF IS_OPENING_TAG(rest) \/ IS_CLOSING_TAG(rest) THEN tag.len
                      ELSE IF IS_CONTEXT_SPECIFIC(rest)
                      THEN bacapp_decode_context_data_len(rest, property)
                      ELSE bacapp_decode_application_data_len(rest)
            after  == length(From(rest, len + 1), inside)
        IN  IF rest = << >> \/ len <= 0 THEN BACNET_STATUS_ERROR
            ELSE IF inside = 0 THEN 0
            ELSE IF after < 0 THEN after ELSE len + after
  IN  IF IS_OPENING_TAG(apdu) THEN length(From(apdu, decode_tag_number(apdu).len + 1), 1) ELSE 0

\* A property's value is one or several of these, one after the other.
EncodedValues(values) == FlattenSeq([n \in DOMAIN values |-> bacapp_encode_data(values[n])])

RECURSIVE DecodedValues(_, _)
DecodedValues(apdu, property) ==
  LET next == IF IS_CONTEXT_SPECIFIC(apdu) THEN bacapp_decode_context_data(apdu, property)
              ELSE bacapp_decode_application_data(apdu)
  IN  IF apdu = << >> \/ next.len <= 0 THEN << >>
      ELSE <<next.datum>> \o DecodedValues(From(apdu, next.len + 1), property)
=============================================================================
