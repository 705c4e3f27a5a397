--------------------------- MODULE CompositeData ---------------------------
(***************************************************************************)
(* Data types made of several values: date-times, time stamps, property     *)
(* states, time values, calendar entries, the schedule of a day and special *)
(* events; and the reader that takes a message apart field by field.       *)
(***************************************************************************)
EXTENDS ApplicationData

\* decode_application_date, decode_application_time: the number of the tag is all they look at.
Tagged(apdu, tag, decode(_)) ==
  IF decode_tag_number(apdu).datum # tag THEN Undecoded
  ELSE LET content == decode(SubSeq(apdu, 2, 5)) IN Decoded(1 + content.len, content.datum)
decode_application_date(apdu) == Tagged(apdu, DATE, decode_date)
decode_application_time(apdu) == Tagged(apdu, TIME, decode_bacnet_time)

\* A date-time is <<date, time>>.
bacapp_encode_datetime(moment) ==
  encode_application_date(moment[1]) \o encode_application_time(moment[2])
bacapp_decode_datetime(apdu) == Then(decode_application_date(apdu), decode_application_time, apdu)
bacapp_encode_context_datetime(number, moment) == InTags(number, bacapp_encode_datetime(moment))
bacapp_decode_context_datetime(apdu, number) == BetweenTags(apdu, number, bacapp_decode_datetime)

-----------------------------------------------------------------------------
\* A time stamp is <<kind, datum>>; its kind is its context tag.
TIME_STAMP_TIME     == 0
TIME_STAMP_SEQUENCE == 1
TIME_STAMP_DATETIME == 2

bacapp_encode_timestamp(stamp) ==
  CASE stamp[1] = TIME_STAMP_TIME     -> encode_context_time(0, stamp[2])
    [] stamp[1] = TIME_STAMP_SEQUENCE -> encode_context_unsigned(1, stamp[2])
    [] stamp[1] = TIME_STAMP_DATETIME -> bacapp_encode_context_datetime(2, stamp[2])

bacapp_decode_timestamp(apdu) ==
  LET kind  == decode_tag_number(apdu).datum
      datum == CASE kind = TIME_STAMP_TIME     -> decode_context_bacnet_time(apdu, kind)
                 [] kind = TIME_STAMP_SEQUENCE -> decode_context_unsigned(apdu, kind)
                 [] kind = TIME_STAMP_DATETIME -> bacapp_decode_context_datetime(apdu, kind)
                 [] OTHER                      -> Undecoded
  IN  IF datum.len = -1 \/ (kind = TIME_STAMP_SEQUENCE /\ datum.datum > 65535) THEN Undecoded
      ELSE Decoded(datum.len, <<kind, datum.datum>>)

\* Without the opening tag nothing is taken, and that is no error.
bacapp_encode_context_timestamp(number, stamp) == InTags(number, bacapp_encode_timestamp(stamp))
bacapp_decode_context_timestamp(apdu, number) ==
  IF decode_is_opening_tag_number(apdu, number)
  THEN BetweenTags(apdu, number, bacapp_decode_timestamp) ELSE Decoded(0, 0)

-----------------------------------------------------------------------------
\* A property state is <<kind, datum>>: a BOOLEAN, an Unsigned, or one of many enumerations.
BOOLEAN_VALUE     == 0
UNSIGNED_VALUE    == 11
EnumeratedStates  == (1..13) \ {UNSIGNED_VALUE}

bacapp_encode_property_state(state) ==
  CASE state[1] = BOOLEAN_VALUE        -> encode_context_boolean(state[1], state[2])
    [] state[1] = UNSIGNED_VALUE       -> encode_context_unsigned(state[1], state[2])
    [] state[1] \in EnumeratedStates   -> encode_context_enumerated(state[1], state[2])
    [] OTHER                           -> << >>

\* Of a BOOLEAN the length is taken for the value, and its octet is left behind.
bacapp_decode_property_state(apdu) ==
  LET tag    == decode_tag_number_and_value(apdu)
      octets == SubSeq(apdu, tag.len + 1, tag.len + tag.value)
      state  == CASE tag.number = BOOLEAN_VALUE -> Decoded(0, decode_boolean(tag.value))
                  [] OTHER                      -> decode_unsigned(octets)
  IN  IF tag.number \notin 0..13 THEN Undecoded
      ELSE Decoded(tag.len + state.len, <<tag.number, state.datum>>)

bacapp_decode_context_property_state(apdu, number) ==
  BetweenTags(apdu, number, bacapp_decode_property_state)

-----------------------------------------------------------------------------
\* A time value is <<time, value>>: from this time of the day on, this value.
bacapp_encode_time_value(entry) ==
  encode_application_time(entry[1]) \o bacapp_encode_application_data(entry[2])
bacapp_decode_time_value(apdu) ==
  Then(decode_application_time(apdu), bacapp_decode_application_data, apdu)
bacapp_encode_context_time_value(number, entry) == InTags(number, bacapp_encode_time_value(entry))
bacapp_decode_context_time_value(apdu, number) ==
  BetweenTags(apdu, number, bacapp_decode_time_value)

\* The schedule of a day is the sequence of its time values.
EncodedTimeValues(day) == FlattenSeq([n \in DOMAIN day |-> bacapp_encode_time_value(day[n])])

RECURSIVE DecodedTimeValues(_, _)
DecodedTimeValues(apdu, number) ==
  LET entry == bacapp_decode_time_value(apdu)
      after == DecodedTimeValues(From(apdu, entry.len + 1), number)
  IN  IF apdu = << >> \/ decode_is_closing_tag_number(apdu, number) \/ entry.len <= 0
      THEN Decoded(0, << >>)
      ELSE Decoded(entry.len + after.len, <<entry.datum>> \o after.datum)

bacnet_dailyschedule_context_encode(number, day) == InTags(number, EncodedTimeValues(day))
bacnet_dailyschedule_context_decode(apdu, number) ==
  LET day == DecodedTimeValues(Tail(apdu), number)
  IN  IF ~decode_is_opening_tag_number(apdu, number) THEN Decoded(0, << >>)
      ELSE Decoded(1 + day.len
                   + (IF decode_is_closing_tag_number(From(apdu, day.len + 2), number)
                      THEN 1 ELSE 0), day.datum)

\* A calendar entry is <<kind, datum>>; the decoder knows two of the three kinds.
BACNET_CALENDAR_DATE       == 0
BACNET_CALENDAR_DATE_RANGE == 1
BACNET_CALENDAR_WEEK_N_DAY == 2

bacnet_calendarentry_encode(entry) ==
  CASE entry[1] = BACNET_CALENDAR_DATE -> encode_context_date(0, entry[2])
    [] entry[1] = BACNET_CALENDAR_DATE_RANGE ->
         InTags(1, encode_application_date(entry[2][1]) \o encode_application_date(entry[2][2]))
    [] entry[1] = BACNET_CALENDAR_WEEK_N_DAY ->
         InTags(2, encode_context_octet_string(0, entry[2]))

bacnet_calendarentry_decode(apdu) ==
  LET date  == decode_context_date(apdu, 0)
      start == decode_application_date(Tail(apdu))
      end   == decode_application_date(From(apdu, start.len + 2))
  IN  CASE decode_is_context_tag(apdu, 0) -> Decoded(date.len, <<BACNET_CALENDAR_DATE, date.datum>>)
        [] decode_is_opening_tag_number(apdu, 1) ->
             Decoded(1 + start.len + end.len
                     + (IF decode_is_closing_tag_number(From(apdu, start.len + end.len + 2), 1)
                        THEN 1 ELSE 0),
                     <<BACNET_CALENDAR_DATE_RANGE, <<start.datum, end.datum>>>>)
        [] OTHER -> Decoded(0, 0)
=============================================================================
