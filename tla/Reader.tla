------------------------------- MODULE Reader -------------------------------
(***************************************************************************)
(* The reader of messages: every decoder of a service walks over the octets *)
(* from field to field and gives up at the first that is not what it        *)
(* expects.  A decoder is stated as the sequence of the fields it expects;  *)
(* how each kind of field is taken is stated once, here.                   *)
(*                                                                         *)
(* Two ways of asking for a context tag are in the code and are kept apart: *)
(* decode_is_context_tag looks at the class and the number, a comparison    *)
(* with the number alone lets a tag of another class through.              *)
(***************************************************************************)
EXTENDS CompositeData

\* The numbers of the services, of those that messages are modelled of.
SERVICE_CONFIRMED ==
  [ACKNOWLEDGE_ALARM |-> 0, COV_NOTIFICATION |-> 1, EVENT_NOTIFICATION |-> 2,
   GET_ALARM_SUMMARY |-> 3, SUBSCRIBE_COV |-> 5, ATOMIC_READ_FILE |-> 6,
   ATOMIC_WRITE_FILE |-> 7, READ_PROPERTY |-> 12, READ_PROP_MULTIPLE |-> 14,
   WRITE_PROPERTY |-> 15, WRITE_PROP_MULTIPLE |-> 16,
   DEVICE_COMMUNICATION_CONTROL |-> 17, PRIVATE_TRANSFER |-> 18,
   REINITIALIZE_DEVICE |-> 20, READ_RANGE |-> 26, SUBSCRIBE_COV_PROPERTY |-> 28,
   GET_EVENT_INFORMATION |-> 29]

SERVICE_UNCONFIRMED ==
  [I_AM |-> 0, I_HAVE |-> 1, COV_NOTIFICATION |-> 2, EVENT_NOTIFICATION |-> 3,
   PRIVATE_TRANSFER |-> 4, TIME_SYNCHRONIZATION |-> 6, WHO_HAS |-> 7, WHO_IS |-> 8,
   UTC_TIME_SYNCHRONIZATION |-> 9]

Field(number, tag)      == [kind |-> "field", number |-> number, tag |-> tag]
Numbered(number, tag)   == [kind |-> "numbered", number |-> number, tag |-> tag]
Maybe(number, tag)      == [kind |-> "maybe", number |-> number, tag |-> tag]
Application_(tag)       == [kind |-> "application", tag |-> tag]
Opening(number)         == [kind |-> "opening", number |-> number]
Closing(number)         == [kind |-> "closing", number |-> number]
Several(number, fields) == [kind |-> "several", number |-> number, fields |-> fields]
Values(number, of)      == [kind |-> "values", number |-> number, of |-> of]
Listed(number, of)      == [kind |-> "listed", number |-> number, of |-> of]
Stamp(number)           == [kind |-> "stamp", number |-> number]
Flag(number)            == [kind |-> "flag", number |-> number]
Some(number, fields)    == [kind |-> "some", number |-> number, fields |-> fields]
Choice(fields)          == [kind |-> "choice", fields |-> fields]
Unchecked(tag)          == [kind |-> "unchecked", tag |-> tag]
Bare                    == [kind |-> "bare"]
State(number)           == [kind |-> "state", number |-> number]
Reference(number)       == [kind |-> "reference", number |-> number]
Rest(number)            == [kind |-> "rest", number |-> number]
End                     == [kind |-> "end"]

\* Mutant: a context BOOLEAN is taken from the length of its tag, as an application one is.
ContextContent_ByLength(apdu, tag) ==
  LET it   == decode_tag_number_and_value(apdu)
      data == bacapp_decode_data(From(apdu, it.len + 1), tag, it.value)
  IN  Decoded(it.len + data.len, <<data.datum[2]>>)

\* What follows a tag: of a context BOOLEAN the value is an octet of its own.
ContextContent(apdu, tag) ==
  LET it   == decode_tag_number_and_value(apdu)
      data == IF tag = BOOL THEN decode_context_boolean(From(apdu, it.len + 1))
              ELSE LET value == bacapp_decode_data(From(apdu, it.len + 1), tag, it.value)
                   IN  Decoded(value.len, value.datum[2])
  IN  Decoded(it.len + data.len, <<data.datum>>)

NumberOf(apdu)     == decode_tag_number(apdu).datum
Nothing            == Decoded(0, << >>)
Checked(ok, taken) == IF ok THEN taken ELSE Undecoded

\* Values one after the other up to the closing tag: at least one is taken to be there.
RECURSIVE ValuesTo(_, _, _)
ValuesTo(apdu, number, property) ==
  LET next == IF IS_CONTEXT_SPECIFIC(apdu) THEN bacapp_decode_context_data(apdu, property)
              ELSE bacapp_decode_application_data(apdu)
      rest == From(apdu, next.len + 1)
      after == ValuesTo(rest, number, property)
  IN  IF apdu = << >> \/ next.len < 0 THEN Undecoded
      ELSE IF decode_is_closing_tag_number(rest, number)
      THEN Decoded(next.len + 1, <<next.datum>>)
      ELSE IF next.len = 0 \/ after.len < 0 THEN Undecoded
      ELSE Decoded(next.len + after.len, <<next.datum>> \o after.datum)

\* How one field is taken, after what has been taken so far; and a message, field by field.
RECURSIVE Taken(_, _, _), Continued(_, _, _), Repeated(_, _, _)
Taken(apdu, field, before) ==
  LET there == apdu # << >>
      kind  == field.kind
  IN  CASE kind = "field"       -> Checked(decode_is_context_tag(apdu, field.number),
                                           ContextContent(apdu, field.tag))
        [] kind = "numbered"    -> Checked(there /\ NumberOf(apdu) = field.number,
                                           ContextContent(apdu, field.tag))
        [] kind = "maybe"       -> IF there /\ NumberOf(apdu) = field.number
                                      /\ IS_CONTEXT_SPECIFIC(apdu) /\ ~IS_CLOSING_TAG(apdu)
                                   THEN LET content == ContextContent(apdu, field.tag)
                                        IN  Decoded(content.len, <<content.datum>>)
                                   ELSE Decoded(0, << << >> >>)
        [] kind = "application" -> Checked(there /\ NumberOf(apdu) = field.tag,
                                     LET value == bacapp_decode_application_data(apdu)
                                     IN  Decoded(value.len, <<value.datum[2]>>))
        [] kind = "opening"     -> Checked(decode_is_opening_tag_number(apdu, field.number),
                                           Decoded(1, << >>))
        [] kind = "closing"     -> Checked(decode_is_closing_tag_number(apdu, field.number),
                                           Decoded(1, << >>))
        [] kind = "values"      ->
             LET length == bacapp_data_len(apdu, before[field.of])
                 octets == SubSeq(apdu, 2, 1 + length)
             IN  Checked(/\ decode_is_opening_tag_number(apdu, field.number) /\ length >= 0
                         /\ decode_is_closing_tag_number(From(apdu, length + 2), field.number),
                         Decoded(length + 2, <<DecodedValues(octets, before[field.of])>>))
        [] kind = "listed"      ->
             LET values == ValuesTo(Tail(apdu), field.number, before[field.of])
             IN  Checked(decode_is_opening_tag_number(apdu, field.number) /\ values.len >= 0,
                         Decoded(1 + values.len, <<values.datum>>))
        [] kind = "several"     ->
             LET list == Repeated(Tail(apdu), field.number, field.fields)
             IN  Checked(decode_is_opening_tag_number(apdu, field.number) /\ list.len >= 0,
                         Decoded(1 + list.len, <<list.datum>>))
        [] kind = "some"        ->
             LET list == Repeated(Tail(apdu), field.number, field.fields)
             IN  Checked(/\ decode_is_opening_tag_number(apdu, field.number)
                         /\ list.len >= 0 /\ list.datum # << >>,
                         Decoded(1 + list.len, <<list.datum>>))
        [] kind = "choice"      ->
             LET meant   == SelectSeq(field.fields,
                                      LAMBDA one : decode_is_context_tag(apdu, one.number))
                 content == ContextContent(apdu, meant[1].tag)
             IN  Checked(meant # << >>,
                         Decoded(content.len, << <<meant[1].number>> \o content.datum >>))
        [] kind = "unchecked"   -> Checked(there, ContextContent(apdu, field.tag))
        [] kind = "stamp"       ->
             LET stamp == bacapp_decode_context_timestamp(apdu, field.number)
             IN  Checked(stamp.len >= 0, Decoded(stamp.len, <<stamp.datum>>))
        [] kind = "bare"        ->
             LET stamp == bacapp_decode_timestamp(apdu)
             IN  Checked(there /\ stamp.len >= 0, Decoded(stamp.len, <<stamp.datum>>))
        [] kind = "state"       ->
             LET state == bacapp_decode_context_property_state(apdu, field.number)
             IN  Checked(state.len >= 0, Decoded(state.len, <<state.datum>>))
        [] kind = "reference"   ->
             LET ref == bacapp_decode_context_device_obj_property_ref(apdu, field.number)
             IN  Checked(ref.len >= 0, Decoded(ref.len, <<ref.datum>>))
        [] kind = "flag"        ->
             LET value == decode_context_boolean2(apdu, field.number)
             IN  Checked(value.len >= 0, Decoded(value.len, <<value.datum>>))
        [] kind = "rest"        ->
             Checked(decode_is_opening_tag_number(apdu, field.number),
                     Decoded(Len(apdu), <<SubSeq(apdu, 2, Len(apdu) - 1)>>))
        [] kind = "end"         -> Checked(~there, Nothing)

Continued(parsed, apdu, fields) ==
  FoldLeft(LAMBDA so, field :
             LET taken == Taken(From(apdu, so.len + 1), field, so.datum)
             IN  IF so.len < 0 \/ taken.len < 0 THEN Undecoded
                 ELSE Decoded(so.len + taken.len, so.datum \o taken.datum),
           parsed, fields)
Parse(apdu, fields) == Continued(Nothing, apdu, fields)

\* The same fields again and again up to the closing tag, or to the end of the message.
Repeated(apdu, number, fields) ==
  LET one   == Continued(Nothing, apdu, fields)
      after == Repeated(From(apdu, one.len + 1), number, fields)
  IN  IF apdu = << >> THEN Nothing
      ELSE IF decode_is_closing_tag_number(apdu, number) THEN Decoded(1, << >>)
      ELSE IF one.len <= 0 \/ after.len < 0 THEN Undecoded
      ELSE Decoded(one.len + after.len, <<one.datum>> \o after.datum)

\* An encoder's optional parameter.
IfAny(encode(_, _), number, datum) ==
  Present([n \in DOMAIN datum |-> encode(number, datum[n])])
EncodedList(encode(_), list) == FlattenSeq([n \in DOMAIN list |-> encode(list[n])])

\* The first octets of a message: PDU type, what the sender can take, which request, which service.
ConfirmedRequest(service, invoke_id) ==
  <<0, encode_max_segs_max_apdu(0, MAX_APDU), invoke_id, service>>
UnconfirmedRequest(service)     == <<16, service>>
SimpleAckOf(service, invoke_id) == <<32, invoke_id, service>>
ComplexAckOf(service, invoke_id) == <<48, invoke_id, service>>
ErrorOf(service, invoke_id)     == <<80, invoke_id, service>>
=============================================================================
