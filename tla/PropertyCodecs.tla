--------------------------- MODULE PropertyCodecs ---------------------------
(***************************************************************************)
(* The messages that read and write properties: encoders and decoders of    *)
(* rp.c, rpm.c, wp.c, wpm.c, readrange.c and of the acknowledgements        *)
(* (h_rpm_a.c); and of the change-of-value services (cov.c).                *)
(*                                                                         *)
(* What a message says is a tuple of its fields in the order in which they  *)
(* are sent.  A decoder gets the octets behind the header.  Messages cut    *)
(* short are not modelled, so the comparisons with the length are left out. *)
(***************************************************************************)
EXTENDS Reader

BACNET_MIN_PRIORITY == 1
BACNET_MAX_PRIORITY == 16

\* <<object, property, index?>>
rp_encode_apdu(invoke_id, d) ==
  ConfirmedRequest(SERVICE_CONFIRMED.READ_PROPERTY, invoke_id)
  \o (IF d[1][1] <= BACNET_MAX_OBJECT THEN encode_context_object_id(0, d[1]) ELSE << >>)
  \o (IF d[2] <= 4194303 THEN encode_context_enumerated(1, d[2]) ELSE << >>)
  \o IfAny(encode_context_unsigned, 2, d[3])
rp_decode_service_request(apdu) ==
  Parse(apdu, <<Field(0, OBJECT_ID), Numbered(1, ENUMERATED), Maybe(2, UNSIGNED_INT), End>>)

\* <<object, property, index?, values>>
rp_ack_encode_apdu(invoke_id, d) ==
  ComplexAckOf(SERVICE_CONFIRMED.READ_PROPERTY, invoke_id)
  \o encode_context_object_id(0, d[1]) \o encode_context_enumerated(1, d[2])
  \o IfAny(encode_context_unsigned, 2, d[3]) \o InTags(3, EncodedValues(d[4]))

\* All that follows is taken to be the value but the last octet, the closing tag.
rp_ack_decode_service_request(apdu) ==
  LET head   == Parse(apdu, <<Field(0, OBJECT_ID), Numbered(1, ENUMERATED),
                              Maybe(2, UNSIGNED_INT), Opening(3)>>)
      octets == SubSeq(apdu, head.len + 1, Len(apdu) - 1)
  IN  IF head.len < 0 THEN Undecoded
      ELSE Decoded(Len(apdu), Append(head.datum, DecodedValues(octets, head.datum[2])))

-----------------------------------------------------------------------------
\* A list of <<object, list of <<property, index?>>>>; too long for max_apdu, nothing is sent.
RpmReference(d) ==
  encode_context_enumerated(0, d[1]) \o IfAny(encode_context_unsigned, 1, d[2])
RpmObject(d) == encode_context_object_id(0, d[1]) \o InTags(1, EncodedList(RpmReference, d[2]))
rpm_encode_apdu(max_apdu, invoke_id, d) ==
  LET apdu == ConfirmedRequest(SERVICE_CONFIRMED.READ_PROP_MULTIPLE, invoke_id)
              \o EncodedList(RpmObject, d)
  IN  IF Len(apdu) > max_apdu THEN << >> ELSE apdu
rpm_decode(apdu) ==
  Repeated(apdu, -1,
    <<Field(0, OBJECT_ID), Several(1, <<Field(0, ENUMERATED), Maybe(1, UNSIGNED_INT)>>)>>)

\* A list of <<object, list of <<property, index?, values>>>>; or <<.., .., << >>, error>>.
RpmResult(d) ==
  encode_context_enumerated(2, d[1]) \o IfAny(encode_context_unsigned, 3, d[2])
  \o (IF Len(d) = 3 THEN InTags(4, EncodedValues(d[3]))
      ELSE InTags(5, encode_application_enumerated(d[4][1])
                     \o encode_application_enumerated(d[4][2])))
RpmAckObject(d) == encode_context_object_id(0, d[1]) \o InTags(1, EncodedList(RpmResult, d[2]))
rpm_ack_encode_apdu(invoke_id, d) ==
  ComplexAckOf(SERVICE_CONFIRMED.READ_PROP_MULTIPLE, invoke_id) \o EncodedList(RpmAckObject, d)

rpm_ack_decode_result(apdu) ==
  LET head   == Parse(apdu, <<Numbered(2, ENUMERATED), Maybe(3, UNSIGNED_INT)>>)
      rest   == From(apdu, head.len + 1)
      values == ValuesTo(Tail(rest), 4, head.datum[1])
      error  == Parse(rest, <<Opening(5), Application_(ENUMERATED), Application_(ENUMERATED),
                              Closing(5)>>)
  IN  CASE head.len < 0 -> Undecoded
        [] head.len >= 0 /\ decode_is_opening_tag_number(rest, 4) ->
             IF values.len < 0 THEN Undecoded
             ELSE Decoded(head.len + 1 + values.len, Append(head.datum, values.datum))
        [] head.len >= 0 /\ decode_is_opening_tag_number(rest, 5) ->
             Decoded(head.len + error.len, head.datum \o << << >>, error.datum>>)
        [] OTHER -> Decoded(head.len, head.datum)

RECURSIVE rpm_ack_decode_results(_)
rpm_ack_decode_results(apdu) ==
  LET one   == rpm_ack_decode_result(apdu)
      after == rpm_ack_decode_results(From(apdu, one.len + 1))
  IN  IF apdu = << >> \/ decode_is_closing_tag_number(apdu, 1) THEN Decoded(1, << >>)
      ELSE IF one.len <= 0 \/ after.len < 0 THEN Undecoded
      ELSE Decoded(one.len + after.len, <<one.datum>> \o after.datum)

RECURSIVE rpm_ack_decode_service_request(_)
rpm_ack_decode_service_request(apdu) ==
  LET object  == Parse(apdu, <<Field(0, OBJECT_ID), Opening(1)>>)
      results == rpm_ack_decode_results(From(apdu, object.len + 1))
      taken   == object.len + results.len
      after   == rpm_ack_decode_service_request(From(apdu, taken + 1))
  IN  IF apdu = << >> THEN Nothing
      ELSE IF object.len < 0 \/ results.len < 0 \/ after.len < 0 THEN Undecoded
      ELSE Decoded(taken + after.len, << <<object.datum[1], results.datum>> >> \o after.datum)

-----------------------------------------------------------------------------
\* <<object, property, index?, values, priority?>>
wp_encode_apdu(invoke_id, d) ==
  ConfirmedRequest(SERVICE_CONFIRMED.WRITE_PROPERTY, invoke_id)
  \o encode_context_object_id(0, d[1]) \o encode_context_enumerated(1, d[2])
  \o IfAny(encode_context_unsigned, 2, d[3]) \o InTags(3, EncodedValues(d[4]))
  \o IfAny(encode_context_unsigned, 4, d[5])

WithPriority(d) == [d EXCEPT ![Len(d)] = IF @ = << >> THEN <<BACNET_MAX_PRIORITY>> ELSE @]

\* With a priority, the length returned is that of the priority alone.
wp_decode_service_request(apdu) ==
  LET d == Parse(apdu, <<Field(0, OBJECT_ID), Numbered(1, ENUMERATED), Maybe(2, UNSIGNED_INT),
                         Values(3, 2), Maybe(4, UNSIGNED_INT)>>)
      priority == d.datum[5]
  IN  IF d.len < 0 THEN Undecoded
      ELSE IF priority = << >> THEN Decoded(d.len, WithPriority(d.datum))
      ELSE IF priority[1] \notin BACNET_MIN_PRIORITY..BACNET_MAX_PRIORITY THEN Decoded(-5, 0)
      ELSE Decoded(1, d.datum)

\* A list of <<object, list of <<property, index?, values, priority?>>>>: the priority is
\* encoded, but its length is not counted, and what follows is written over it.
wpm_encode_apdu_object_property(d) ==
  encode_context_enumerated(0, d[1]) \o IfAny(encode_context_unsigned, 1, d[2])
  \o InTags(2, EncodedValues(d[3]))
WpmObject(d) ==
  encode_context_object_id(0, d[1]) \o InTags(1, EncodedList(wpm_encode_apdu_object_property, d[2]))
wpm_encode_apdu(invoke_id, d) ==
  ConfirmedRequest(SERVICE_CONFIRMED.WRITE_PROP_MULTIPLE, invoke_id) \o EncodedList(WpmObject, d)

wpm_decode(apdu) ==
  LET d == Repeated(apdu, -1,
             <<Numbered(0, OBJECT_ID),
               Several(1, <<Numbered(0, ENUMERATED), Maybe(1, UNSIGNED_INT), Values(2, 1),
                            Maybe(3, UNSIGNED_INT)>>)>>)
  IN  IF d.len < 0 THEN Undecoded
      ELSE Decoded(d.len, [n \in DOMAIN d.datum |->
                             <<d.datum[n][1], [k \in DOMAIN d.datum[n][2] |->
                                                 WithPriority(d.datum[n][2][k])]>>])

-----------------------------------------------------------------------------
\* Which items of a list: <<tag, reference, count>>, or << >> for all.
RR_BY_POSITION == 3
RR_BY_SEQUENCE == 6
RR_BY_TIME     == 7

EncodedRange(range) ==
  InTags(range[1], (IF range[1] = RR_BY_TIME THEN bacapp_encode_datetime(range[2])
                    ELSE encode_application_unsigned(range[2]))
                   \o encode_application_signed(range[3]))

\* <<object, property, index?, range?>>
rr_encode_apdu(invoke_id, d) ==
  ConfirmedRequest(SERVICE_CONFIRMED.READ_RANGE, invoke_id)
  \o encode_context_object_id(0, d[1]) \o encode_context_enumerated(1, d[2])
  \o IfAny(encode_context_unsigned, 2, d[3]) \o EncodedList(EncodedRange, d[4])

\* The types of the values within are not looked at, nor is the closing tag.
rr_decode_service_request(apdu) ==
  LET head   == Parse(apdu, <<Field(0, OBJECT_ID), Numbered(1, ENUMERATED),
                              Maybe(2, UNSIGNED_INT)>>)
      rest   == From(apdu, head.len + 1)
      kind   == NumberOf(rest)
      moment == bacapp_decode_datetime(Tail(rest))
      index  == bacapp_decode_application_data(Tail(rest))
      first  == IF kind = RR_BY_TIME THEN moment ELSE Decoded(index.len, index.datum[2])
      count  == bacapp_decode_application_data(From(rest, first.len + 2))
  IN  CASE head.len < 0 -> Undecoded
        [] head.len >= 0 /\ rest = << >> -> Decoded(head.len, Append(head.datum, << >>))
        [] head.len >= 0 /\ rest # << >> /\ kind \in {RR_BY_POSITION, RR_BY_SEQUENCE, RR_BY_TIME} ->
             Decoded(head.len + first.len + count.len + 2,
                     Append(head.datum, << <<kind, first.datum, count.datum[2]>> >>))
        [] OTHER -> Decoded(head.len + 1, Append(head.datum, << >>))

\* <<object, property, index?, flags, count, values, first sequence?>>
rr_ack_encode_apdu(invoke_id, d) ==
  ComplexAckOf(SERVICE_CONFIRMED.READ_RANGE, invoke_id)
  \o encode_context_object_id(0, d[1]) \o encode_context_enumerated(1, d[2])
  \o IfAny(encode_context_unsigned, 2, d[3]) \o encode_context_bitstring(3, d[4])
  \o encode_context_unsigned(4, d[5])
  \o InTags(5, IF d[5] # 0 THEN EncodedValues(d[6]) ELSE << >>)
  \o IfAny(encode_context_unsigned, 6, d[7])

\* To find the closing tag every tag is skipped with the length it states; the length a BOOLEAN
\* states is its value, so one that is TRUE takes the tag behind it along.
RECURSIVE SkippedTo(_, _)
SkippedTo(apdu, number) ==
  LET tag   == decode_tag_number_and_value(apdu)
      after == SkippedTo(From(apdu, tag.len + tag.value + 1), number)
  IN  IF apdu = << >> THEN BACNET_STATUS_ERROR
      ELSE IF IS_CONTEXT_SPECIFIC(apdu) /\ decode_is_closing_tag_number(apdu, number) THEN 0
      ELSE IF after < 0 THEN BACNET_STATUS_ERROR ELSE tag.len + tag.value + after

rr_ack_decode_service_request(apdu) ==
  LET head   == Parse(apdu, <<Field(0, OBJECT_ID), Numbered(1, ENUMERATED), Maybe(2, UNSIGNED_INT),
                              Numbered(3, BIT_STRING), Numbered(4, UNSIGNED_INT), Opening(5)>>)
      rest   == From(apdu, head.len + 1)
      length == SkippedTo(rest, 5)
      tail   == Parse(From(rest, length + 2), <<Maybe(6, UNSIGNED_INT), End>>)
  IN  IF head.len < 0 \/ length < 0 \/ tail.len < 0 THEN Undecoded
      ELSE Decoded(Len(apdu),
             head.datum \o <<DecodedValues(SubSeq(rest, 1, length), head.datum[2]),
                             tail.datum[1]>>)

-----------------------------------------------------------------------------
\* <<process, device instance, object, time remaining, list of
\*   <<property, index?, values, priority?>>>>
CovValue(d) ==
  encode_context_enumerated(0, d[1]) \o IfAny(encode_context_unsigned, 1, d[2])
  \o InTags(2, EncodedList(bacapp_encode_application_data, d[3]))
  \o IfAny(encode_context_unsigned, 3, d[4])
notify_encode_apdu(d) ==
  encode_context_unsigned(0, d[1]) \o encode_context_object_id(1, d[2])
  \o encode_context_object_id(2, d[3]) \o encode_context_unsigned(3, d[4])
  \o InTags(4, EncodedList(CovValue, d[5]))
ccov_notify_encode_apdu(invoke_id, d) ==
  ConfirmedRequest(SERVICE_CONFIRMED.COV_NOTIFICATION, invoke_id) \o notify_encode_apdu(d)
ucov_notify_encode_apdu(d) ==
  UnconfirmedRequest(SERVICE_UNCONFIRMED.COV_NOTIFICATION) \o notify_encode_apdu(d)

\* The last closing tag is seen and not counted.
cov_notify_decode_service_request(apdu) ==
  LET d == Parse(apdu, <<Field(0, UNSIGNED_INT), Field(1, OBJECT_ID), Field(2, OBJECT_ID),
                         Field(3, UNSIGNED_INT),
                         Several(4, <<Field(0, ENUMERATED), Maybe(1, UNSIGNED_INT), Listed(2, 1),
                                      Maybe(3, UNSIGNED_INT)>>)>>)
  IN  Checked(d.len >= 0 /\ d.datum[2][1] = OBJECT_DEVICE, Decoded(d.len - 1, d.datum))

\* <<process, object, <<confirmed, lifetime>>?>>: without the last two it cancels.
cov_subscribe_encode_apdu(invoke_id, d) ==
  ConfirmedRequest(SERVICE_CONFIRMED.SUBSCRIBE_COV, invoke_id)
  \o encode_context_unsigned(0, d[1]) \o encode_context_object_id(1, d[2])
  \o IfAny(encode_context_boolean, 2, d[3]) \o IfAny(encode_context_unsigned, 3, d[4])

cov_subscribe_decode_service_request(apdu) ==
  Parse(apdu, <<Field(0, UNSIGNED_INT), Field(1, OBJECT_ID), Maybe(2, BOOL),
                Maybe(3, UNSIGNED_INT)>>)

\* <<process, object, confirmed?, lifetime?, property, index?, increment?>>
cov_subscribe_property_encode_apdu(invoke_id, d) ==
  ConfirmedRequest(SERVICE_CONFIRMED.SUBSCRIBE_COV_PROPERTY, invoke_id)
  \o encode_context_unsigned(0, d[1]) \o encode_context_object_id(1, d[2])
  \o IfAny(encode_context_boolean, 2, d[3]) \o IfAny(encode_context_unsigned, 3, d[4])
  \o InTags(4, encode_context_enumerated(0, d[5]) \o IfAny(encode_context_unsigned, 1, d[6]))
  \o IfAny(encode_context_real, 5, d[7])

cov_subscribe_property_decode_service_request(apdu) ==
  Parse(apdu, <<Field(0, UNSIGNED_INT), Field(1, OBJECT_ID), Maybe(2, BOOL),
                Maybe(3, UNSIGNED_INT), Opening(4), Field(0, ENUMERATED), Maybe(1, UNSIGNED_INT),
                Closing(4), Maybe(5, REAL)>>)
=============================================================================
