--------------------------- MODULE MessageCodecs ---------------------------
(***************************************************************************)
(* The other messages: who is there (whois.c, iam.c, whohas.c, ihave.c), the *)
(* device's control (rd.c, dcc.c, timesync.c), refusals (abort.c, reject.c,  *)
(* bacerror.c), files (arf.c, awf.c), private transfers (ptransfer.c),      *)
(* events (event.c, getevent.c, alarm_ack.c, get_alarm_sum.c); and the      *)
(* network header before each of them (npdu.c).                            *)
(***************************************************************************)
EXTENDS Reader

\* Limits are a sequence <<low, high>>, or << >> for no limits at all.
EncodedLimits(limits) ==
  IF limits # << >> /\ limits[1] <= BACNET_MAX_INSTANCE /\ limits[2] <= BACNET_MAX_INSTANCE
  THEN encode_context_unsigned(0, limits[1]) \o encode_context_unsigned(1, limits[2])
  ELSE << >>

\* << >> or <<low, high>>
whois_encode_apdu(d) == UnconfirmedRequest(SERVICE_UNCONFIRMED.WHO_IS) \o EncodedLimits(d)
whois_decode_service_request(apdu) ==
  IF apdu = << >> THEN Nothing
  ELSE Parse(apdu, <<Numbered(0, UNSIGNED_INT), Numbered(1, UNSIGNED_INT)>>)

\* <<device instance, max_apdu, segmentation, vendor>>
MAX_BACNET_SEGMENTATION == 4
iam_encode_apdu(d) ==
  UnconfirmedRequest(SERVICE_UNCONFIRMED.I_AM)
  \o encode_application_object_id(<<OBJECT_DEVICE, d[1]>>) \o encode_application_unsigned(d[2])
  \o encode_application_enumerated(d[3]) \o encode_application_unsigned(d[4])
iam_decode_service_request(apdu) ==
  LET d == Parse(apdu, <<Application_(OBJECT_ID), Application_(UNSIGNED_INT),
                         Application_(ENUMERATED), Application_(UNSIGNED_INT)>>)
  IN  Checked(/\ d.len >= 0 /\ d.datum[1][1] = OBJECT_DEVICE
              /\ d.datum[3] < MAX_BACNET_SEGMENTATION /\ d.datum[4] <= 65535,
              Decoded(d.len, [d.datum EXCEPT ![1] = @[2]]))

\* <<limits, <<2, object>> or <<3, name>>>>: what is looked for is sent under its own tag.
ObjectChoice == 2
NameChoice   == 3
whohas_encode_apdu(d) ==
  UnconfirmedRequest(SERVICE_UNCONFIRMED.WHO_HAS) \o EncodedLimits(d[1])
  \o (IF d[2][1] = NameChoice THEN encode_context_character_string(NameChoice, d[2][2])
      ELSE encode_context_object_id(ObjectChoice, d[2][2]))
whohas_decode_service_request(apdu) ==
  LET what == Choice(<<Field(ObjectChoice, OBJECT_ID), Field(NameChoice, CHARACTER_STRING)>>)
      d    == IF decode_is_context_tag(apdu, 0)
              THEN Parse(apdu, <<Field(0, UNSIGNED_INT), Field(1, UNSIGNED_INT), what>>)
              ELSE Parse(apdu, <<what>>)
  IN  Checked(d.len >= 0, Decoded(d.len, <<Front(d.datum), Last(d.datum)>>))

\* <<device, object, name>>
ihave_encode_apdu(d) ==
  UnconfirmedRequest(SERVICE_UNCONFIRMED.I_HAVE)
  \o encode_application_object_id(d[1]) \o encode_application_object_id(d[2])
  \o encode_application_character_string(d[3])
ihave_decode_service_request(apdu) ==
  Parse(apdu, <<Application_(OBJECT_ID), Application_(OBJECT_ID),
                Application_(CHARACTER_STRING)>>)

-----------------------------------------------------------------------------
\* <<state, password?>>
rd_encode_apdu(invoke_id, d) ==
  ConfirmedRequest(SERVICE_CONFIRMED.REINITIALIZE_DEVICE, invoke_id)
  \o encode_context_enumerated(0, d[1]) \o IfAny(encode_context_character_string, 1, d[2])
rd_decode_service_request(apdu) ==
  Parse(apdu, <<Field(0, ENUMERATED), Maybe(1, CHARACTER_STRING), End>>)

\* <<minutes, enable, password?>>: minutes are sent when not 0, and kept in 16 bits.
dcc_encode_apdu(invoke_id, d) ==
  ConfirmedRequest(SERVICE_CONFIRMED.DEVICE_COMMUNICATION_CONTROL, invoke_id)
  \o (IF d[1] # 0 THEN encode_context_unsigned(0, d[1]) ELSE << >>)
  \o encode_context_enumerated(1, d[2]) \o IfAny(encode_context_character_string, 2, d[3])
dcc_decode_service_request(apdu) ==
  LET d == Parse(apdu, <<Maybe(0, UNSIGNED_INT), Field(1, ENUMERATED),
                         Maybe(2, CHARACTER_STRING), End>>)
  IN  Checked(d.len >= 0,
        Decoded(d.len, [d.datum EXCEPT ![1] = IF @ = << >> THEN 0 ELSE @[1] % 65536]))

\* <<date, time>>
timesync_encode_apdu_service(service, d) == UnconfirmedRequest(service) \o bacapp_encode_datetime(d)
timesync_encode_apdu(d) ==
  timesync_encode_apdu_service(SERVICE_UNCONFIRMED.TIME_SYNCHRONIZATION, d)
timesync_utc_encode_apdu(d) ==
  timesync_encode_apdu_service(SERVICE_UNCONFIRMED.UTC_TIME_SYNCHRONIZATION, d)
timesync_decode_service_request(apdu) == Parse(apdu, <<Application_(DATE), Application_(TIME)>>)

\* A recipient is <<0, device>> or <<1, <<net, octets>>>>: to net 65535 no octets are sent.
BACNET_BROADCAST_NETWORK == 65535
RecipientOctets(recipient) ==
  IF recipient[1] = 0 THEN encode_context_object_id(0, recipient[2])
  ELSE InTags(1, encode_application_unsigned(recipient[2][1])
                 \o encode_application_octet_string(
                      IF recipient[2][1] = BACNET_BROADCAST_NETWORK THEN << >>
                      ELSE recipient[2][2]))
timesync_encode_timesync_recipients(list) == EncodedList(RecipientOctets, list)

\* Of an address the decoder takes the octets from the start of the buffer.
RECURSIVE RecipientsFrom(_, _, _)
RecipientsFrom(buffer, at, count) ==
  LET apdu   == From(buffer, at + 1)
      device == decode_context_object_id(apdu, 0)
      net    == Parse(Tail(apdu), <<Application_(UNSIGNED_INT)>>)
      tag    == decode_tag_number_and_value(From(apdu, net.len + 2))
      length == IF decode_is_context_tag(apdu, 0) THEN device.len
                ELSE 1 + net.len + tag.len + tag.value
      one    == IF decode_is_context_tag(apdu, 0) THEN <<0, device.datum>>
                ELSE <<1, <<net.datum[1], SubSeq(buffer, 1, tag.value)>>>>
      after  == RecipientsFrom(buffer, at + length, count - 1)
  IN  IF count = 0 THEN Nothing
      ELSE IF ~decode_is_context_tag(apdu, 0)
              /\ (~decode_is_context_tag(apdu, 1) \/ net.len < 0 \/ tag.number # OCTET_STRING)
      THEN Undecoded
      ELSE Checked(after.len >= 0, Decoded(length + after.len, <<one>> \o after.datum))
timesync_decode_timesync_recipients(apdu, count) == RecipientsFrom(apdu, 0, count)

-----------------------------------------------------------------------------
(***************************************************************************)
(* Refusals.  What follows the PDU type is the identification of the        *)
(* request and the reason.                                                 *)
(***************************************************************************)
abort_encode_apdu(invoke_id, reason, server) ==
  <<IF server THEN 113 ELSE 112, invoke_id, reason>>
reject_encode_apdu(invoke_id, reason) == <<96, invoke_id, reason>>
abort_decode_service_request(apdu)    == Decoded(0, <<apdu[1], apdu[2]>>)
reject_decode_service_request(apdu)   == Decoded(0, <<apdu[1], apdu[2]>>)

\* The error codes 51..56 and 59..69 stand for reasons of an abort and a reject.
FIRST_PROPRIETARY_ABORT_REASON  == 64
FIRST_PROPRIETARY_REJECT_REASON == 64
abort_convert_error_code(code) ==
  IF code \in 51..54 THEN code - 50
  ELSE IF code = 55 THEN FIRST_PROPRIETARY_ABORT_REASON ELSE 0
reject_convert_error_code(code) ==
  IF code \in 59..67 THEN code - 58
  ELSE IF code = 68 THEN FIRST_PROPRIETARY_REJECT_REASON ELSE 0

\* <<class, code>>
bacerror_encode_apdu(invoke_id, service, d) ==
  ErrorOf(service, invoke_id)
  \o encode_application_enumerated(d[1]) \o encode_application_enumerated(d[2])
bacerror_decode_error_class_and_code(apdu) ==
  LET d == Parse(apdu, <<Application_(ENUMERATED), Application_(ENUMERATED)>>)
  IN  IF d.len < 0 THEN Decoded(0, 0) ELSE d
bacerror_decode_service_request(apdu) ==
  LET error == bacerror_decode_error_class_and_code(From(apdu, 3))
  IN  Decoded(error.len, <<apdu[1], apdu[2], error.datum>>)

-----------------------------------------------------------------------------
(***************************************************************************)
(* Files: <<.., access, parameters>>, the access being the tag around them. *)
(***************************************************************************)
FILE_STREAM_ACCESS == 0
FILE_RECORD_ACCESS == 1

\* The parameters: a start, a count where one is sent, the octets where they are sent.
FileFields(types) == [n \in DOMAIN types |-> Application_(types[n])]
FileOctets(access, types, d) ==
  InTags(access, FlattenSeq([n \in DOMAIN types |->
                               bacapp_encode_application_data(<<types[n], d[n]>>)]))
FileTaken(head, apdu, types) ==
  LET rest   == From(apdu, head.len + 1)
      access == NumberOf(rest)
      d      == Parse(rest, <<Opening(access)>> \o FileFields(types[access]) \o <<Closing(access)>>)
  IN  Checked(/\ head.len >= 0 /\ IS_OPENING_TAG(rest)
              /\ access \in {FILE_STREAM_ACCESS, FILE_RECORD_ACCESS} /\ d.len >= 0,
              Decoded(head.len + d.len, head.datum \o <<access, d.datum>>))

ArfTypes    == (FILE_STREAM_ACCESS :> <<SIGNED_INT, UNSIGNED_INT>>
                @@ FILE_RECORD_ACCESS :> <<SIGNED_INT, UNSIGNED_INT>>)
ArfAckTypes == (FILE_STREAM_ACCESS :> <<SIGNED_INT, OCTET_STRING>>
                @@ FILE_RECORD_ACCESS :> <<SIGNED_INT, UNSIGNED_INT, OCTET_STRING>>)

arf_encode_apdu(invoke_id, d) ==
  ConfirmedRequest(SERVICE_CONFIRMED.ATOMIC_READ_FILE, invoke_id)
  \o encode_application_object_id(d[1]) \o FileOctets(d[2], ArfTypes[d[2]], d[3])
arf_decode_service_request(apdu) ==
  FileTaken(Parse(apdu, <<Application_(OBJECT_ID)>>), apdu, ArfTypes)

arf_ack_encode_apdu(invoke_id, d) ==
  ComplexAckOf(SERVICE_CONFIRMED.ATOMIC_READ_FILE, invoke_id)
  \o encode_application_boolean(d[1]) \o FileOctets(d[2], ArfAckTypes[d[2]], d[3])
arf_ack_decode_service_request(apdu) ==
  FileTaken(Parse(apdu, <<Application_(BOOL)>>), apdu, ArfAckTypes)

awf_encode_apdu(invoke_id, d) ==
  ConfirmedRequest(SERVICE_CONFIRMED.ATOMIC_WRITE_FILE, invoke_id)
  \o encode_application_object_id(d[1]) \o FileOctets(d[2], ArfAckTypes[d[2]], d[3])
awf_decode_service_request(apdu) ==
  FileTaken(Parse(apdu, <<Application_(OBJECT_ID)>>), apdu, ArfAckTypes)

\* <<access, start>>
awf_ack_encode_apdu(invoke_id, d) ==
  ComplexAckOf(SERVICE_CONFIRMED.ATOMIC_WRITE_FILE, invoke_id) \o encode_context_signed(d[1], d[2])
awf_ack_decode_service_request(apdu) ==
  LET content == ContextContent(apdu, SIGNED_INT)
  IN  Checked(apdu # << >> /\ NumberOf(apdu) \in {FILE_STREAM_ACCESS, FILE_RECORD_ACCESS},
              Decoded(content.len, <<NumberOf(apdu), content.datum[1]>>))

-----------------------------------------------------------------------------
(***************************************************************************)
(* Private transfers: <<vendor, service, octets>>; what the octets mean is  *)
(* the vendor's.  They are taken to be all that follows but the last octet. *)
(***************************************************************************)
pt_encode_apdu(d) ==
  encode_context_unsigned(0, d[1]) \o encode_context_unsigned(1, d[2]) \o InTags(2, d[3])
ptransfer_encode_apdu(invoke_id, d) ==
  ConfirmedRequest(SERVICE_CONFIRMED.PRIVATE_TRANSFER, invoke_id) \o pt_encode_apdu(d)
uptransfer_encode_apdu(d) ==
  UnconfirmedRequest(SERVICE_UNCONFIRMED.PRIVATE_TRANSFER) \o pt_encode_apdu(d)
ptransfer_ack_encode_apdu(invoke_id, d) ==
  ComplexAckOf(SERVICE_CONFIRMED.PRIVATE_TRANSFER, invoke_id) \o pt_encode_apdu(d)
ptransfer_decode_service_request(apdu) ==
  LET d == Parse(apdu, <<Field(0, UNSIGNED_INT), Field(1, UNSIGNED_INT), Rest(2)>>)
  IN  Checked(d.len >= 0, Decoded(Len(apdu), [d.datum EXCEPT ![1] = @ % 65536]))

\* <<class, code, vendor, service, octets>>: the length returned leaves the octets out.
ptransfer_error_encode_apdu(invoke_id, d) ==
  ErrorOf(SERVICE_CONFIRMED.PRIVATE_TRANSFER, invoke_id)
  \o InTags(0, encode_application_enumerated(d[1]) \o encode_application_enumerated(d[2]))
  \o encode_context_unsigned(1, d[3]) \o encode_context_unsigned(2, d[4]) \o InTags(3, d[5])
ptransfer_error_decode_service_request(apdu) ==
  LET head == Parse(apdu, <<Opening(0), Application_(ENUMERATED), Application_(ENUMERATED),
                            Closing(0), Field(1, UNSIGNED_INT), Field(2, UNSIGNED_INT),
                            Opening(3)>>)
  IN  Checked(head.len >= 0,
        Decoded(head.len, [Append(head.datum, SubSeq(apdu, head.len + 1, Len(apdu) - 1))
                             EXCEPT ![3] = @ % 65536]))

-----------------------------------------------------------------------------
(***************************************************************************)
(* Events.  A notification is <<process, device, object, stamp, class,      *)
(* priority, type, text?, notify type, <<ack required, from>>?, to,         *)
(* parameters>>; an acknowledgement's has no <<..>> and no parameters.      *)
(***************************************************************************)
NOTIFY_ALARM == 0
NOTIFY_EVENT == 1
NOTIFY_ACK_NOTIFICATION == 2

\* The parameters of each type of event, each under the tag of its place.
EventParameters ==
  0 :> <<Field(0, BIT_STRING), Field(1, BIT_STRING)>>
  @@ 1 :> <<State(0), Field(1, BIT_STRING)>>
  @@ 2 :> <<Opening(0), Choice(<<Field(0, BIT_STRING), Field(1, REAL)>>), Closing(0),
            Field(1, BIT_STRING)>>
  @@ 4 :> <<Field(0, REAL), Field(1, BIT_STRING), Field(2, REAL), Field(3, REAL)>>
  @@ 5 :> <<Field(0, REAL), Field(1, BIT_STRING), Field(2, REAL), Field(3, REAL)>>
  @@ 8 :> <<Field(0, ENUMERATED), Field(1, ENUMERATED), Field(2, BIT_STRING),
            Field(3, ENUMERATED)>>
  @@ 10 :> <<Reference(0), Field(1, UNSIGNED_INT), Field(2, UNSIGNED_INT)>>
  @@ 11 :> <<Field(0, UNSIGNED_INT), Field(1, BIT_STRING), Field(2, UNSIGNED_INT)>>

EncodedParameters(type, d) ==
  CASE type = 1 -> InTags(0, bacapp_encode_property_state(d[1])) \o encode_context_bitstring(1, d[2])
    [] type = 2 -> InTags(0, IF d[1][1] = 1 THEN encode_context_real(1, d[1][2])
                             ELSE encode_context_bitstring(0, d[1][2]))
                   \o encode_context_bitstring(1, d[2])
    [] type = 10 -> bacapp_encode_context_device_obj_property_ref(0, d[1])
                    \o encode_context_unsigned(1, d[2]) \o encode_context_unsigned(2, d[3])
    [] OTHER -> FlattenSeq([n \in DOMAIN d |->
                  bacapp_encode_context_data_value(n - 1, <<EventParameters[type][n].tag, d[n]>>)])

event_notify_encode_service_request(d) ==
  encode_context_unsigned(0, d[1]) \o encode_context_object_id(1, d[2])
  \o encode_context_object_id(2, d[3]) \o bacapp_encode_context_timestamp(3, d[4])
  \o encode_context_unsigned(4, d[5]) \o encode_context_unsigned(5, d[6])
  \o encode_context_enumerated(6, d[7]) \o IfAny(encode_context_character_string, 7, d[8])
  \o encode_context_enumerated(8, d[9])
  \o Present([n \in DOMAIN d[10] |->
                encode_context_boolean(9, d[10][n][1]) \o encode_context_enumerated(10, d[10][n][2])])
  \o encode_context_enumerated(11, d[11])
  \o (IF d[9] \in {NOTIFY_ALARM, NOTIFY_EVENT}
      THEN InTags(12, InTags(d[7], EncodedParameters(d[7], d[12]))) ELSE << >>)
cevent_notify_encode_apdu(invoke_id, d) ==
  ConfirmedRequest(SERVICE_CONFIRMED.EVENT_NOTIFICATION, invoke_id)
  \o event_notify_encode_service_request(d)
uevent_notify_encode_apdu(d) ==
  UnconfirmedRequest(SERVICE_UNCONFIRMED.EVENT_NOTIFICATION)
  \o event_notify_encode_service_request(d)

event_notify_decode_service_request(apdu) ==
  LET head == Parse(apdu, <<Field(0, UNSIGNED_INT), Field(1, OBJECT_ID), Field(2, OBJECT_ID),
                            Stamp(3), Field(4, UNSIGNED_INT), Field(5, UNSIGNED_INT),
                            Field(6, ENUMERATED), Maybe(7, CHARACTER_STRING),
                            Field(8, ENUMERATED)>>)
      kind == head.datum[7]
      asks == head.datum[9] \in {NOTIFY_ALARM, NOTIFY_EVENT}
      tail == Parse(From(apdu, head.len + 1),
                (IF asks THEN <<Flag(9), Field(10, ENUMERATED)>> ELSE << >>)
                \o <<Field(11, ENUMERATED)>>
                \o (IF asks THEN <<Opening(12), Opening(kind)>> \o EventParameters[kind]
                                 \o <<Closing(kind), Closing(12)>>
                    ELSE << >>))
  IN  IF \/ head.len < 0
         \/ head.datum[6] > 255
         \/ asks /\ kind \notin DOMAIN EventParameters
         \/ tail.len < 0
      THEN Undecoded
      ELSE Decoded(head.len + tail.len,
             head.datum
             \o (IF asks THEN << <<SubSeq(tail.datum, 1, 2)>>, tail.datum[3], From(tail.datum, 4)>>
                 ELSE << << >>, tail.datum[1], << >> >>))

\* << >> or <<the last object received>>; <<list of <<object, state, bits, three stamps,
\*   notify type, bits, three priorities>>, more>>.
getevent_encode_apdu(invoke_id, d) ==
  ConfirmedRequest(SERVICE_CONFIRMED.GET_EVENT_INFORMATION, invoke_id)
  \o IfAny(encode_context_object_id, 0, d)
getevent_decode_service_request(apdu) ==
  IF apdu = << >> THEN Nothing ELSE Parse(apdu, <<Field(0, OBJECT_ID)>>)

getevent_ack_encode_apdu_data(event) ==
  encode_context_object_id(0, event[1]) \o encode_context_enumerated(1, event[2])
  \o encode_context_bitstring(2, event[3])
  \o InTags(3, FlattenSeq([n \in 1..3 |-> bacapp_encode_timestamp(event[3 + n])]))
  \o encode_context_enumerated(4, event[7]) \o encode_context_bitstring(5, event[8])
  \o InTags(6, FlattenSeq([n \in 1..3 |-> encode_application_unsigned(event[8 + n])]))
getevent_ack_encode_apdu(invoke_id, d) ==
  ComplexAckOf(SERVICE_CONFIRMED.GET_EVENT_INFORMATION, invoke_id)
  \o InTags(0, EncodedList(getevent_ack_encode_apdu_data, d[1])) \o encode_context_boolean(1, d[2])
getevent_ack_decode_service_request(apdu) ==
  Parse(apdu,
    <<Some(0, <<Field(0, OBJECT_ID), Field(1, ENUMERATED), Field(2, BIT_STRING),
                Opening(3), Bare, Bare, Bare, Closing(3), Field(4, ENUMERATED),
                Field(5, BIT_STRING), Opening(6), Unchecked(UNSIGNED_INT),
                Unchecked(UNSIGNED_INT), Unchecked(UNSIGNED_INT), Closing(6)>>),
      Field(1, BOOL)>>)

\* <<process, object, state, stamp, source, stamp>>
alarm_ack_encode_service_request(d) ==
  encode_context_unsigned(0, d[1]) \o encode_context_object_id(1, d[2])
  \o encode_context_enumerated(2, d[3]) \o bacapp_encode_context_timestamp(3, d[4])
  \o encode_context_character_string(4, d[5]) \o bacapp_encode_context_timestamp(5, d[6])
alarm_ack_encode_apdu(invoke_id, d) ==
  ConfirmedRequest(SERVICE_CONFIRMED.ACKNOWLEDGE_ALARM, invoke_id)
  \o alarm_ack_encode_service_request(d)
alarm_ack_decode_service_request(apdu) ==
  Parse(apdu, <<Field(0, UNSIGNED_INT), Field(1, OBJECT_ID), Field(2, ENUMERATED), Stamp(3),
                Field(4, CHARACTER_STRING), Stamp(5)>>)

\* A list of <<object, state, bits>>
get_alarm_summary_ack_encode_apdu_data(d) ==
  encode_application_object_id(d[1]) \o encode_application_enumerated(d[2])
  \o encode_application_bitstring(d[3])
get_alarm_summary_ack_encode_apdu(invoke_id, d) ==
  ComplexAckOf(SERVICE_CONFIRMED.GET_ALARM_SUMMARY, invoke_id)
  \o EncodedList(get_alarm_summary_ack_encode_apdu_data, d)
get_alarm_summary_ack_decode_apdu_data(apdu) ==
  Repeated(apdu, -1, <<Application_(OBJECT_ID), Application_(ENUMERATED),
                       Application_(BIT_STRING)>>)

-----------------------------------------------------------------------------
(***************************************************************************)
(* The network header: <<destination, source, expecting reply, priority,    *)
(* hop count, network message?>>, an address being <<net, octets>>.  Net 0  *)
(* is the local network and no address is sent for it.                     *)
(***************************************************************************)
BACNET_PROTOCOL_VERSION == 1
HOP_COUNT_DEFAULT       == 255
MAX_MAC_LEN             == 7
LocalNet                == <<0, << >>>>

npdu_encode_npdu_data(expecting, priority) == <<expecting, priority, HOP_COUNT_DEFAULT, << >>>>

AddressOctets(address) == Big(address[1], 2) \o <<Len(address[2])>> \o address[2]
npdu_encode_pdu(dest, src, d) ==
  LET routed == dest[1] # 0
      passed == src[1] # 0 /\ src[2] # << >>
      flag(set, value) == IF set THEN value ELSE 0
  IN  <<BACNET_PROTOCOL_VERSION,
        flag(d[4] # << >>, 128) + flag(routed, 32) + flag(passed, 8) + flag(d[1], 4) + (d[2] % 4)>>
      \o (IF routed THEN AddressOctets(dest) ELSE << >>)
      \o (IF passed THEN AddressOctets(src) ELSE << >>)
      \o (IF routed THEN <<d[3]>> ELSE << >>)
      \o FlattenSeq([n \in DOMAIN d[4] |->
           <<d[4][n][1]>> \o (IF d[4][n][1] >= 128 THEN Big(d[4][n][2], 2) ELSE << >>)])

\* A source left over from before keeps the broadcast network.
npdu_decode(npdu, src_before) ==
  LET control == npdu[2]
      address(set, at) ==
        IF ~set THEN Decoded(0, LocalNet)
        ELSE IF npdu[at + 2] > MAX_MAC_LEN THEN Undecoded
        ELSE Decoded(3 + npdu[at + 2],
               <<decode_unsigned(SubSeq(npdu, at, at + 1)).datum,
                 SubSeq(npdu, at + 3, at + 2 + npdu[at + 2])>>)
      dest    == address(Bit(control, 5) = 1, 3)
      src     == address(Bit(control, 3) = 1, 3 + dest.len)
      hops    == IF dest.datum[1] # 0 THEN 1 ELSE 0
      at      == 3 + dest.len + src.len + hops
      message == Bit(control, 7) = 1
      own     == message /\ npdu[at] >= 128
  IN  IF dest.len < 0 \/ src.len < 0 THEN Undecoded
      ELSE Decoded(at - 1 + (IF message THEN 1 ELSE 0) + (IF own THEN 2 ELSE 0),
        <<dest.datum,
          IF Bit(control, 3) = 0 /\ src_before[1] = BACNET_BROADCAST_NETWORK
          THEN <<BACNET_BROADCAST_NETWORK, << >>>> ELSE src.datum,
          Bit(control, 2) = 1, control % 4, IF hops = 1 THEN npdu[at - 1] ELSE 0,
          IF ~message THEN << >>
          ELSE << <<npdu[at],
                    IF own THEN decode_unsigned(SubSeq(npdu, at + 1, at + 2)).datum ELSE 0>> >> >>)
=============================================================================
