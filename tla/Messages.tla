------------------------------ MODULE Messages ------------------------------
(***************************************************************************)
(* Which encoder writes a message (the *_encode_apdu of each service), and   *)
(* which decoder is called for the octets of one: by the type of PDU        *)
(* (apdu_handler of apdu.c) and by the service of a request, an unconfirmed *)
(* one, an acknowledgement (the handlers registered in main.c).            *)
(*                                                                         *)
(* A message is <<name, invoke_id, what it says>>.                          *)
(***************************************************************************)
EXTENDS PropertyCodecs, MessageCodecs

(***************************************************************************)
(* Properties whose value is composed: a list of elements, one after the    *)
(* other, read with ReadProperty.                                          *)
(***************************************************************************)
CompositeProperties ==
  {PROP.DATE_LIST, PROP.TIME_SYNCHRONIZATION_RECIPIENTS, PROP.WEEKLY_SCHEDULE,
   PROP.EVENT_TIME_STAMPS, PROP.LOG_DEVICE_OBJECT_PROPERTY, PROP.START_TIME, PROP.SUBORDINATE_LIST}

CompositeOctets(property, list) ==
  CASE property = PROP.DATE_LIST -> EncodedList(bacnet_calendarentry_encode, list)
    [] property = PROP.TIME_SYNCHRONIZATION_RECIPIENTS ->
         timesync_encode_timesync_recipients(list)
    [] property = PROP.WEEKLY_SCHEDULE ->
         EncodedList(LAMBDA day : bacnet_dailyschedule_context_encode(0, day), list)
    [] property = PROP.EVENT_TIME_STAMPS -> EncodedList(bacapp_encode_timestamp, list)
    [] property = PROP.LOG_DEVICE_OBJECT_PROPERTY ->
         EncodedList(bacapp_encode_device_obj_property_ref, list)
    [] property = PROP.START_TIME -> EncodedList(bacapp_encode_datetime, list)
    [] property = PROP.SUBORDINATE_LIST -> EncodedList(bacapp_encode_device_obj_ref, list)

DecodedList(apdu, decode(_)) ==
  LET RECURSIVE all(_)
      all(rest) == LET next == decode(rest)
                   IN  IF rest = << >> \/ next.len <= 0 THEN << >>
                       ELSE <<next.datum>> \o all(From(rest, next.len + 1))
  IN  all(apdu)

\* How many recipients to look for, the caller says: here as many as fit, each of five octets.
CompositeList(property, apdu) ==
  CASE property = PROP.DATE_LIST -> DecodedList(apdu, bacnet_calendarentry_decode)
    [] property = PROP.TIME_SYNCHRONIZATION_RECIPIENTS ->
         timesync_decode_timesync_recipients(apdu, Len(apdu) \div 5).datum
    [] property = PROP.WEEKLY_SCHEDULE ->
         DecodedList(apdu, LAMBDA day : bacnet_dailyschedule_context_decode(day, 0))
    [] property = PROP.EVENT_TIME_STAMPS -> DecodedList(apdu, bacapp_decode_timestamp)
    [] property = PROP.LOG_DEVICE_OBJECT_PROPERTY ->
         DecodedList(apdu, bacapp_decode_device_obj_property_ref)
    [] property = PROP.START_TIME -> DecodedList(apdu, bacapp_decode_datetime)
    [] property = PROP.SUBORDINATE_LIST -> DecodedList(apdu, bacapp_decode_device_obj_ref)

\* <<object, property, index?, list>> in the acknowledgement of a ReadProperty.
composite_ack_encode_apdu(invoke_id, d) ==
  ComplexAckOf(SERVICE_CONFIRMED.READ_PROPERTY, invoke_id)
  \o encode_context_object_id(0, d[1]) \o encode_context_enumerated(1, d[2])
  \o IfAny(encode_context_unsigned, 2, d[3]) \o InTags(3, CompositeOctets(d[2], d[4]))
composite_ack_decode_service_request(apdu) ==
  LET d == Parse(apdu, <<Field(0, OBJECT_ID), Numbered(1, ENUMERATED),
                         Maybe(2, UNSIGNED_INT), Rest(3)>>)
  IN  IF d.len >= 0 /\ d.datum[2] \in CompositeProperties
      THEN Decoded(d.len, [d.datum EXCEPT ![4] = CompositeList(d.datum[2], @)])
      ELSE rp_ack_decode_service_request(apdu)

Encoded(message) ==
  LET name == message[1]
      id   == message[2]
      d    == message[3]
  IN  CASE name = "ReadProperty"        -> rp_encode_apdu(id, d)
        [] name = "ReadPropertyAck"     -> rp_ack_encode_apdu(id, d)
        [] name = "CompositeAck"        -> composite_ack_encode_apdu(id, d)
        [] name = "ReadPropMultiple"    -> rpm_encode_apdu(MAX_APDU, id, d)
        [] name = "ReadPropMultipleAck" -> rpm_ack_encode_apdu(id, d)
        [] name = "WriteProperty"       -> wp_encode_apdu(id, d)
        [] name = "WritePropMultiple"   -> wpm_encode_apdu(id, d)
        [] name = "ReadRange"           -> rr_encode_apdu(id, d)
        [] name = "ReadRangeAck"        -> rr_ack_encode_apdu(id, d)
        [] name = "CovNotification"     -> ccov_notify_encode_apdu(id, d)
        [] name = "UCovNotification"    -> ucov_notify_encode_apdu(d)
        [] name = "SubscribeCov"        -> cov_subscribe_encode_apdu(id, d)
        [] name = "SubscribeCovProperty" -> cov_subscribe_property_encode_apdu(id, d)
        [] name = "WhoIs"               -> whois_encode_apdu(d)
        [] name = "IAm"                 -> iam_encode_apdu(d)
        [] name = "WhoHas"              -> whohas_encode_apdu(d)
        [] name = "IHave"               -> ihave_encode_apdu(d)
        [] name = "ReinitializeDevice"  -> rd_encode_apdu(id, d)
        [] name = "DeviceCommunicationControl" -> dcc_encode_apdu(id, d)
        [] name = "TimeSync"            -> timesync_encode_apdu(d)
        [] name = "TimeSyncUtc"         -> timesync_utc_encode_apdu(d)
        [] name = "Abort"               -> abort_encode_apdu(id, abort_convert_error_code(d), TRUE)
        [] name = "Reject"              -> reject_encode_apdu(id, reject_convert_error_code(d))
        [] name = "Error"               -> bacerror_encode_apdu(id, d[1], d[2])
        [] name = "SimpleAck"           -> SimpleAckOf(d, id)
        [] name = "ReadFile"            -> arf_encode_apdu(id, d)
        [] name = "ReadFileAck"         -> arf_ack_encode_apdu(id, d)
        [] name = "WriteFile"           -> awf_encode_apdu(id, d)
        [] name = "WriteFileAck"        -> awf_ack_encode_apdu(id, d)
        [] name = "PrivateTransfer"     -> ptransfer_encode_apdu(id, d)
        [] name = "UPrivateTransfer"    -> uptransfer_encode_apdu(d)
        [] name = "PrivateTransferAck"  -> ptransfer_ack_encode_apdu(id, d)
        [] name = "PrivateTransferError" -> ptransfer_error_encode_apdu(id, d)
        [] name = "Event"               -> cevent_notify_encode_apdu(id, d)
        [] name = "UEvent"              -> uevent_notify_encode_apdu(d)
        [] name = "GetEvent"            -> getevent_encode_apdu(id, d)
        [] name = "GetEventAck"         -> getevent_ack_encode_apdu(id, d)
        [] name = "AlarmAck"            -> alarm_ack_encode_apdu(id, d)
        [] name = "GetAlarmSummaryAck"  -> get_alarm_summary_ack_encode_apdu(id, d)

\* Which decoder is called for which service of a request, an unconfirmed one, an acknowledgement.
DecodedRequest(service, apdu) ==
  CASE service = SERVICE_CONFIRMED.READ_PROPERTY -> rp_decode_service_request(apdu)
    [] service = SERVICE_CONFIRMED.READ_PROP_MULTIPLE -> rpm_decode(apdu)
    [] service = SERVICE_CONFIRMED.WRITE_PROPERTY -> wp_decode_service_request(apdu)
    [] service = SERVICE_CONFIRMED.WRITE_PROP_MULTIPLE -> wpm_decode(apdu)
    [] service = SERVICE_CONFIRMED.READ_RANGE -> rr_decode_service_request(apdu)
    [] service = SERVICE_CONFIRMED.COV_NOTIFICATION -> cov_notify_decode_service_request(apdu)
    [] service = SERVICE_CONFIRMED.SUBSCRIBE_COV -> cov_subscribe_decode_service_request(apdu)
    [] service = SERVICE_CONFIRMED.SUBSCRIBE_COV_PROPERTY ->
         cov_subscribe_property_decode_service_request(apdu)
    [] service = SERVICE_CONFIRMED.REINITIALIZE_DEVICE -> rd_decode_service_request(apdu)
    [] service = SERVICE_CONFIRMED.DEVICE_COMMUNICATION_CONTROL -> dcc_decode_service_request(apdu)
    [] service = SERVICE_CONFIRMED.ATOMIC_READ_FILE -> arf_decode_service_request(apdu)
    [] service = SERVICE_CONFIRMED.ATOMIC_WRITE_FILE -> awf_decode_service_request(apdu)
    [] service = SERVICE_CONFIRMED.PRIVATE_TRANSFER -> ptransfer_decode_service_request(apdu)
    [] service = SERVICE_CONFIRMED.EVENT_NOTIFICATION -> event_notify_decode_service_request(apdu)
    [] service = SERVICE_CONFIRMED.GET_EVENT_INFORMATION -> getevent_decode_service_request(apdu)
    [] service = SERVICE_CONFIRMED.ACKNOWLEDGE_ALARM -> alarm_ack_decode_service_request(apdu)

DecodedUnconfirmed(service, apdu) ==
  CASE service = SERVICE_UNCONFIRMED.WHO_IS -> whois_decode_service_request(apdu)
    [] service = SERVICE_UNCONFIRMED.I_AM -> iam_decode_service_request(apdu)
    [] service = SERVICE_UNCONFIRMED.WHO_HAS -> whohas_decode_service_request(apdu)
    [] service = SERVICE_UNCONFIRMED.I_HAVE -> ihave_decode_service_request(apdu)
    [] service = SERVICE_UNCONFIRMED.COV_NOTIFICATION -> cov_notify_decode_service_request(apdu)
    [] service = SERVICE_UNCONFIRMED.EVENT_NOTIFICATION ->
         event_notify_decode_service_request(apdu)
    [] service = SERVICE_UNCONFIRMED.PRIVATE_TRANSFER -> ptransfer_decode_service_request(apdu)
    [] service \in {SERVICE_UNCONFIRMED.TIME_SYNCHRONIZATION,
                    SERVICE_UNCONFIRMED.UTC_TIME_SYNCHRONIZATION} ->
         timesync_decode_service_request(apdu)

DecodedAck(service, apdu) ==
  CASE service = SERVICE_CONFIRMED.READ_PROPERTY -> composite_ack_decode_service_request(apdu)
    [] service = SERVICE_CONFIRMED.READ_PROP_MULTIPLE -> rpm_ack_decode_service_request(apdu)
    [] service = SERVICE_CONFIRMED.READ_RANGE -> rr_ack_decode_service_request(apdu)
    [] service = SERVICE_CONFIRMED.ATOMIC_READ_FILE -> arf_ack_decode_service_request(apdu)
    [] service = SERVICE_CONFIRMED.ATOMIC_WRITE_FILE -> awf_ack_decode_service_request(apdu)
    [] service = SERVICE_CONFIRMED.PRIVATE_TRANSFER -> ptransfer_decode_service_request(apdu)
    [] service = SERVICE_CONFIRMED.GET_EVENT_INFORMATION ->
         getevent_ack_decode_service_request(apdu)
    [] service = SERVICE_CONFIRMED.GET_ALARM_SUMMARY -> get_alarm_summary_ack_decode_apdu_data(apdu)

\* <<invoke_id, datum>> by type of PDU: confirmed, unconfirmed, simple and complex
\* acknowledgement, error, reject, abort.
DecodedApdu(apdu) ==
  LET pdu == apdu[1] \div 16
  IN  CASE pdu = 0 -> <<apdu[3], DecodedRequest(apdu[4], From(apdu, 5)).datum>>
        [] pdu = 1 -> <<0, DecodedUnconfirmed(apdu[2], From(apdu, 3)).datum>>
        [] pdu = 2 -> <<apdu[2], apdu[3]>>
        [] pdu = 3 -> <<apdu[2], DecodedAck(apdu[3], From(apdu, 4)).datum>>
        [] pdu = 5 /\ apdu[3] = SERVICE_CONFIRMED.PRIVATE_TRANSFER ->
             <<apdu[2], ptransfer_error_decode_service_request(From(apdu, 4)).datum>>
        [] pdu = 5 /\ apdu[3] # SERVICE_CONFIRMED.PRIVATE_TRANSFER ->
             LET error == bacerror_decode_service_request(Tail(apdu)).datum
             IN  <<error[1], <<error[2], error[3]>>>>
        [] pdu = 6 -> LET it == reject_decode_service_request(Tail(apdu)).datum
                      IN  <<it[1], it[2]>>
        [] pdu = 7 -> LET it == abort_decode_service_request(Tail(apdu)).datum
                      IN  <<it[1], it[2]>>

-----------------------------------------------------------------------------
\* What a message says once it has been sent: a refusal says its reason, a priority not given is
\* the lowest.
Said(message) ==
  CASE message[1] = "Abort"  -> abort_convert_error_code(message[3])
    [] message[1] = "Reject" -> reject_convert_error_code(message[3])
    [] message[1] = "WriteProperty" -> WithPriority(message[3])
    [] message[1] = "WritePropMultiple" ->
         [n \in DOMAIN message[3] |->
            <<message[3][n][1], [k \in DOMAIN message[3][n][2] |->
                                   WithPriority(message[3][n][2][k])]>>]
    [] OTHER -> message[3]

=============================================================================
