----------------------------- MODULE MCLibrary -----------------------------
(* The libraries of the stack, one at a time: messages, the calendar, the key  *)
(* list, the list of address bindings.                                         *)
EXTENDS Messages, Exchange, Calendar, KeyList, AddressList

VARIABLE library   \* the one this behaviour uses

\* Numbers at which the octets that are needed change.
Unsigneds == <<0, 1, 127, 128, 255, 256, 65535, 65536, 16777215, 16777216, 2147483647>>
Signeds   == <<0, -1, 127, 128, -128, -129, 32767, 32768, -32768, -32769, 8388607, 8388608,
               -8388607, -8388608, -8388609, 2147483647, -2147483647>>
Number(n) == [k \in 1..n |-> (k * 37) % 256]
Bits(n)   == [k \in 1..n |-> k % 3 = 0]
Text(n)   == <<0, Number(n)>>
Pi        == <<219, 15, 73, 64>>
Device(n) == <<OBJECT_DEVICE, n>>
Noon      == <<12, 0, 30, 99>>
Leap      == <<2024, 2, 29, 4>>
Moment    == <<Leap, Noon>>
AV        == <<2, 4194302>>
Vmd       == <<BIT_STRING, Bits(4)>>

PrimitiveValues ==
  [n \in DOMAIN Unsigneds |-> <<UNSIGNED_INT, Unsigneds[n]>>]
  \o [n \in DOMAIN Unsigneds |-> <<ENUMERATED, Unsigneds[n]>>]
  \o [n \in DOMAIN Signeds |-> <<SIGNED_INT, Signeds[n]>>]
  \o << <<NULL, 0>>, <<BOOL, TRUE>>, <<BOOL, FALSE>>, <<REAL, Pi>>, <<DOUBLE, Number(8)>>,
        <<DATE, Leap>>, <<DATE, <<2155, 255, 255, 255>>>>, <<DATE, <<1900, 1, 1, 1>>>>,
        <<TIME, Noon>>, <<OBJECT_ID, AV>>, <<OBJECT_ID, <<1023, 0>>>>,
        <<BIT_STRING, << >>>>, <<BIT_STRING, Bits(1)>>, <<BIT_STRING, Bits(8)>>,
        <<BIT_STRING, Bits(9)>>, <<BIT_STRING, Bits(120)>> >>
  \o [n \in 1..7 |-> <<OCTET_STRING, Number(<<0, 4, 5, 253, 254, 255, 256>>[n])>>]
  \o [n \in 1..6 |-> <<CHARACTER_STRING, Text(<<0, 3, 4, 252, 253, 254>>[n])>>]

Acks == [n \in DOMAIN PrimitiveValues |->
           <<"ReadPropertyAck", n % 256, <<AV, 85, << >>, <<PrimitiveValues[n]>>>>>>]

SomeValues == << <<REAL, Pi>>, <<UNSIGNED_INT, 70000>>, <<CHARACTER_STRING, Text(6)>> >>
Cov(value) == <<85, << >>, <<value>>, << >>>>
CovData    == <<4194303, Device(123), AV, 600, <<Cov(<<REAL, Pi>>), <<111, <<2>>, <<Vmd>>, <<8>>>>>>>>
ActionList == << <<OBJECT_ID, Device(1), 0>>, <<OBJECT_ID, AV, 1>>, <<ENUMERATED, 85, 2>>,
                 <<REAL, Pi>>, <<UNSIGNED_INT, 300, 5>> >>

PropertyMessages ==
  << <<"ReadProperty", 0, <<AV, 85, << >>>>>>, <<"ReadProperty", 255, <<Device(0), 512, <<0>>>>>>,
     <<"ReadPropertyAck", 1, <<AV, 87, <<16>>, SomeValues>>>>,
     <<"ReadPropertyAck", 2, <<AV, PROP.ACTION, << >>, ActionList>>>>,
     <<"ReadPropMultiple", 3, <<>>>>,
     <<"ReadPropMultiple", 4, << <<AV, << <<85, << >>>>, <<87, <<3>>>> >>>>,
                                 <<Device(7), << <<76, << >>>> >>>> >>>>,
     <<"ReadPropMultipleAck", 5, << <<AV, << <<85, << >>, <<<<REAL, Pi>>>>>>,
                                            <<87, <<3>>, << >>, <<2, 31>>>> >>>>,
                                    <<Device(7), << <<76, << >>, SomeValues>> >>>> >>>>,
     <<"WriteProperty", 6, <<AV, 85, << >>, <<<<REAL, Pi>>>>, << >>>>>>,
     <<"WriteProperty", 7, <<AV, 85, << >>, <<<<NULL, 0>>>>, <<8>>>>>>,
     <<"WriteProperty", 8, <<AV, 87, <<1>>, SomeValues, <<1>>>>>>,
     <<"WriteProperty", 9, <<AV, PROP.ACTION, << >>, ActionList, << >>>>>>,
     <<"WritePropMultiple", 10, << <<AV, << <<85, << >>, <<<<REAL, Pi>>>>, << >>>>,
                                           <<28, << >>, <<<<CHARACTER_STRING, Text(3)>>>>, << >>>>
                                         >>>> >>>>,
     <<"ReadRange", 11, <<AV, 131, << >>, << >>>>>>,
     <<"ReadRange", 12, <<AV, 131, <<2>>, << <<RR_BY_POSITION, 1, -10>> >>>>>>,
     <<"ReadRange", 13, <<AV, 131, << >>, << <<RR_BY_SEQUENCE, 70000, 200>> >>>>>>,
     <<"ReadRange", 14, <<AV, 131, << >>, << <<RR_BY_TIME, Moment, -1>> >>>>>>,
     <<"ReadRangeAck", 15, <<AV, 131, << >>, Bits(3), 3, SomeValues, <<5>>>>>>,
     <<"ReadRangeAck", 16, <<AV, 131, << >>, Bits(3), 0, << >>, << >>>>>>,
     <<"CovNotification", 17, CovData>>, <<"UCovNotification", 0, CovData>>,
     <<"SubscribeCov", 18, <<9, AV, <<TRUE>>, <<0>>>>>>,
     <<"SubscribeCov", 19, <<9, AV, <<FALSE>>, <<86400>>>>>>,
     <<"SubscribeCov", 20, <<4194303, AV, << >>, << >>>>>>,
     <<"SubscribeCovProperty", 21, <<9, AV, <<TRUE>>, <<60>>, 85, << >>, <<Pi>>>>>>,
     <<"SubscribeCovProperty", 22, <<9, AV, << >>, << >>, 87, <<16>>, << >>>>>> >>

ControlMessages ==
  << <<"WhoIs", 0, << >>>>, <<"WhoIs", 0, <<0, 4194303>>>>,
     <<"IAm", 0, <<4194302, 1476, 3, 260>>>>,
     <<"WhoHas", 0, << << >>, <<ObjectChoice, AV>>>>>>,
     <<"WhoHas", 0, << <<1, 999>>, <<NameChoice, Text(12)>>>>>>,
     <<"IHave", 0, <<Device(260), AV, Text(5)>>>>,
     <<"ReinitializeDevice", 23, <<1, << >>>>>>, <<"ReinitializeDevice", 24, <<0, <<Text(9)>>>>>>,
     <<"DeviceCommunicationControl", 25, <<0, 0, << >>>>>>,
     <<"DeviceCommunicationControl", 26, <<65535, 1, <<Text(20)>>>>>>,
     <<"TimeSync", 0, Moment>>, <<"TimeSyncUtc", 0, Moment>>,
     <<"Error", 27, <<15, <<2, 31>>>>>>, <<"SimpleAck", 28, 15>> >>
  \o [n \in 1..7 |-> <<"Abort", 29, 49 + n>>] \o [n \in 1..12 |-> <<"Reject", 30, 57 + n>>]

OtherMessages ==
  << <<"ReadFile", 31, <<<<10, 3>>, FILE_STREAM_ACCESS, <<-1, 480>>>>>>,
     <<"ReadFile", 32, <<<<10, 3>>, FILE_RECORD_ACCESS, <<0, 2>>>>>>,
     <<"ReadFileAck", 33, <<TRUE, FILE_STREAM_ACCESS, <<128, Number(300)>>>>>>,
     <<"ReadFileAck", 34, <<FALSE, FILE_RECORD_ACCESS, <<0, 1, Number(5)>>>>>>,
     <<"WriteFile", 35, <<<<10, 3>>, FILE_STREAM_ACCESS, <<-1, Number(300)>>>>>>,
     <<"WriteFile", 36, <<<<10, 3>>, FILE_RECORD_ACCESS, <<-1, 1, Number(5)>>>>>>,
     <<"WriteFileAck", 37, <<FILE_STREAM_ACCESS, 300>>>>,
     <<"WriteFileAck", 38, <<FILE_RECORD_ACCESS, -129>>>>,
     <<"PrivateTransfer", 39, <<260, 8, Application(REAL, Pi)>>>>,
     <<"UPrivateTransfer", 0, <<65535, 300, << >>>>>>,
     <<"PrivateTransferAck", 40, <<260, 8, Number(9)>>>>,
     <<"PrivateTransferError", 41, <<2, 31, 260, 8, Number(9)>>>>,
     <<"GetEvent", 42, << >>>>, <<"GetEvent", 43, <<AV>>>>,
     <<"GetEventAck", 44,
       << << <<AV, 2, Bits(3), <<0, Noon>>, <<1, 65535>>, <<2, Moment>>, 1, Bits(3), 0, 127, 255>>,
             <<Device(5), 0, Bits(3), <<1, 0>>, <<1, 1>>, <<1, 2>>, 0, Bits(3), 1, 2, 3>> >>,
          <<TRUE>>[1]>>>>,
     <<"AlarmAck", 45, <<9, AV, 2, <<2, Moment>>, Text(8), <<1, 7>>>>>>,
     <<"GetAlarmSummaryAck", 46, << <<AV, 2, Bits(3)>>, <<Device(5), 0, Bits(1)>> >>>> >>

\* Parameters of every type of event.
EventDatum(type, parameters) ==
  <<9, Device(260), AV, <<2, Moment>>, 4194303, 255, type, <<Text(4)>>, NOTIFY_ALARM,
    << <<TRUE, 0>> >>, 2, parameters>>
Parameters ==
  << <<0, <<Bits(9), Bits(4)>>>>, <<1, << <<11, 70000>>, Bits(4)>>>>,
     <<1, << <<1, 1>>, Bits(4)>>>>, <<2, << <<0, Bits(9)>>, Bits(4)>>>>,
     <<2, << <<1, Pi>>, Bits(4)>>>>, <<4, <<Pi, Bits(4), Number(4), Pi>>>>,
     <<5, <<Pi, Bits(4), Number(4), Pi>>>>, <<8, <<1, 2, Bits(4), 300>>>>,
     <<10, << <<AV, 85, <<3>>, <<Device(9)>>>>, 0, 65536>>>>,
     <<11, <<100000, Bits(4), 99999>>>> >>
Events ==
  [n \in DOMAIN Parameters |-> <<"Event", 50, EventDatum(Parameters[n][1], Parameters[n][2])>>]
  \o << <<"UEvent", 0, EventDatum(11, <<1, Bits(4), 2>>)>>,
        <<"UEvent", 0, <<9, Device(260), AV, <<0, Noon>>, 1, 0, 5, << >>, NOTIFY_ACK_NOTIFICATION,
                         << >>, 0, << >>>>>> >>

DaySchedule == << <<Noon, <<REAL, Pi>>>>, <<<<13, 0, 0, 0>>, <<NULL, 0>>>> >>
Composites ==
  << <<PROP.DATE_LIST, << <<BACNET_CALENDAR_DATE, Leap>>,
                          <<BACNET_CALENDAR_DATE_RANGE, <<Leap, <<2025, 1, 1, 3>>>>>> >>>>,
     <<PROP.TIME_SYNCHRONIZATION_RECIPIENTS, << <<0, Device(1)>>, <<0, Device(4194302)>> >>>>,
     <<PROP.WEEKLY_SCHEDULE, <<DaySchedule, << >>, SubSeq(DaySchedule, 1, 1)>>>>,
     <<PROP.EVENT_TIME_STAMPS, << <<0, Noon>>, <<1, 0>>, <<2, Moment>> >>>>,
     <<PROP.LOG_DEVICE_OBJECT_PROPERTY, << <<AV, 85, <<16>>, <<Device(3)>>>> >>>>,
     <<PROP.START_TIME, <<Moment, <<datetime_date_wildcard, datetime_time_wildcard>>>>>>,
     <<PROP.SUBORDINATE_LIST, << << << >>, AV>>, <<<<Device(2)>>, AV>> >>>> >>
CompositeAcks ==
  [n \in DOMAIN Composites |->
     <<"CompositeAck", 60, <<AV, Composites[n][1], <<n>>, Composites[n][2]>>>>]

MCMessages == Acks \o CompositeAcks \o PropertyMessages \o ControlMessages \o OtherMessages \o Events

MCRoutes == { <<LocalNet, LocalNet>>, <<LocalNet, <<5, <<1, 2, 3, 4, 5, 6, 7>>>>>>,
              <<<<65535, << >>>>, <<300, <<9>>>>>>, <<<<7, <<1>>>>, LocalNet>> }

MCStarts == { <<1900, 2, 27, 23, 59>>, <<1999, 12, 31, 12, 30>>, <<2000, 2, 28, 0, 0>>,
              <<2024, 12, 31, 23, 30>>, <<2100, 2, 28, 6, 0>> }
MCSteps  == {-527040, -1440, -61, 59, 1440, 525600}

\* Helpers no message goes through, evaluated on the same values: the safe decoder agrees with
\* the other one and refuses what is cut short; bits set one by one are the bit string.
SetBits(bits) ==
  FoldLeft(LAMBDA so, n : bitstring_set_bit(so, n - 1, bits[n]), << >>, [n \in DOMAIN bits |-> n])
ContextDecoded(tag, apdu, number) ==
  CASE tag \in {UNSIGNED_INT} -> decode_context_unsigned(apdu, number)
    [] tag = ENUMERATED       -> decode_context_enumerated(apdu, number)
    [] tag = SIGNED_INT       -> decode_context_signed(apdu, number)
    [] tag = BOOL             -> decode_context_boolean2(apdu, number)
    [] tag = REAL             -> decode_context_real(apdu, number)
    [] tag = DOUBLE           -> decode_context_double(apdu, number)
    [] tag = OCTET_STRING     -> decode_context_octet_string(apdu, number)
    [] tag = CHARACTER_STRING -> decode_context_character_string(apdu, number)
    [] tag = BIT_STRING       -> decode_context_bitstring(apdu, number)
    [] tag = DATE             -> decode_context_date(apdu, number)
    [] tag = TIME             -> decode_context_bacnet_time(apdu, number)
    [] tag = OBJECT_ID        -> decode_context_object_id(apdu, number)
ContextRefs  == { << << >>, AV>>, <<<<Device(2)>>, AV>> }
ContextTimes == { <<Noon, <<REAL, Pi>>>>, <<<<0, 0, 0, 0>>, <<UNSIGNED_INT, 300>>>> }

\* (between opening and closing tags only up to tag 14: the decoders skip one octet)
ASSUME HelpersAgree ==
  /\ \A n \in DOMAIN PrimitiveValues, number \in {0, 14, 15, 254} :
       LET value  == PrimitiveValues[n]
           octets == bacapp_encode_context_data_value(number, value)
       IN  value[1] # NULL =>
             /\ ContextDecoded(value[1], octets, number) = Decoded(Len(octets), value[2])
             /\ ContextDecoded(value[1], octets, number + 1).len = BACNET_STATUS_ERROR
  /\ \A number \in {0, 14} :
       /\ \A ref \in ContextRefs :
            LET octets == bacapp_encode_context_device_obj_ref(number, ref)
            IN  bacapp_decode_context_device_obj_ref(octets, number) = Decoded(Len(octets), ref)
       /\ \A entry \in ContextTimes :
            LET octets == bacapp_encode_context_time_value(number, entry)
            IN  bacapp_decode_context_time_value(octets, number) = Decoded(Len(octets), entry)
  /\ \A n \in DOMAIN ActionList :
       Len(ActionList[n]) = 3 =>
         LET octets == bacapp_encode_context_data(ActionList[n], PROP.ACTION)
         IN  bacapp_decode_context_data(octets, PROP.ACTION)
               = Decoded(Len(octets), ActionList[n])
  /\ \A n \in {0, 3, 1467, 1468} :
       LET octets == octetstring_append(Number(3), Number(n))
           text   == characterstring_append(Text(3), Number(n))
       IN  /\ octetstring_init(octets).ok /\ octetstring_truncate(octets, 3) = Number(3)
           /\ characterstring_same(text, characterstring_init(0, octets).string)
  /\ \A n \in DOMAIN PrimitiveValues :
       LET octets == bacapp_encode_application_data(PrimitiveValues[n])
       IN  /\ bacapp_decode_application_data_safe(octets) = bacapp_decode_application_data(octets)
           /\ bacapp_decode_application_data_len(octets) = Len(octets)
           /\ Len(octets) > 1 =>
                bacapp_decode_application_data_safe(Front(octets)).len = BACNET_STATUS_ERROR
  /\ \A n \in 0..20 : bitstring_same(SetBits(Bits(n)), Bits(n))
  /\ \A apdu \in {50, 51, 128, 207, 480, 1024, 1476}, segs \in {0, 1, 2, 3, 64, 65} :
       LET octet == encode_max_segs_max_apdu(segs, apdu)
       IN  decode_max_apdu(octet) >= apdu /\ decode_max_segs(octet) <= segs

Init ==
  /\ library \in {"messages", "calendar", "keys", "bindings"}
  /\ MessageInit /\ CalendarInit /\ KeyInit /\ ListInit
  /\ library # "calendar" => start[1][1] = 2000
Next ==
  /\ \/ library = "messages" /\ MessageNext /\ UNCHANGED <<calendarVars, keyVars, listVars>>
     \/ library = "calendar" /\ CalendarNext /\ UNCHANGED <<messageVars, keyVars, listVars>>
     \/ library = "keys" /\ KeyNext /\ UNCHANGED <<messageVars, calendarVars, listVars>>
     \/ library = "bindings" /\ ListNext /\ UNCHANGED <<messageVars, calendarVars, keyVars>>
  /\ UNCHANGED library
vars == <<messageVars, calendarVars, keyVars, listVars, library>>
Spec == Init /\ [][Next]_vars
=============================================================================
