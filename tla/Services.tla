------------------------------ MODULE Services ------------------------------
(***************************************************************************)
(* The service handlers that work on the objects of the device, each as a  *)
(* function from the database and a decoded request to the reply:          *)
(* WriteProperty (h_wp.c), WritePropertyMultiple (h_wpm.c), ReadProperty   *)
(* (h_rp.c), ReadPropertyMultiple (h_rpm.c), ReinitializeDevice (h_rd.c),  *)
(* DeviceCommunicationControl (h_dcc.c) and Who-Has (h_whohas.c).           *)
(* PropertyCodecs and MessageCodecs have how they are encoded.              *)
(***************************************************************************)
EXTENDS Device

Reply(pdu, detail) == [pdu |-> pdu, detail |-> detail]

SimpleAck         == Reply("SIMPLE_ACK", << >>)
ComplexAck(data)  == Reply("COMPLEX_ACK", data)
Error(error)      == Reply("ERROR", error)
Reject(reason)    == Reply("REJECT", <<reason>>)
Abort(reason)     == Reply("ABORT", <<reason>>)
NoReply           == Reply("NONE", << >>)

SEGMENTATION_NOT_SUPPORTED == Abort("SEGMENTATION_NOT_SUPPORTED")

-----------------------------------------------------------------------------
(***************************************************************************)
(* WriteProperty.  An access is [type, instance, write]: one property of    *)
(* one object to write; `decodes` is false of one that cannot be decoded.   *)
(***************************************************************************)
handler_write_property(db, access, segmented) ==
  LET result == Device_Write_Property(db, access.type, access.instance, access.write)
  IN  IF segmented THEN [db |-> db, reply |-> SEGMENTATION_NOT_SUPPORTED]
      ELSE IF ~access.decodes THEN [db |-> db, reply |-> Abort("OTHER")]
      ELSE [db |-> result.db, reply |-> IF result.ok THEN SimpleAck ELSE Error(result.error)]

\* The access an error is about, as it names it.
Names(access) == <<access.type, access.instance, access.write.property>>

\* Mutant: a refused access does not end the request.
wpm_step_without_stop(progress, access) ==
  LET result == Device_Write_Property(progress.db, access.type, access.instance, access.write)
  IN  IF ~access.decodes THEN [progress EXCEPT !.reply = Reject("INVALID_TAG")]
      ELSE IF result.ok THEN [progress EXCEPT !.db = result.db]
      ELSE [db |-> result.db, reply |-> Error(<<result.error, Names(access)>>)]

(***************************************************************************)
(* WritePropertyMultiple: one access after the other, up to the first that  *)
(* cannot be decoded or is refused.  The error names that access; what was  *)
(* written before it stays.  A segmented request is meant to be aborted,    *)
(* but the handler leaves `error` unset on the way to WPM_ABORT, and so     *)
(* acknowledges what it has not looked at.                                  *)
(***************************************************************************)
wpm_step(progress, access) ==
  LET result == Device_Write_Property(progress.db, access.type, access.instance, access.write)
  IN  IF progress.reply # SimpleAck THEN progress
      ELSE IF ~access.decodes THEN [progress EXCEPT !.reply = Reject("INVALID_TAG")]
      ELSE IF result.ok THEN [progress EXCEPT !.db = result.db]
      ELSE [db |-> result.db, reply |-> Error(<<result.error, Names(access)>>)]

handler_write_property_multiple(db, accesses, segmented) ==
  LET untouched == [db |-> db, reply |-> SimpleAck]
      progress[n \in 0..Len(accesses)] ==
        IF n = 0 THEN untouched ELSE wpm_step(progress[n - 1], accesses[n])
  IN  IF segmented THEN untouched ELSE progress[Len(accesses)]

-----------------------------------------------------------------------------
\* The device answers for itself under the wildcard instance as well.
Addressed(db, type, instance) ==
  IF type = "DEVICE" /\ instance = BACNET_MAX_INSTANCE
  THEN db.DEVICE.Object_Instance_Number ELSE instance

\* Room a reply takes, in values: what does not fit max_resp is aborted.
Fitting(data, max_resp) ==
  IF Len(data) > max_resp THEN SEGMENTATION_NOT_SUPPORTED ELSE ComplexAck(data)

\* ReadProperty.  A reference is [type, instance, property, index].
handler_read_property(db, ref, segmented, max_resp) ==
  LET instance == Addressed(db, ref.type, ref.instance)
      result   == Device_Read_Property(db, ref.type, instance, ref.property, ref.index)
  IN  IF segmented THEN SEGMENTATION_NOT_SUPPORTED
      ELSE IF ~ref.decodes THEN Reject("INVALID_TAG")
      ELSE IF result.ok THEN Fitting(result.data, max_resp)
      ELSE Error(result.error)

\* RPM_Object_Property and RPM_Object_Property_Count: what a special property stands for.
RPM_Object_Properties(type, special) ==
  LET lists == Property_Lists(type)
  IN  CASE special = "ALL"      -> lists.required \o lists.optional \o lists.proprietary
        [] special = "REQUIRED" -> lists.required
        [] special = "OPTIONAL" -> lists.optional

\* RPM_Encode_Property: the value, or an error in its place.
RPM_Encode_Property(db, type, instance, property, index) ==
  [property |-> property, index |-> index,
   result   |-> Device_Read_Property(db, type, instance, property, index)]

\* What ReadPropertyMultiple returns for one reference.
RPM_Results(db, ref) ==
  LET instance == Addressed(db, ref.type, ref.instance)
  IN  IF ref.property \notin {"ALL", "REQUIRED", "OPTIONAL"}
      THEN <<RPM_Encode_Property(db, ref.type, instance, ref.property, ref.index)>>
      ELSE IF ref.index # ARRAY_ALL
      THEN <<[property |-> ref.property, index |-> ref.index, result |-> Not_An_Array]>>
      ELSE LET properties == RPM_Object_Properties(ref.type, ref.property)
           IN  [n \in DOMAIN properties |->
                  RPM_Encode_Property(db, ref.type, instance, properties[n], ARRAY_ALL)]

\* A reference that does not decode rejects the whole request.
handler_read_property_multiple(db, refs, segmented, max_resp) ==
  LET results == FlattenSeq([n \in DOMAIN refs |-> RPM_Results(db, refs[n])])
      values  == FlattenSeq([n \in DOMAIN results |-> results[n].result.data])
  IN  IF segmented THEN SEGMENTATION_NOT_SUPPORTED
      ELSE IF \E n \in DOMAIN refs : ~refs[n].decodes THEN Reject("INVALID_TAG")
      ELSE IF Len(results) + Len(values) > max_resp THEN SEGMENTATION_NOT_SUPPORTED
      ELSE ComplexAck(results)

-----------------------------------------------------------------------------
(***************************************************************************)
(* Communication control: `dcc` is [status, seconds], seconds = 0 meaning   *)
(* for as long as nobody says otherwise.                                    *)
(***************************************************************************)
dcc_enabled == [status |-> "ENABLE", seconds |-> 0]

dcc_set_status_duration(status, minutes) ==
  [status |-> status, seconds |-> IF status = "ENABLE" THEN 0 ELSE minutes * 60]

\* The timer: time that runs out ends the silence.
dcc_timer_seconds(dcc, seconds) ==
  IF dcc.seconds = 0 THEN dcc
  ELSE IF dcc.seconds > seconds THEN [dcc EXCEPT !.seconds = @ - seconds]
  ELSE dcc_enabled

\* DeviceCommunicationControl: the status and the reply.  A request is [state, minutes,
\* password_right, decodes].
handler_device_communication_control(dcc, request, segmented) ==
  IF segmented THEN [dcc |-> dcc, reply |-> SEGMENTATION_NOT_SUPPORTED]
  ELSE IF ~request.decodes THEN [dcc |-> dcc, reply |-> Abort("OTHER")]
  ELSE IF request.state \notin {"ENABLE", "DISABLE", "DISABLE_INITIATION"}
  THEN [dcc |-> dcc, reply |-> Reject("UNDEFINED_ENUMERATION")]
  ELSE IF request.password_right
  THEN [dcc   |-> dcc_set_status_duration(request.state, request.minutes), reply |-> SimpleAck]
  ELSE [dcc |-> dcc, reply |-> Error(<<"SECURITY", "PASSWORD_FAILURE">>)]

\* Device_Reinitialize: a restart only lifts the communication control; the
\* other states are acknowledged and nothing is done.
Device_Reinitialize(dcc, state, password_right) ==
  CASE ~password_right -> [dcc |-> dcc, reply |-> Error(<<"SECURITY", "PASSWORD_FAILURE">>)]
    [] password_right /\ state \in {"COLDSTART", "WARMSTART"} ->
         [dcc |-> dcc_set_status_duration("ENABLE", 0), reply |-> SimpleAck]
    [] OTHER -> [dcc |-> dcc, reply |-> SimpleAck]

ReinitializedStates ==
  {"COLDSTART", "WARMSTART", "STARTBACKUP", "ENDBACKUP", "STARTRESTORE", "ENDRESTORE",
   "ABORTRESTORE"}

\* ReinitializeDevice.  A request is [state, password_right, decodes].
handler_reinitialize_device(dcc, request, segmented) ==
  IF segmented THEN [dcc |-> dcc, reply |-> SEGMENTATION_NOT_SUPPORTED]
  ELSE IF ~request.decodes THEN [dcc |-> dcc, reply |-> Abort("OTHER")]
  ELSE IF request.state \notin ReinitializedStates
  THEN [dcc |-> dcc, reply |-> Reject("UNDEFINED_ENUMERATION")]
  ELSE Device_Reinitialize(dcc, request.state, request.password_right)

-----------------------------------------------------------------------------
(***************************************************************************)
(* Who-Has asks by name or by identifier; I-Have goes out unless            *)
(* communication is restricted.  By name only listed objects are found, by  *)
(* identifier every one there is.  `limits` is << >> or <<low, high>>.      *)
(***************************************************************************)
IHave(db, id, name) ==
  [device |-> db.DEVICE.Object_Instance_Number, object |-> id, name |-> name]

Send_I_Have(dcc, answers) == IF dcc.status = "ENABLE" THEN answers ELSE {}

match_name(db, dcc, name) ==
  Send_I_Have(dcc,
    IF NamedObjects(db, name) = {} THEN {} ELSE {IHave(db, FirstNamed(db, name), name)})

match_object(db, dcc, id) ==
  Send_I_Have(dcc,
    IF Valid_Object_Id(db, id[1], id[2])
    THEN {IHave(db, id, Object_Name(db, id[1], id[2]))} ELSE {})

handler_who_has(db, dcc, limits, Match(_, _)) ==
  IF limits = << >> \/ db.DEVICE.Object_Instance_Number \in limits[1]..limits[2]
  THEN Match(db, dcc) ELSE {}
=============================================================================
