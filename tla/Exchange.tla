------------------------------ MODULE Exchange ------------------------------
(***************************************************************************)
(* Messages on their way: a device encodes a message behind a network       *)
(* header (npdu.c), the other one takes the header off, looks at where it   *)
(* was sent (npdu_handler of h_npdu.c) and decodes what is left.           *)
(***************************************************************************)
EXTENDS MessageCodecs

CONSTANTS
  Library,      \* the messages that are exchanged, a sequence of <<name, invoke_id, what it says>>
  Routes,       \* the addresses they are sent with: a set of <<destination, source>>
  Encode(_),    \* the octets of a message
  Decode(_),    \* <<invoke_id, what it says>>, of the octets
  Expected(_)   \* what a message says once it has been sent

VARIABLES
  sent,      \* <<place in the library, route>> of the message sent last, or << >>
  wire,      \* its octets while they are on the way
  received   \* what the other device made of them: <<destination, source, invoke_id, datum>>
messageVars == <<sent, wire, received>>

-----------------------------------------------------------------------------
MessageInit == sent = << >> /\ wire = << >> /\ received = << >>

\* The messages are sent in turn: nothing is left of one when the next is sent.
NextMessage == IF sent = << >> THEN 1 ELSE (sent[1] % Len(Library)) + 1

\* Only confirmed requests expect a reply.
Send(route) ==
  LET n    == NextMessage
      apdu == Encode(Library[n])
  IN  /\ wire = << >>
      /\ sent' = <<n, route>>
      /\ wire' = npdu_encode_pdu(route[1], route[2],
                                 npdu_encode_npdu_data(apdu[1] \div 16 = 0, 0)) \o apdu
      /\ received' = << >>

\* npdu_handler; a confirmed request to everyone is not looked at.
Receive ==
  LET header == npdu_decode(wire, LocalNet)
      apdu   == From(wire, header.len + 1)
      dest   == header.datum[1]
  IN  /\ wire # << >>
      /\ wire' = << >>
      /\ received' = IF \/ header.datum[6] # << >>
                        \/ dest[1] \notin {0, BACNET_BROADCAST_NETWORK}
                        \/ dest[1] = BACNET_BROADCAST_NETWORK /\ apdu[1] \div 16 = 0
                     THEN << >>
                     ELSE <<dest, header.datum[2]>> \o Decode(apdu)
      /\ UNCHANGED sent

MessageNext == (\E route \in Routes : Send(route)) \/ Receive

-----------------------------------------------------------------------------
(***************************************************************************)
(* What was sent is what is understood: whatever its length, its values and *)
(* what is left out of it, a message decoded says what the encoder was told *)
(* to say, for the request it was sent for and from the address it was sent *)
(* from.  Encoders and decoders are written apart, field by field.         *)
(***************************************************************************)
RoundTrip ==
  received # << >> =>
    LET message == Library[sent[1]]
    IN  received = sent[2] \o <<message[2], Expected(message)>>
=============================================================================
