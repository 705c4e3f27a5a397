------------------------------- MODULE Octets -------------------------------
(***************************************************************************)
(* Values as octets: integers (bacint.c), IEEE numbers (bacreal.c), strings *)
(* (bacstr.c) and the tags that introduce them (bacdcode.c).               *)
(*                                                                         *)
(* A value is <<tag, datum>> with the application tag of its type.  The     *)
(* datum of a REAL or DOUBLE is its IEEE octets as the processor keeps them, *)
(* least significant first; of a BIT_STRING its bits; of a CHARACTER_STRING *)
(* <<encoding, octets>>; of a DATE <<year, month, day, weekday>>; of an     *)
(* OBJECT_ID <<type, instance>>.  Numbers of 32 bits stay below 2^31, the   *)
(* largest TLC has.                                                        *)
(***************************************************************************)
EXTENDS Integers, Sequences, SequencesExt

CONSTANTS
  MAX_APDU,                    \* bound: octets a message may take
  MAX_OCTET_STRING_BYTES,      \* bound: octets kept of an octet string
  CHARACTER_STRING_CAPACITY,   \* bound: octets kept of a character string
  MAX_BITSTRING_BYTES          \* bound: octets kept of a bit string

\* BACNET_APPLICATION_TAG
NULL == 0
BOOL == 1
UNSIGNED_INT == 2
SIGNED_INT == 3
REAL == 4
DOUBLE == 5
OCTET_STRING == 6
CHARACTER_STRING == 7
BIT_STRING == 8
ENUMERATED == 9
DATE == 10
TIME == 11
OBJECT_ID == 12

BACNET_MAX_OBJECT   == 1023
BACNET_MAX_INSTANCE == 4194303

\* What a decoder returns: the octets it took, 0 when it could take none, and the datum.
Decoded(len, datum) == [len |-> len, datum |-> datum]

From(apdu, n) == SubSeq(apdu, n, Len(apdu))

-----------------------------------------------------------------------------
\* encode_unsigned16 to encode_signed32: most significant octet first, two's complement.
Big(value, n) == [i \in 1..n |-> (value \div 256^(n - i)) % 256]

\* Each octet shifted to its place: the last counts ones, the one before it 256s.
Place(octets, k) == IF k < Len(octets) THEN octets[Len(octets) - k] * 256^k ELSE 0

Joined(octets) ==
  IF Len(octets) \in 1..4
  THEN Place(octets, 0) + Place(octets, 1) + Place(octets, 2) + Place(octets, 3)
  ELSE 0

decode_unsigned(octets) == Decoded(Len(octets), Joined(octets))

\* The sign is that of the first octet.
decode_signed(octets) ==
  Decoded(Len(octets), Joined([i \in DOMAIN octets |->
    IF i = 1 /\ octets[i] > 127 THEN octets[i] - 256 ELSE octets[i]]))

\* The fewest octets; the smallest number of 24 bits is sent in 32.
encode_bacnet_unsigned(value) ==
  Big(value, IF value < 256 THEN 1 ELSE IF value < 65536 THEN 2
             ELSE IF value < 16777216 THEN 3 ELSE 4)

encode_bacnet_signed(value) ==
  Big(value, IF value >= -128 /\ value < 128 THEN 1
             ELSE IF value >= -32768 /\ value < 32768 THEN 2
             ELSE IF value > -8388608 /\ value < 8388608 THEN 3 ELSE 4)

\* The processor keeps the least significant octet first.
encode_bacnet_real(octets)   == Reverse(octets)
encode_bacnet_double(octets) == Reverse(octets)

decode_real_safe(octets) ==
  Decoded(Len(octets), IF Len(octets) = 4 THEN Reverse(octets) ELSE <<0, 0, 0, 0>>)

decode_double_safe(octets) ==
  Decoded(Len(octets), IF Len(octets) = 8 THEN Reverse(octets) ELSE [i \in 1..8 |-> 0])

-----------------------------------------------------------------------------
\* Bit strings: bit 0 is the lowest of the first octet here, the highest on the wire.
Bit(octet, n) == (octet \div 2^n) % 2

byte_reverse_bits(octet) ==
  FoldLeft(LAMBDA sum, n : sum + Bit(octet, n) * 2^(7 - n), 0, <<0, 1, 2, 3, 4, 5, 6, 7>>)

bitstring_bytes_used(bits) == (Len(bits) + 7) \div 8

bitstring_octet(bits, k) ==
  FoldLeft(LAMBDA sum, n :
             sum + (IF 8 * (k - 1) + n + 1 \in DOMAIN bits /\ bits[8 * (k - 1) + n + 1]
                    THEN 2^n ELSE 0),
           0, <<0, 1, 2, 3, 4, 5, 6, 7>>)

\* Setting a bit beyond the last one lengthens the string; beyond its capacity nothing.
bitstring_set_bit(bits, number, value) ==
  IF number >= 8 * MAX_BITSTRING_BYTES THEN bits
  ELSE [n \in 1..(IF number < Len(bits) THEN Len(bits) ELSE number + 1) |->
          IF n = number + 1 THEN value ELSE n \in DOMAIN bits /\ bits[n]]

bitstring_same(bits, others) ==
  /\ Len(bits) = Len(others)
  /\ \A n \in DOMAIN bits : bits[n] = others[n]

encode_bitstring(bits) ==
  IF bits = << >> THEN <<0>>
  ELSE LET used == bitstring_bytes_used(bits)
       IN  <<8 * used - Len(bits)>>
           \o [k \in 1..used |-> byte_reverse_bits(bitstring_octet(bits, k))]

decode_bitstring(octets) ==
  LET used  == Len(octets) - 1
      octet(n) == byte_reverse_bits(octets[2 + (n \div 8)])
  IN  IF octets = << >> \/ used > MAX_BITSTRING_BYTES THEN Decoded(0, << >>)
      ELSE Decoded(1 + used,
             [n \in 1..(8 * used - (octets[1] % 8)) |-> Bit(octet(n - 1), (n - 1) % 8) = 1])

-----------------------------------------------------------------------------
\* Octet and character strings: what exceeds the capacity is not taken at all.
octetstring_init(octets) ==
  [ok |-> Len(octets) <= MAX_OCTET_STRING_BYTES, octets |-> octets]

octetstring_append(string, octets) ==
  IF Len(string) + Len(octets) <= MAX_OCTET_STRING_BYTES THEN string \o octets ELSE string

octetstring_truncate(string, length) ==
  IF length <= MAX_OCTET_STRING_BYTES THEN SubSeq(string, 1, length) ELSE string

decode_octet_string(octets) ==
  IF octetstring_init(octets).ok THEN Decoded(Len(octets), octets) ELSE Decoded(0, << >>)

characterstring_init(encoding, octets) ==
  [ok |-> Len(octets) <= CHARACTER_STRING_CAPACITY,
   string |-> <<encoding, IF Len(octets) <= CHARACTER_STRING_CAPACITY THEN octets ELSE << >> >>]

characterstring_append(string, octets) ==
  IF Len(string[2]) + Len(octets) <= CHARACTER_STRING_CAPACITY
  THEN <<string[1], string[2] \o octets>> ELSE string

characterstring_same(string, other) == string[1] = other[1] /\ string[2] = other[2]

encode_bacnet_character_string(string) == <<string[1]>> \o string[2]

\* A string of no octets at all has no encoding and is not decoded.
decode_character_string(octets) ==
  LET taken == characterstring_init(octets[1], Tail(octets))
  IN  IF octets # << >> /\ taken.ok THEN Decoded(Len(octets), taken.string)
      ELSE Decoded(0, <<0, << >> >>)

-----------------------------------------------------------------------------
\* Ten bits of type, 22 of instance.
encode_bacnet_object_id(id) ==
  LET type     == id[1] % (BACNET_MAX_OBJECT + 1)
      instance == id[2] % (BACNET_MAX_INSTANCE + 1)
  IN  <<type \div 4, 64 * (type % 4) + (instance \div 65536)>> \o Big(instance, 2)

decode_object_id(octets) ==
  Decoded(4, <<4 * octets[1] + (octets[2] \div 64),
               65536 * (octets[2] % 64) + decode_unsigned(SubSeq(octets, 3, 4)).datum>>)

encode_bacnet_time(time) == time
decode_bacnet_time(octets) ==
  Decoded(Len(octets), IF Len(octets) = 4 THEN octets ELSE <<0, 0, 0, 0>>)

\* Years are sent from 1900 on; one below 256 is taken to be counted so already.
encode_bacnet_date(date) ==
  <<IF date[1] >= 1900 THEN (date[1] - 1900) % 256 ELSE date[1]>> \o Tail(date)

decode_date(octets) ==
  Decoded(Len(octets),
    IF Len(octets) = 4 THEN <<octets[1] + 1900>> \o Tail(octets) ELSE <<0, 0, 0, 0>>)

-----------------------------------------------------------------------------
(***************************************************************************)
(* Tags.  The first octet holds the number, the class and the length; a     *)
(* number above 14 and a length above 4 follow in octets of their own.      *)
(***************************************************************************)
Control(number, context, type) ==
  <<16 * (IF number <= 14 THEN number ELSE 15) + (IF context THEN 8 ELSE 0) + type>>
  \o (IF number <= 14 THEN << >> ELSE <<number>>)

ExtendedLength(length) ==
  IF length <= 4 THEN << >>
  ELSE IF length <= 253 THEN <<length>>
  ELSE IF length <= 65535 THEN <<254>> \o Big(length, 2)
  ELSE <<255>> \o Big(length, 4)

encode_tag(number, context, length) ==
  Control(number, context, IF length <= 4 THEN length ELSE 5) \o ExtendedLength(length)

encode_opening_tag(number) == Control(number, TRUE, 6)
encode_closing_tag(number) == Control(number, TRUE, 7)

IS_CONTEXT_SPECIFIC(apdu) == Bit(apdu[1], 3) = 1
IS_EXTENDED_VALUE(apdu)   == apdu[1] % 8 = 5
IS_OPENING_TAG(apdu)      == apdu[1] % 8 = 6
IS_CLOSING_TAG(apdu)      == apdu[1] % 8 = 7

decode_tag_number(apdu) ==
  IF apdu[1] \div 16 = 15 THEN Decoded(2, apdu[2]) ELSE Decoded(1, apdu[1] \div 16)

\* The tag's octets, its number, and its length: of an opening or closing tag none.
decode_tag_number_and_value(apdu) ==
  LET number == decode_tag_number(apdu)
      n      == number.len
      tag(extra, value) == [len |-> n + extra, number |-> number.datum, value |-> value]
  IN  CASE IS_EXTENDED_VALUE(apdu) /\ apdu[n + 1] = 255 ->
             tag(5, decode_unsigned(SubSeq(apdu, n + 2, n + 5)).datum)
        [] IS_EXTENDED_VALUE(apdu) /\ apdu[n + 1] = 254 ->
             tag(3, decode_unsigned(SubSeq(apdu, n + 2, n + 3)).datum)
        [] IS_EXTENDED_VALUE(apdu) /\ apdu[n + 1] < 254 -> tag(1, apdu[n + 1])
        [] OTHER ->
             tag(0, IF IS_OPENING_TAG(apdu) \/ IS_CLOSING_TAG(apdu) THEN 0 ELSE apdu[1] % 8)

\* The same of a message that may be cut: len 0 when the tag is not all there.
decode_tag_number_and_value_safe(apdu) ==
  LET nothing == [len |-> 0, number |-> 0, value |-> 0]
      number  == IF Len(apdu) = 1 THEN 1 ELSE decode_tag_number(apdu).len
      room    == Len(apdu) - number
  IN  IF apdu = << >> THEN nothing
      ELSE IF IS_EXTENDED_VALUE(apdu)
              /\ (\/ room < 1
                  \/ apdu[number + 1] = 255 /\ room < 5
                  \/ apdu[number + 1] = 254 /\ room < 3)
      THEN nothing
      ELSE IF Len(apdu) = 1
      THEN [len |-> 1, number |-> apdu[1] \div 16,
            value |-> IF apdu[1] % 8 \in {6, 7} THEN 0 ELSE apdu[1] % 8]
      ELSE decode_tag_number_and_value(apdu)

decode_is_context_tag(apdu, number) ==
  apdu # << >> /\ IS_CONTEXT_SPECIFIC(apdu) /\ decode_tag_number(apdu).datum = number
decode_is_opening_tag_number(apdu, number) ==
  apdu # << >> /\ IS_OPENING_TAG(apdu) /\ decode_tag_number(apdu).datum = number
decode_is_closing_tag_number(apdu, number) ==
  apdu # << >> /\ IS_CLOSING_TAG(apdu) /\ decode_tag_number(apdu).datum = number

-----------------------------------------------------------------------------
(***************************************************************************)
(* A value with its tag: encode_application_* and encode_context_*, and the *)
(* decoders that ask for a context tag.                                    *)
(***************************************************************************)
BACNET_STATUS_ERROR == -1

Application(tag, octets)   == encode_tag(tag, FALSE, Len(octets)) \o octets
Context(number, octets)    == encode_tag(number, TRUE, Len(octets)) \o octets
InContext(apdu, number, decode(_)) ==
  LET tag     == decode_tag_number_and_value(apdu)
      content == decode(SubSeq(apdu, tag.len + 1, tag.len + tag.value))
  IN  IF decode_is_context_tag(apdu, number) THEN Decoded(tag.len + content.len, content.datum)
      ELSE Decoded(BACNET_STATUS_ERROR, 0)

\* Of an application BOOLEAN the tag's length is the value; in a context it has an octet.
encode_application_boolean(value)     == encode_tag(BOOL, FALSE, IF value THEN 1 ELSE 0)
encode_context_boolean(number, value) == Context(number, IF value THEN <<1>> ELSE <<0>>)
decode_boolean(length)                == length # 0
decode_context_boolean(octets)        == Decoded(1, octets[1] # 0)
decode_context_boolean2(apdu, number) == InContext(apdu, number, decode_context_boolean)

encode_application_null     == encode_tag(NULL, FALSE, 0)
encode_context_null(number) == encode_tag(number, TRUE, 0)

encode_application_bitstring(bits)     == Application(BIT_STRING, encode_bitstring(bits))
encode_context_bitstring(number, bits) == Context(number, encode_bitstring(bits))
decode_context_bitstring(apdu, number) == InContext(apdu, number, decode_bitstring)

encode_application_object_id(id)       == Application(OBJECT_ID, encode_bacnet_object_id(id))
encode_context_object_id(number, id)   == Context(number, encode_bacnet_object_id(id))
decode_context_object_id(apdu, number) == InContext(apdu, number, decode_object_id)

\* Strings that would leave no room in a message are not encoded at all.
Fitting(octets) == IF Len(octets) < MAX_APDU THEN octets ELSE << >>

encode_application_octet_string(octets)     == Fitting(Application(OCTET_STRING, octets))
encode_context_octet_string(number, octets) == Fitting(Context(number, octets))
decode_context_octet_string(apdu, number)   == InContext(apdu, number, decode_octet_string)

encode_application_character_string(string) ==
  Fitting(Application(CHARACTER_STRING, encode_bacnet_character_string(string)))
encode_context_character_string(number, string) ==
  Fitting(Context(number, encode_bacnet_character_string(string)))
decode_context_character_string(apdu, number) ==
  InContext(apdu, number, decode_character_string)

encode_application_unsigned(value)     == Application(UNSIGNED_INT, encode_bacnet_unsigned(value))
encode_context_unsigned(number, value) == Context(number, encode_bacnet_unsigned(value))
decode_context_unsigned(apdu, number)  == InContext(apdu, number, decode_unsigned)

encode_application_enumerated(value)     == Application(ENUMERATED, encode_bacnet_unsigned(value))
encode_context_enumerated(number, value) == Context(number, encode_bacnet_unsigned(value))
decode_context_enumerated(apdu, number)  == InContext(apdu, number, decode_unsigned)

encode_application_signed(value)     == Application(SIGNED_INT, encode_bacnet_signed(value))
encode_context_signed(number, value) == Context(number, encode_bacnet_signed(value))
decode_context_signed(apdu, number)  == InContext(apdu, number, decode_signed)

encode_application_real(value)     == Application(REAL, encode_bacnet_real(value))
encode_context_real(number, value) == Context(number, encode_bacnet_real(value))
decode_context_real(apdu, number)  == InContext(apdu, number, decode_real_safe)

encode_application_double(value)     == Application(DOUBLE, encode_bacnet_double(value))
encode_context_double(number, value) == Context(number, encode_bacnet_double(value))
decode_context_double(apdu, number)  == InContext(apdu, number, decode_double_safe)

encode_application_time(time)          == Application(TIME, encode_bacnet_time(time))
encode_context_time(number, time)      == Context(number, encode_bacnet_time(time))
decode_context_bacnet_time(apdu, number) == InContext(apdu, number, decode_bacnet_time)

encode_application_date(date)     == Application(DATE, encode_bacnet_date(date))
encode_context_date(number, date) == Context(number, encode_bacnet_date(date))
decode_context_date(apdu, number) == InContext(apdu, number, decode_date)

-----------------------------------------------------------------------------
\* encode_max_segs_max_apdu: both are announced by class, rounded.
SegsClasses == <<2, 4, 8, 16, 32, 64>>
ApduClasses == <<50, 128, 206, 480, 1024, 1476>>

encode_max_segs_max_apdu(max_segs, max_apdu) ==
  LET reached == {n \in DOMAIN SegsClasses : max_segs >= SegsClasses[n]}
      fits    == {n \in DOMAIN ApduClasses : max_apdu <= ApduClasses[n]}
  IN  16 * (IF max_segs > 64 THEN 7 ELSE Cardinality(reached))
      + (IF fits = {} THEN 0 ELSE Min(fits) - 1)

decode_max_segs(octet) ==
  LET class == (octet \div 16) % 16
  IN  IF class \in DOMAIN SegsClasses THEN SegsClasses[class] ELSE IF class = 7 THEN 65 ELSE 0

decode_max_apdu(octet) ==
  IF octet % 16 < 6 THEN ApduClasses[(octet % 16) + 1] ELSE 0
=============================================================================
