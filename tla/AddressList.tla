---------------------------- MODULE AddressList -----------------------------
(***************************************************************************)
(* The bindings as a list read in parts: a table in which entries are asked *)
(* for, bound and given up in any order, and a reader that asks for any     *)
(* part of Device_Address_Binding (rr_address_list_encode, h_rr.c).         *)
(***************************************************************************)
EXTENDS AddressCache

VARIABLE use      \* what each slot is used for

listVars == <<use>>

\* Slot i is only used for device i, and not cleared when it is free.
Table ==
  [i \in Slots |-> [Flags |-> use[i], device_id |-> i, address |-> i, TimeToLive |-> 1]]

ListInit == use = [i \in Slots |-> {}]

ListNext ==
  \E i \in Slots, flags \in {{}, {"IN_USE"}, {"IN_USE", "BIND_REQ"}} :
    flags # use[i] /\ use' = [use EXCEPT ![i] = flags]

ListSpec == ListInit /\ [][ListNext]_listVars

Part(ref, count, room) ==
  handler_read_range(Table, RangeRequest("BY_POSITION", ref, count), FALSE, room)

\* The positions a request by position asks for, of a list of `total`.
Asked(total, ref, count) ==
  {k \in 1 .. total : IF count > 0 THEN ref <= k /\ k < ref + count
                      ELSE ref + count < k /\ k <= ref}

\* Range reads by position return the elements asked for and no others, forwards
\* and backwards, past either end and when not all of them fit, and say what they
\* leave out: wherever the first element asked for follows the one before it in
\* the table (rr_address_list_encode).  After a gap they do not.
RangeIsPartOfList ==
  LET slots == Bindings(Table)
      list  == address_list_encode(Table)
  IN  \A ref \in 1 .. MAX_ADDRESS_CACHE + 1, room \in Slots,
         count \in (-MAX_ADDRESS_CACHE .. MAX_ADDRESS_CACHE) \ {0} :
        LET wanted == Asked(Len(list), ref, count)
            part   == Part(ref, count, room)
        IN  /\ part.pdu = "COMPLEX_ACK"
            /\ wanted = {} => part.detail.items = << >>
            /\ wanted # {} /\ (Min(wanted) = 1 \/ slots[Min(wanted)] = slots[Min(wanted) - 1] + 1) =>
                 /\ part.detail.items =
                      SubSeq(list, Min(wanted), Min({Max(wanted), Min(wanted) + room - 1}))
                 /\ part.detail.more = (Cardinality(wanted) > room)
                 /\ part.detail.first = (1 \in wanted)
                 /\ part.detail.last = (Len(list) \in wanted /\ ~part.detail.more)
=============================================================================
