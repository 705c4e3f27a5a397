----------------------------- MODULE MCBinding ------------------------------
(* Two slots for three devices, so that entries are displaced; the client's  *)
(* device is neither the first nor the last to be meant by a Who-Is; one     *)
(* address is free for a device to move to.                                  *)
EXTENDS Binding

StartAt == <<"a1", "a2", "a3">>
=============================================================================
