---------------------------- MODULE MCDeviceClock ---------------------------
(***************************************************************************)
(* An instance of DeviceClock: two days a year, two moments a day, and     *)
(* years on both sides of the century the chip can count.                  *)
(***************************************************************************)
EXTENDS DeviceClock
=============================================================================
