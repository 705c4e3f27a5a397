------------------------------- MODULE MCBvlc -------------------------------
(***************************************************************************)
(* Two subnets with a BBMD each, and foreign devices.                      *)
(***************************************************************************)
EXTENDS Bvlc, TLC

CONSTANTS b1, b2, d1, d2

MCSubnet == b1 :> b1 @@ b2 :> b2 @@ d1 :> b1 @@ d2 :> b2
OneSubnet == b1 :> b1 @@ d1 :> b1

Entries(mask1, mask2) ==
  << [address |-> b1, mask |-> mask1], [address |-> b2, mask |-> mask2] >>

UniformTables == {Entries(mask, mask) : mask \in Masks}
NoTables == {}
=============================================================================
