------------------------------- MODULE MCTSM --------------------------------
(* Two transactions, over three invoke IDs and four requests or over two    *)
(* and three: the table fills up, and the last request takes the ID of the  *)
(* first again.                                                            *)
EXTENDS TSM
=============================================================================
