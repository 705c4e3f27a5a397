------------------------------- MODULE MCCov --------------------------------
(***************************************************************************)
(* Instances of CovServer.  Two peers, two subscription slots and one or   *)
(* two transactions are enough for every table to be full, shared and used *)
(* again, and for messages to arrive in every state of the COV task.       *)
(***************************************************************************)
EXTENDS CovServer

CONSTANTS p1, p2, o1, o2

Context(src, object, pid) == [src |-> src, object |-> object, pid |-> pid]

\* Two peers, one of them with two processes, and one object; and a request for an
\* object that does not exist.
SharedObject ==
  {Context(p1, o1, 1), Context(p2, o1, 1), Context(p2, o1, 2), Context(p1, o2, 1)}

\* Each object is watched by one peer, for one of its properties each.
OwnObjects == {Context(p1, o1, 1), Context(p2, o2, 1)}
OneEach == [o \in {o1, o2} |-> IF o = o1 THEN {"PRESENT_VALUE"} ELSE {"OUT_OF_SERVICE"}]

\* Both peers watch the same object.
SameObject == {Context(p1, o1, 1), Context(p2, o1, 1)}
ItsPresentValue == [o \in {o1} |-> {"PRESENT_VALUE"}]

NothingWritten == [o \in {o1} |-> {}]
=============================================================================
