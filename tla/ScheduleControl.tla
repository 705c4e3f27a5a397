-------------------------- MODULE ScheduleControl ---------------------------
(***************************************************************************)
(* The control loop of the firmware: the last part of every turn of        *)
(* main/server_task.c copies the present value of schedule 0 to analog     *)
(* value 0, while peers write to both through WriteProperty and            *)
(* WritePropertyMultiple, and a write to analog value 0 also switches the  *)
(* LED (schedule.c, av.c).                                                 *)
(*                                                                         *)
(* No service can write a weekly schedule, so it stays empty as            *)
(* Schedule_Init leaves it and the calendar always yields the default.     *)
(*                                                                         *)
(* A turn first handles one message, which writes any number of properties, *)
(* then runs the loop's own part.                                          *)
(***************************************************************************)
EXTENDS Integers

CONSTANTS
  Reals,            \* the real numbers peers write, as whole numbers
  Schedule_Default  \* the value Schedule_Init gives schedule 0: 21.0

ASSUME ScheduleAssumption ==
  /\ Reals \subseteq Int
  /\ Schedule_Default \in Int

VARIABLES
  turn,      \* "receive" while a message is handled, "link" after it
  schedule,  \* schedule 0
  av,        \* analog value 0
  led,       \* the level written last to the LED's pin
  manual     \* history: the value a peer gave the schedule out of service,
             \* until its Out_Of_Service is written

vars == <<turn, schedule, av, led, manual>>

\* Application data: a tag and a value; the boolean values are 0 and 1.
Real(x) == [tag |-> "REAL", value |-> x]
Value == [tag : {"REAL"}, value : Reals \cup {Schedule_Default}]
           \cup [tag : {"BOOLEAN"}, value : {0, 1}]
           \cup [tag : {"NULL"}, value : {0}]

NotManual == [tag |-> "none", value |-> 0]

Init ==
  /\ turn = "receive"
  /\ schedule = [Present_Value |-> Real(Schedule_Default), Out_Of_Service |-> 0]
  /\ av = [Present_Value |-> 0, Out_Of_Service |-> 0]
  /\ led = 0
  /\ manual = NotManual

-----------------------------------------------------------------------------
Receiving == turn = "receive" /\ UNCHANGED turn

\* Schedule_Write_Property; a write that is refused changes nothing.
WriteSchedulePresentValue(value) ==
  /\ Receiving
  /\ schedule.Out_Of_Service = 1
  /\ schedule' = [schedule EXCEPT !.Present_Value = value]
  /\ manual' = value
  /\ UNCHANGED <<av, led>>

WriteScheduleOutOfService(value) ==
  /\ Receiving
  /\ value.tag = "BOOLEAN"
  /\ schedule' = [schedule EXCEPT !.Out_Of_Service = value.value]
  /\ manual' = NotManual
  /\ UNCHANGED <<av, led>>

\* Analog_Value_Write_Property; the priority is accepted and ignored.
WritePresentValue(value) ==
  /\ Receiving
  /\ value.tag = "REAL"
  /\ av' = [av EXCEPT !.Present_Value = value.value]
  /\ led' = IF value.value >= 1 THEN 1 ELSE 0
  /\ UNCHANGED <<schedule, manual>>

WriteOutOfService(value) ==
  /\ Receiving
  /\ value.tag = "BOOLEAN"
  /\ av' = [av EXCEPT !.Out_Of_Service = value.value]
  /\ UNCHANGED <<schedule, led, manual>>

\* Nothing was received, or nothing of the message is left.
Received ==
  /\ turn = "receive" /\ turn' = "link"
  /\ UNCHANGED <<schedule, av, led, manual>>

\* Schedule_Recalculate_PV with no entry in the weekly schedule.
Recalculated == [schedule EXCEPT !.Present_Value = Real(Schedule_Default)]

\* Mutants: out of service is not looked at; the calendar never is.
EffectiveAlways == Recalculated
EffectiveNever == schedule

\* The loop's own part: recalculate, then apply a real value.
Effective == IF schedule.Out_Of_Service = 0 THEN Recalculated ELSE schedule

Applied(av0, value) ==
  IF value.tag = "REAL" THEN [av0 EXCEPT !.Present_Value = value.value] ELSE av0

Link ==
  /\ turn = "link" /\ turn' = "receive"
  /\ schedule' = Effective
  /\ av' = Applied(av, Effective.Present_Value)
  /\ UNCHANGED <<led, manual>>

Write ==
  \E value \in Value :
    \/ WriteSchedulePresentValue(value)
    \/ WriteScheduleOutOfService(value)
    \/ WritePresentValue(value)
    \/ WriteOutOfService(value)

Next == Write \/ Received \/ Link

Spec == Init /\ [][Next]_vars

\* The loop never stops, and a message holds finitely many writes.
FairSpec == Spec /\ WF_vars(Received) /\ WF_vars(Link)

-----------------------------------------------------------------------------
\* A schedule that stays in service always takes its analog value back to the
\* calendar, whatever peers keep writing to either of them.
CalendarReturns ==
  <>[](schedule.Out_Of_Service = 0) => []<>(av.Present_Value = Schedule_Default)

\* Out of service, the real value an operator has given the schedule is the one
\* the analog value returns to, however often peers overwrite that, as long as
\* the operator leaves the schedule alone.
ManualValueHolds ==
  \A x \in Reals : <>[](manual = Real(x)) => []<>(av.Present_Value = x)
=============================================================================
