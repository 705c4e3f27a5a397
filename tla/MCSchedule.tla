----------------------------- MODULE MCSchedule -----------------------------
(* Real numbers on both sides of the LED's threshold.                       *)
EXTENDS ScheduleControl
=============================================================================
