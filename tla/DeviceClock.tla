---------------------------- MODULE DeviceClock -----------------------------
(***************************************************************************)
(* The time of day of the device and where it is kept:                     *)
(*   - clock, the system clock, lost when the power is;                    *)
(*   - rtc, the registers of the battery-backed PCF8563, which main.c reads *)
(*     at start and writes after a TimeSynchronization;                    *)
(*   - Local_Date and Local_Time, two static variables of device.c that are *)
(*     refreshed from the clock when the device is asked for the time, and *)
(*     from which a write to one of the properties sets the whole clock.   *)
(* Any number of peers read, write and synchronise in any order.           *)
(*                                                                         *)
(* A date is a year and a day of it (month and day of the month), a time is *)
(* a moment of the day.  Only the year is kept in BCD here: it is the one  *)
(* register whose value can leave the range of two digits.                 *)
(***************************************************************************)
EXTENDS Integers

CONSTANTS
  DaysPerYear, MomentsPerDay,
  SetYears,       \* the years peers set the clock to: a date on the wire
                  \* has its year in one octet, counted from 1900
  PassYears,      \* bound: the years time may pass into
  Epoch           \* the year a clock starts in that nobody has set: 1970

ASSUME ClockAssumption ==
  /\ DaysPerYear \in Nat \ {0}
  /\ MomentsPerDay \in Nat \ {0}
  /\ SetYears \subseteq 1900 .. 2155
  /\ PassYears \subseteq Int
  /\ Epoch \in Nat

VARIABLES
  clock, rtc, Local_Date, Local_Time,
  synchronised,   \* history: clock and rtc were last set together, to a date
                  \* the chip can hold
  dateSet         \* history: the Local_Date last written, until the clock is
                  \* set in another way

vars == <<clock, rtc, Local_Date, Local_Time, synchronised, dateSet>>

Times == 0 .. MomentsPerDay - 1
SetDates == [year : SetYears, day : 1 .. DaysPerYear]

Holdable(date) == date.year \in 2000 .. 2099

NoDate == [year |-> 0, day |-> 0]   \* a static variable never written
Start == [date |-> [year |-> Epoch, day |-> 1], time |-> 0]

-----------------------------------------------------------------------------
\* dec2bcd, as the byte it is sent as, and bcd2dec.  C divides towards zero.
Dec2Bcd(n) ==
  LET digits(k) == (k \div 10) * 16 + (k % 10)
  IN  (IF n < 0 THEN -digits(-n) ELSE digits(n)) % 256
Bcd2Dec(byte) == (byte \div 16) * 10 + (byte % 16)

\* What rtc_write_current_time writes, registers in order: time, day, year.
RegistersNoCentury(moment) ==
  [time |-> moment.time, day |-> moment.date.day,
   year |-> Dec2Bcd(moment.date.year - 1900)]

Registers(moment) ==
  [time |-> moment.time, day |-> moment.date.day,
   year |-> Dec2Bcd(moment.date.year - 2000)]

\* What rtc_read_time makes of them.
YearOf(chip) == Bcd2Dec(chip.year) + 2000

FromRegisters(chip) ==
  [date |-> [year |-> YearOf(chip), day |-> chip.day], time |-> chip.time]

\* The registers after a transfer that broke off: some of them were written.
BrokenOff(chip, moment) ==
  {chip, [chip EXCEPT !.time = moment.time],
   [chip EXCEPT !.time = moment.time, !.day = moment.date.day]}

\* mktime moves a date that no calendar has into one that has it, and
\* localtime reports a year as 16 bits.
MkTime(date) == IF date.day = 0 THEN [year |-> -1, day |-> DaysPerYear] ELSE date
YearSpan == 65536
LocalTimeSigned(date) == date
LocalTime(date) == [date EXCEPT !.year = @ % YearSpan]

\* Time passes, for the clock and for the chip, which counts two-digit years.
Later(m) ==
  IF m.time + 1 < MomentsPerDay THEN [m EXCEPT !.time = @ + 1]
  ELSE [time |-> 0,
        date |-> IF m.date.day < DaysPerYear THEN [m.date EXCEPT !.day = @ + 1]
                 ELSE [year |-> m.date.year + 1, day |-> 1]]

LaterRegisters(chip) ==
  IF chip.time + 1 < MomentsPerDay THEN [chip EXCEPT !.time = @ + 1]
  ELSE IF chip.day < DaysPerYear THEN [chip EXCEPT !.time = 0, !.day = @ + 1]
  ELSE [time |-> 0, day |-> 1, year |-> Dec2Bcd((Bcd2Dec(chip.year) + 1) % 100)]

-----------------------------------------------------------------------------
Date == [year : Int, day : 0 .. DaysPerYear]
Moment == [date : Date, time : Times]
Chip == [time : Times, day : 1 .. DaysPerYear, year : 0 .. 255]
LocalDate == [year : 0 .. YearSpan - 1, day : 0 .. DaysPerYear]

TypeOK ==
  /\ clock \in Moment
  /\ rtc \in Chip
  /\ Local_Date \in LocalDate
  /\ Local_Time \in Times
  /\ synchronised \in BOOLEAN
  /\ dateSet \in SetDates \cup {NoDate}

\* Powered on, with a chip that holds the right time or cannot be read.
Init ==
  /\ \E date \in SetDates, time \in Times :
       Holdable(date) /\ rtc = Registers([date |-> date, time |-> time])
  /\ synchronised \in BOOLEAN
  /\ clock = IF synchronised THEN FromRegisters(rtc) ELSE Start
  /\ Local_Date = NoDate /\ Local_Time = 0
  /\ dateSet = NoDate

Pass ==
  /\ Later(clock).date.year \in PassYears \cup {clock.date.year}
  /\ YearOf(LaterRegisters(rtc)) \in PassYears \cup {YearOf(rtc)}
  /\ clock' = Later(clock)
  /\ rtc' = LaterRegisters(rtc)
  /\ UNCHANGED <<Local_Date, Local_Time, synchronised, dateSet>>

\* Update_Current_Time, run when a time property of the device is read.
Read ==
  /\ Local_Date' = LocalTime(clock.date)
  /\ Local_Time' = clock.time
  /\ UNCHANGED <<clock, rtc, synchronised, dateSet>>

\* WriteProperty on Local_Date and on Local_Time of the device.
WriteLocalDateUnstored(date) ==
  /\ clock' = [date |-> date, time |-> Local_Time]
  /\ synchronised' = FALSE
  /\ dateSet' = date
  /\ UNCHANGED <<rtc, Local_Date, Local_Time>>

WriteLocalDate(date) ==
  /\ Local_Date' = date
  /\ clock' = [date |-> date, time |-> Local_Time]
  /\ synchronised' = FALSE
  /\ dateSet' = date
  /\ UNCHANGED <<rtc, Local_Time>>

WriteLocalTime(time) ==
  /\ Local_Time' = time
  /\ clock' = [date |-> MkTime(Local_Date), time |-> time]
  /\ synchronised' = FALSE
  /\ UNCHANGED <<rtc, Local_Date, dateSet>>

\* A TimeSynchronization sets the clock and writes the clock to the chip.
TimeSynchronization(date, time) ==
  LET moment == [date |-> date, time |-> time]
  IN  /\ clock' = moment
      /\ \/ /\ rtc' = Registers(moment)
            /\ synchronised' = Holdable(date)
         \/ /\ rtc' \in BrokenOff(rtc, moment)
            /\ synchronised' = FALSE
      /\ dateSet' = NoDate
      /\ UNCHANGED <<Local_Date, Local_Time>>

\* The power fails and returns; the chip is read, or cannot be.
Restart(readable) ==
  /\ clock' = IF readable THEN FromRegisters(rtc) ELSE Start
  /\ synchronised' = (readable /\ Holdable(clock'.date))
  /\ Local_Date' = NoDate /\ Local_Time' = 0
  /\ dateSet' = NoDate
  /\ UNCHANGED rtc

Next ==
  \/ Pass
  \/ Read
  \/ \E date \in SetDates : WriteLocalDate(date)
  \/ \E time \in Times : WriteLocalTime(time)
  \/ \E date \in SetDates, time \in Times : TimeSynchronization(date, time)
  \/ \E readable \in BOOLEAN : Restart(readable)

Spec == Init /\ [][Next]_vars

-----------------------------------------------------------------------------
\* A device that was synchronised, whose chip took the time, and whose clock
\* shows a year of this century has the same time after a restart, however
\* long it ran in between: what main.c writes to the chip is what it reads.
RestartKeepsTime ==
  [][Restart(TRUE) /\ synchronised /\ Holdable(clock.date) =>
       clock' = clock]_vars

NotAfter(d, e) == d.year < e.year \/ (d.year = e.year /\ d.day <= e.day)

\* A tool that sets the date and then the time gets both, whatever other peers
\* read in between and although days may pass: the date is not lost, and never
\* lies ahead of the clock.
DateThenTime ==
  [][\A time \in Times :
       WriteLocalTime(time) /\ dateSet # NoDate =>
         NotAfter(dateSet, clock'.date) /\ NotAfter(clock'.date, clock.date)]_vars
=============================================================================
