--------------------------- MODULE Library_proofs ---------------------------
(***************************************************************************)
(* The clock and the libraries the stack calculates with, each on its own:  *)
(* the device clock and its chip, the sorted list of keys, the calendar,   *)
(* and the octets and tags that carry a value.                             *)
(***************************************************************************)
EXTENDS DeviceClock, KeyList, Calendar, Octets, SlotFacts, SequenceTheorems, TLAPS

-----------------------------------------------------------------------------
(***************************************************************************)
(* Whatever the lengths of a year and of a day, and whatever peers set the *)
(* clock to, a restart of a synchronised device keeps the time.            *)
(*                                                                         *)
(* RestartKeepsTime speaks of the step that reads the chip.  What it needs *)
(* to know of the state before is ChipFollows: as long as the clock shows a *)
(* year of this century, the chip reads as the clock.  That is inductive   *)
(* only together with the fact that the clock of a synchronised device     *)
(* never shows a year before 2000: a clock that reached 2000 from below    *)
(* would become holdable with a chip that holds something else.            *)
(***************************************************************************)

ChipFollows ==
  synchronised =>
    /\ clock.date.year >= 2000
    /\ Holdable(clock.date) => FromRegisters(rtc) = clock

Inv == TypeOK /\ ChipFollows

-----------------------------------------------------------------------------
\* A byte is what dec2bcd makes of any number.
LEMMA Dec2BcdIsByte ==
  ASSUME NEW n \in Int
  PROVE  Dec2Bcd(n) \in 0 .. 255
<1>1. \A k \in Int : k % 256 \in 0 .. 255
  OBVIOUS
<1>2. \A k \in Int : (k \div 10) * 16 + (k % 10) \in Int
  OBVIOUS
<1>. QED  BY <1>1, <1>2 DEF Dec2Bcd

LEMMA Bcd2DecIsNat ==
  ASSUME NEW byte \in 0 .. 255
  PROVE  Bcd2Dec(byte) \in Nat
BY DEF Bcd2Dec

\* bcd2dec undoes dec2bcd on two digits.
LEMMA BcdRoundTrip ==
  ASSUME NEW n \in 0 .. 99
  PROVE  Bcd2Dec(Dec2Bcd(n)) = n
<1> DEFINE tens == n \div 10
           ones == n % 10
<1>1. tens \in 0 .. 9 /\ ones \in 0 .. 9 /\ n = tens * 10 + ones
  OBVIOUS
<1> HIDE DEF tens, ones
<1>2. Dec2Bcd(n) = (tens * 16 + ones) % 256
  BY DEF Dec2Bcd, tens, ones
<1>3. (tens * 16 + ones) % 256 = tens * 16 + ones
  BY <1>1
<1>4. (tens * 16 + ones) \div 16 = tens /\ (tens * 16 + ones) % 16 = ones
  BY <1>1
<1>. QED  BY <1>1, <1>2, <1>3, <1>4 DEF Bcd2Dec

\* What is written to the chip is what is read from it, of a date it can hold.
LEMMA RegistersRoundTrip ==
  ASSUME NEW now \in Moment, Holdable(now.date)
  PROVE  FromRegisters(Registers(now)) = now
<1>1. now.date.year - 2000 \in 0 .. 99
  BY DEF Holdable, Moment, Date
<1>2. Bcd2Dec(Dec2Bcd(now.date.year - 2000)) = now.date.year - 2000
  BY <1>1, BcdRoundTrip
<1>3. YearOf(Registers(now)) = now.date.year
  BY <1>2 DEF YearOf, Registers, Moment, Date
<1>. QED  BY <1>3 DEF FromRegisters, Registers, Moment, Date

\* The chip and the clock count on alike within the century.
LEMMA LaterAlike ==
  ASSUME NEW chip \in Chip,
         NEW m \in Moment,
         FromRegisters(chip) = m,
         Later(m).date.year <= 2099
  PROVE  FromRegisters(LaterRegisters(chip)) = Later(m)
<1>1. /\ m.time = chip.time /\ m.date.day = chip.day
      /\ m.date.year = Bcd2Dec(chip.year) + 2000
      /\ m = [date |-> m.date, time |-> m.time]
      /\ m.date = [year |-> m.date.year, day |-> m.date.day]
      /\ m.date.year \in Int
  BY DEF FromRegisters, YearOf, Moment, Date
<1>2. CASE chip.time + 1 < MomentsPerDay
  BY <1>1, <1>2 DEF Chip, FromRegisters, YearOf, LaterRegisters, Later
<1>3. CASE ~ (chip.time + 1 < MomentsPerDay) /\ chip.day < DaysPerYear
  BY <1>1, <1>3 DEF Chip, FromRegisters, YearOf, LaterRegisters, Later
<1>4. CASE ~ (chip.time + 1 < MomentsPerDay) /\ ~ (chip.day < DaysPerYear)
  <2>1. Later(m) = [time |-> 0, date |-> [year |-> m.date.year + 1, day |-> 1]]
    BY <1>1, <1>4 DEF Later
  <2>2. Bcd2Dec(chip.year) \in Nat
    BY Bcd2DecIsNat DEF Chip
  <2>3. Bcd2Dec(chip.year) + 1 \in 0 .. 99
    BY <1>1, <2>1, <2>2
  <2>4. (Bcd2Dec(chip.year) + 1) % 100 = Bcd2Dec(chip.year) + 1
    BY <2>3
  <2>5. Bcd2Dec(Dec2Bcd((Bcd2Dec(chip.year) + 1) % 100)) = Bcd2Dec(chip.year) + 1
    BY <2>3, <2>4, BcdRoundTrip
  <2>6. LaterRegisters(chip) =
          [time |-> 0, day |-> 1, year |-> Dec2Bcd((Bcd2Dec(chip.year) + 1) % 100)]
    BY <1>4 DEF LaterRegisters
  <2>. QED  BY <1>1, <2>1, <2>2, <2>5, <2>6 DEF FromRegisters, YearOf
<1>. QED  BY <1>2, <1>3, <1>4

-----------------------------------------------------------------------------
\* A date that peers set has a year of the wire and a day of the calendar.
LEMMA SetDateTyped ==
  ASSUME NEW date \in SetDates
  PROVE  date \in Date /\ date.year \in 1900 .. 2155 /\ date.day \in 1 .. DaysPerYear
<1>1. date.year \in SetYears /\ date.day \in 1 .. DaysPerYear
      /\ date = [year |-> date.year, day |-> date.day]
  BY DEF SetDates
<1>2. date.year \in 1900 .. 2155
  BY <1>1, ClockAssumption
<1>. QED  BY <1>1, <1>2, ClockAssumption DEF Date

\* The moments the actions are given, and what a reading of the chip yields.
LEMMA MomentsTyped ==
  /\ \A date \in SetDates, time \in Times :
       [date |-> date, time |-> time] \in Moment
  /\ Start \in Moment
  /\ \A m \in Moment : Later(m) \in Moment
  /\ \A date \in Date : MkTime(date) \in Date
<1>0. DaysPerYear \in Nat \ {0} /\ MomentsPerDay \in Nat \ {0}
      /\ SetYears \subseteq 1900 .. 2155 /\ Epoch \in Nat
  BY ClockAssumption
<1>1. \A date \in SetDates, time \in Times : [date |-> date, time |-> time] \in Moment
  BY SetDateTyped DEF Moment
<1>2. Start \in Moment
  <2>1. [year |-> Epoch, day |-> 1] \in Date
    BY <1>0 DEF Date
  <2>2. 0 \in Times
    BY <1>0 DEF Times
  <2>. QED  BY <2>1, <2>2 DEF Start, Moment
<1>3. ASSUME NEW m \in Moment PROVE Later(m) \in Moment
  <2>1. m = [date |-> m.date, time |-> m.time]
        /\ m.date = [year |-> m.date.year, day |-> m.date.day]
        /\ m.date.year \in Int /\ m.date.day \in 0 .. DaysPerYear
        /\ m.time \in 0 .. MomentsPerDay - 1
    BY DEF Moment, Date, Times
  <2>2. CASE m.time + 1 < MomentsPerDay
    <3>1. Later(m) = [date |-> m.date, time |-> m.time + 1]
      BY <2>1, <2>2 DEF Later
    <3>. QED  BY <3>1, <2>1, <2>2, <1>0 DEF Moment, Date, Times
  <2>3. CASE ~ (m.time + 1 < MomentsPerDay) /\ m.date.day < DaysPerYear
    <3>1. Later(m) = [time |-> 0, date |-> [year |-> m.date.year, day |-> m.date.day + 1]]
      BY <2>1, <2>3 DEF Later
    <3>. QED  BY <3>1, <2>1, <2>3, <1>0 DEF Moment, Date, Times
  <2>4. CASE ~ (m.time + 1 < MomentsPerDay) /\ ~ (m.date.day < DaysPerYear)
    <3>1. Later(m) = [time |-> 0, date |-> [year |-> m.date.year + 1, day |-> 1]]
      BY <2>1, <2>4 DEF Later
    <3>. QED  BY <3>1, <2>1, <1>0 DEF Moment, Date, Times
  <2>. QED  BY <2>2, <2>3, <2>4
<1>4. \A date \in Date : MkTime(date) \in Date
  BY <1>0 DEF MkTime, Date
<1>. QED  BY <1>1, <1>2, <1>3, <1>4

LEMMA ChipsTyped ==
  /\ \A date \in SetDates, time \in Times :
       Registers([date |-> date, time |-> time]) \in Chip
  /\ \A chip \in Chip, date \in SetDates, time \in Times :
       BrokenOff(chip, [date |-> date, time |-> time]) \subseteq Chip
  /\ \A chip \in Chip : FromRegisters(chip) \in Moment
  /\ \A chip \in Chip : FromRegisters(chip).date.year >= 2000
  /\ \A chip \in Chip : LaterRegisters(chip) \in Chip
<1>0. DaysPerYear \in Nat \ {0} /\ MomentsPerDay \in Nat \ {0}
      /\ SetYears \subseteq 1900 .. 2155
  BY ClockAssumption
<1>1. ASSUME NEW date \in SetDates, NEW time \in Times
      PROVE  Registers([date |-> date, time |-> time]) \in Chip
  <2>1. date.year - 2000 \in Int /\ date.day \in 1 .. DaysPerYear
    BY SetDateTyped
  <2>2. Dec2Bcd(date.year - 2000) \in 0 .. 255
    BY <2>1, Dec2BcdIsByte
  <2>. QED  BY <2>1, <2>2 DEF Registers, Chip
<1>2. ASSUME NEW chip \in Chip, NEW date \in SetDates, NEW time \in Times
      PROVE  BrokenOff(chip, [date |-> date, time |-> time]) \subseteq Chip
  <2>1. date.day \in 1 .. DaysPerYear
    BY SetDateTyped
  <2>2. [chip EXCEPT !.time = time] \in Chip
    BY DEF Chip
  <2>3. [chip EXCEPT !.time = time, !.day = date.day] \in Chip
    BY <2>1 DEF Chip
  <2>4. BrokenOff(chip, [date |-> date, time |-> time]) =
          {chip, [chip EXCEPT !.time = time],
           [chip EXCEPT !.time = time, !.day = date.day]}
    BY DEF BrokenOff
  <2>. QED  BY <2>2, <2>3, <2>4
<1>3. ASSUME NEW chip \in Chip
      PROVE  FromRegisters(chip) \in Moment /\ FromRegisters(chip).date.year >= 2000
  <2>1. chip.year \in 0 .. 255 /\ chip.day \in 1 .. DaysPerYear /\ chip.time \in Times
    BY DEF Chip
  <2>2. Bcd2Dec(chip.year) \in Nat
    BY <2>1, Bcd2DecIsNat
  <2>. QED  BY <1>0, <2>1, <2>2 DEF FromRegisters, YearOf, Moment, Date
<1>4. ASSUME NEW chip \in Chip PROVE LaterRegisters(chip) \in Chip
  <2>1. chip.year \in 0 .. 255 /\ chip.day \in 1 .. DaysPerYear
        /\ chip.time \in 0 .. MomentsPerDay - 1
        /\ chip = [time |-> chip.time, day |-> chip.day, year |-> chip.year]
    BY DEF Chip, Times
  <2>2. CASE chip.time + 1 < MomentsPerDay
    <3>1. LaterRegisters(chip) =
            [time |-> chip.time + 1, day |-> chip.day, year |-> chip.year]
      BY <2>1, <2>2 DEF LaterRegisters
    <3>. QED  BY <3>1, <2>1, <2>2, <1>0 DEF Chip, Times
  <2>3. CASE ~ (chip.time + 1 < MomentsPerDay) /\ chip.day < DaysPerYear
    <3>1. LaterRegisters(chip) = [time |-> 0, day |-> chip.day + 1, year |-> chip.year]
      BY <2>1, <2>3 DEF LaterRegisters
    <3>. QED  BY <3>1, <2>1, <2>3, <1>0 DEF Chip, Times
  <2>4. CASE ~ (chip.time + 1 < MomentsPerDay) /\ ~ (chip.day < DaysPerYear)
    <3>1. (Bcd2Dec(chip.year) + 1) % 100 \in Int
      BY <2>1, Bcd2DecIsNat
    <3>2. Dec2Bcd((Bcd2Dec(chip.year) + 1) % 100) \in 0 .. 255
      BY <3>1, Dec2BcdIsByte
    <3>3. LaterRegisters(chip) =
            [time |-> 0, day |-> 1, year |-> Dec2Bcd((Bcd2Dec(chip.year) + 1) % 100)]
      BY <2>4 DEF LaterRegisters
    <3>. QED  BY <3>2, <3>3, <1>0 DEF Chip, Times
  <2>. QED  BY <2>2, <2>3, <2>4
<1>. QED  BY <1>1, <1>2, <1>3, <1>4

-----------------------------------------------------------------------------
\* The dates the static variable may hold.
LEMMA LocalDatesTyped ==
  /\ NoDate \in LocalDate
  /\ \A date \in SetDates : date \in LocalDate
  /\ \A date \in Date : LocalTime(date) \in LocalDate
  /\ \A date \in LocalDate : date \in Date
<1>1. DaysPerYear \in Nat
  BY ClockAssumption
<1>2. YearSpan \in Nat /\ YearSpan > 2155
      /\ \A y \in Int : y % YearSpan >= 0 /\ y % YearSpan < YearSpan
  BY DEF YearSpan
<1>3. 0 \in 0 .. YearSpan - 1 /\ 1900 .. 2155 \subseteq 0 .. YearSpan - 1
      /\ 0 .. YearSpan - 1 \subseteq Int
      /\ \A y \in Int : y % YearSpan \in 0 .. YearSpan - 1
  BY <1>2
<1>4. NoDate \in LocalDate
  <2>1. 0 \in 0 .. YearSpan - 1 /\ 0 \in 0 .. DaysPerYear
    BY <1>1, <1>3
  <2>. QED  BY <2>1 DEF NoDate, LocalDate
<1>5. ASSUME NEW date \in SetDates PROVE date \in LocalDate
  <2>1. date = [year |-> date.year, day |-> date.day]
    BY DEF SetDates
  <2>2. date.year \in 0 .. YearSpan - 1 /\ date.day \in 0 .. DaysPerYear
    BY <1>1, <1>3, SetDateTyped
  <2>. QED  BY <2>1, <2>2 DEF LocalDate
<1>6. ASSUME NEW date \in Date PROVE LocalTime(date) \in LocalDate
  <2>1. date.year \in Int /\ date.day \in 0 .. DaysPerYear
        /\ LocalTime(date) = [year |-> date.year % YearSpan, day |-> date.day]
    BY DEF Date, LocalTime
  <2>. QED  BY <1>3, <2>1 DEF LocalDate
<1>7. \A date \in LocalDate : date \in Date
  BY <1>3 DEF LocalDate, Date
<1>. QED  BY <1>4, <1>5, <1>6, <1>7

LEMMA InitInv == Init => Inv
<1> SUFFICES ASSUME Init PROVE Inv
  OBVIOUS
<1>1. PICK date \in SetDates, time \in Times : rtc = Registers([date |-> date, time |-> time])
  BY DEF Init
<1>2. rtc \in Chip
  BY <1>1, ChipsTyped
<1>3. clock \in Moment
  BY <1>2, ChipsTyped, MomentsTyped DEF Init
<1>4. 0 \in Times /\ NoDate \in LocalDate
  BY ClockAssumption, LocalDatesTyped DEF Times
<1>5. TypeOK
  BY <1>2, <1>3, <1>4 DEF Init, TypeOK
<1>6. ChipFollows
  BY <1>2, ChipsTyped DEF Init, ChipFollows
<1>. QED  BY <1>5, <1>6 DEF Inv

\* Every action of the device and of time keeps the chip following the clock.
LEMMA NextInv == Inv /\ [Next]_vars => Inv'
<1> SUFFICES ASSUME Inv, [Next]_vars PROVE Inv'
  OBVIOUS
<1>0. rtc \in Chip /\ clock \in Moment /\ synchronised \in BOOLEAN
      /\ Local_Date \in LocalDate /\ Local_Time \in Times
      /\ dateSet \in SetDates \cup {NoDate}
  BY DEF Inv, TypeOK
<1>F. ChipFollows
  BY DEF Inv
<1> DEFINE Typed ==
      /\ clock' \in Moment /\ rtc' \in Chip /\ synchronised' \in BOOLEAN
      /\ Local_Date' \in LocalDate
      /\ Local_Time' \in Times /\ dateSet' \in SetDates \cup {NoDate}
<1>T. Typed => TypeOK'
  BY DEF TypeOK
<1>V. TypeOK' /\ ChipFollows' => Inv'
  BY DEF Inv
<1>1. CASE Pass
  <2>1. Typed
    BY <1>0, <1>1, MomentsTyped, ChipsTyped DEF Pass
  <2>2. ASSUME synchronised' PROVE clock'.date.year >= 2000
    <3>1. synchronised /\ clock.date.year >= 2000 /\ clock' = Later(clock)
      BY <1>1, <1>F, <2>2 DEF Pass, ChipFollows
    <3>2. clock'.date.year \in {clock.date.year, clock.date.year + 1}
      BY <3>1, <1>0 DEF Later, Moment, Date
    <3>. QED  BY <3>1, <3>2, <1>0 DEF Moment, Date
  <2>3. ASSUME synchronised', Holdable(clock'.date) PROVE FromRegisters(rtc') = clock'
    <3>1. synchronised /\ clock.date.year >= 2000 /\ clock' = Later(clock)
          /\ rtc' = LaterRegisters(rtc)
      BY <1>1, <1>F, <2>3 DEF Pass, ChipFollows
    <3>2. clock'.date.year \in {clock.date.year, clock.date.year + 1}
      BY <3>1, <1>0 DEF Later, Moment, Date
    <3>3. clock'.date.year <= 2099 /\ Holdable(clock.date)
      BY <3>1, <3>2, <2>3, <1>0 DEF Holdable, Moment, Date
    <3>4. FromRegisters(rtc) = clock
      BY <1>F, <3>1, <3>3 DEF ChipFollows
    <3>. QED  BY <3>1, <3>3, <3>4, <1>0, LaterAlike
  <2>. QED  BY <1>T, <1>V, <2>1, <2>2, <2>3 DEF ChipFollows
<1>2. CASE Read
  <2>1. LocalTime(clock.date) \in LocalDate
    BY <1>0, LocalDatesTyped DEF Moment
  <2>2. Typed
    BY <1>0, <1>2, <2>1 DEF Read, Moment
  <2>. QED  BY <1>T, <1>V, <1>F, <1>2, <2>2 DEF Read, ChipFollows
<1>3. ASSUME NEW date \in SetDates, WriteLocalDate(date) PROVE Inv'
  <2>1. date \in Date /\ date \in LocalDate
    BY SetDateTyped, LocalDatesTyped
  <2>2. Typed
    BY <1>0, <1>3, <2>1 DEF WriteLocalDate, Moment
  <2>. QED  BY <1>T, <1>V, <1>3, <2>2 DEF WriteLocalDate, ChipFollows
<1>4. ASSUME NEW time \in Times, WriteLocalTime(time) PROVE Inv'
  <2>1. Local_Date \in Date
    BY <1>0, LocalDatesTyped
  <2>2. Typed
    BY <1>0, <1>4, <2>1, MomentsTyped DEF WriteLocalTime, Moment
  <2>. QED  BY <1>T, <1>V, <1>4, <2>2 DEF WriteLocalTime, ChipFollows
<1>5. ASSUME NEW date \in SetDates, NEW time \in Times, TimeSynchronization(date, time)
      PROVE  Inv'
  <2> DEFINE now == [date |-> date, time |-> time]
  <2>1. now \in Moment /\ clock' = now
    BY <1>5, MomentsTyped DEF TimeSynchronization
  <2>2. \/ rtc' = Registers(now) /\ synchronised' = Holdable(date)
        \/ rtc' \in BrokenOff(rtc, now) /\ synchronised' = FALSE
    BY <1>5 DEF TimeSynchronization
  <2>3. rtc' \in Chip /\ synchronised' \in BOOLEAN
    <3>1. CASE rtc' = Registers(now) /\ synchronised' = Holdable(date)
      <4>1. Registers(now) \in Chip
        BY ChipsTyped
      <4>2. Holdable(date) \in BOOLEAN
        BY DEF Holdable
      <4>. QED  BY <3>1, <4>1, <4>2
    <3>2. CASE rtc' \in BrokenOff(rtc, now) /\ synchronised' = FALSE
      <4>1. BrokenOff(rtc, now) \subseteq Chip
        BY <1>0, ChipsTyped
      <4>. QED  BY <3>2, <4>1
    <3>. QED  BY <2>2, <3>1, <3>2
  <2>4. Typed
    BY <1>0, <1>5, <2>1, <2>3 DEF TimeSynchronization
  <2>5. ASSUME synchronised' PROVE Holdable(now.date) /\ rtc' = Registers(now)
    BY <2>2, <2>5
  <2>6. ASSUME synchronised' PROVE FromRegisters(rtc') = clock' /\ clock'.date.year >= 2000
    BY <2>1, <2>5, <2>6, RegistersRoundTrip DEF Holdable
  <2>. QED  BY <1>T, <1>V, <2>4, <2>6 DEF ChipFollows
<1>6. ASSUME NEW readable \in BOOLEAN, Restart(readable) PROVE Inv'
  <2>1. clock' = (IF readable THEN FromRegisters(rtc) ELSE Start) /\ rtc' = rtc
    BY <1>6 DEF Restart
  <2>2. 0 \in Times /\ NoDate \in LocalDate
    BY ClockAssumption, LocalDatesTyped DEF Times
  <2>3. synchronised' = (readable /\ Holdable(clock'.date))
    BY <1>6 DEF Restart
  <2>4. clock' \in Moment /\ synchronised' \in BOOLEAN
    BY <1>0, <2>1, <2>3, MomentsTyped, ChipsTyped DEF Holdable
  <2>5. Typed
    BY <1>0, <1>6, <2>1, <2>2, <2>4 DEF Restart
  <2>6. ASSUME synchronised' PROVE FromRegisters(rtc') = clock' /\ clock'.date.year >= 2000
    BY <1>0, <2>1, <2>3, <2>6, ChipsTyped
  <2>. QED  BY <1>T, <1>V, <2>5, <2>6 DEF ChipFollows
<1>7. CASE UNCHANGED vars
  BY <1>0, <1>F, <1>T, <1>V, <1>7 DEF vars, ChipFollows
<1>. QED  BY <1>1, <1>2, <1>3, <1>4, <1>5, <1>6, <1>7 DEF Next

THEOREM Invariance == Spec => []Inv
<1>. QED  BY InitInv, NextInv, PTL DEF Spec

\* The clock, the chip and the static copies always hold values of their types.
THEOREM TypeCorrect == Spec => []TypeOK
<1>1. Inv => TypeOK
  BY DEF Inv
<1>. QED  BY Invariance, <1>1, PTL

\* A restart gives a synchronised device back the very time it had.
THEOREM RestartCorrect == Spec => RestartKeepsTime
<1>1. Inv => (Restart(TRUE) /\ synchronised /\ Holdable(clock.date) => clock' = clock)
  BY DEF Inv, ChipFollows, Restart
<1>. QED  BY Invariance, <1>1, PTL DEF RestartKeepsTime
-----------------------------------------------------------------------------
(***************************************************************************)
(* A date that a tool has written waits in Local_Date for the time that    *)
(* goes with it.  What holds it there is an order of three dates: the one  *)
(* written, the static copy, the clock.  A day that passes moves the last, *)
(* a reader brings the second up to the last, and neither gets past it.    *)
(***************************************************************************)
LastKept == YearSpan - 1

Kept(date) == date.year \in 0 .. LastKept /\ date.day \in 1 .. DaysPerYear

DateFollows ==
  dateSet # NoDate =>
    /\ Kept(Local_Date) /\ Kept(clock.date)
    /\ NotAfter(dateSet, Local_Date) /\ NotAfter(Local_Date, clock.date)

LEMMA DateOrder ==
  /\ \A date \in Date : NotAfter(date, date)
  /\ \A date1, date2, date3 \in Date :
       NotAfter(date1, date2) /\ NotAfter(date2, date3) => NotAfter(date1, date3)
  /\ \A m \in Moment : NotAfter(m.date, Later(m).date)
<1>1. \A date \in Date : date.year \in Int /\ date.day \in Int
  BY ClockAssumption DEF Date
<1>2. ASSUME NEW m \in Moment PROVE NotAfter(m.date, Later(m).date)
  BY <1>1 DEF Later, NotAfter, Moment, Date
<1>. QED  BY <1>1, <1>2 DEF NotAfter

LEMMA YearsFit ==
  /\ LastKept \in Nat /\ LastKept > 2155
  /\ \A y \in 0 .. LastKept : y % YearSpan = y
<1>1. YearSpan \in Nat /\ YearSpan > 2156
  BY SMT DEF YearSpan
<1>2. \A y \in Int : 0 <= y /\ y < YearSpan => y % YearSpan = y
  BY SMT DEF YearSpan
<1>. QED  BY <1>1, <1>2, SMT DEF LastKept

LEMMA KeptDates ==
  /\ \A date \in SetDates : Kept(date)
  /\ \A date \in Date : Kept(date) => LocalTime(date) = date /\ MkTime(date) = date
<1>1. ASSUME NEW date \in SetDates PROVE Kept(date)
  BY SetDateTyped, YearsFit DEF Kept
<1>2. ASSUME NEW date \in Date, Kept(date) PROVE LocalTime(date) = date /\ MkTime(date) = date
  <2>1. date = [year |-> date.year, day |-> date.day] /\ date.day # 0
    BY <1>2, ClockAssumption DEF Date, Kept
  <2>2. date.year % YearSpan = date.year
    BY <1>2, YearsFit DEF Kept
  <2>3. LocalTime(date) = [year |-> date.year % YearSpan, day |-> date.day]
    BY <2>1 DEF LocalTime
  <2>. QED  BY <2>1, <2>2, <2>3 DEF MkTime
<1>. QED  BY <1>1, <1>2

LEMMA LaterKept ==
  ASSUME NEW m \in Moment, Kept(m.date), Later(m).date.year <= LastKept
  PROVE  Kept(Later(m).date)
<1>1. m.date.year \in 0 .. LastKept /\ m.date.day \in 1 .. DaysPerYear
      /\ DaysPerYear \in Nat \ {0} /\ LastKept \in Nat
  BY ClockAssumption, YearsFit DEF Kept
<1>. QED  BY <1>1 DEF Later, Kept, Moment, Date

LEMMA InitDate == Init => DateFollows
BY DEF Init, DateFollows

LEMMA NextDate ==
  ASSUME PassYears \subseteq 0 .. LastKept, Inv, DateFollows, [Next]_vars
  PROVE  DateFollows'
<1> SUFFICES ASSUME dateSet' # NoDate
             PROVE  /\ Kept(Local_Date') /\ Kept(clock'.date)
                    /\ NotAfter(dateSet', Local_Date') /\ NotAfter(Local_Date', clock'.date)
  BY DEF DateFollows, Kept, NotAfter
<1>0. /\ clock \in Moment /\ clock.date \in Date /\ Local_Date \in Date
      /\ dateSet \in SetDates \cup {NoDate}
      /\ \A date \in SetDates : date \in Date
  BY LocalDatesTyped, SetDateTyped DEF Inv, TypeOK, Moment
<1> DEFINE Before ==
      /\ dateSet \in Date
      /\ Kept(Local_Date) /\ Kept(clock.date)
      /\ NotAfter(dateSet, Local_Date) /\ NotAfter(Local_Date, clock.date)
<1>F. dateSet # NoDate => Before
  BY <1>0 DEF DateFollows
<1>1. CASE Pass
  <2>1. Before /\ clock' = Later(clock) /\ UNCHANGED <<Local_Date, dateSet>>
    BY <1>1, <1>F DEF Pass
  <2>2. Later(clock) \in Moment /\ Later(clock).date \in Date
    BY <1>0, MomentsTyped DEF Moment
  <2>3. Later(clock).date.year <= LastKept
    <3>1. Later(clock).date.year \in PassYears \cup {clock.date.year}
      BY <1>1 DEF Pass
    <3>2. Later(clock).date.year \in 0 .. LastKept
      BY <3>1, <2>1 DEF Kept
    <3>. QED  BY <3>2, YearsFit
  <2>4. Kept(clock'.date)
    BY <1>0, <2>1, <2>3, LaterKept
  <2>5. NotAfter(clock.date, Later(clock).date)
    BY <1>0, DateOrder
  <2>6. NotAfter(Local_Date, Later(clock).date)
    BY <1>0, <2>1, <2>2, <2>5, DateOrder
  <2>. QED  BY <2>1, <2>4, <2>6
<1>2. CASE Read
  <2>1. Before /\ Local_Date' = LocalTime(clock.date) /\ UNCHANGED <<clock, dateSet>>
    BY <1>2, <1>F DEF Read
  <2>2. Local_Date' = clock.date
    BY <1>0, <2>1, KeptDates
  <2>. QED  BY <1>0, <2>1, <2>2, DateOrder
<1>3. CASE \E date \in SetDates : WriteLocalDate(date)
  <2>1. PICK date \in SetDates : WriteLocalDate(date)
    BY <1>3
  <2>2. Local_Date' = date /\ clock'.date = date /\ dateSet' = date
    BY <2>1 DEF WriteLocalDate
  <2>3. Kept(date) /\ NotAfter(date, date)
    BY <1>0, KeptDates, DateOrder
  <2>. QED  BY <2>2, <2>3
<1>4. CASE \E time \in Times : WriteLocalTime(time)
  <2>1. Before /\ clock'.date = MkTime(Local_Date) /\ UNCHANGED <<Local_Date, dateSet>>
    BY <1>4, <1>F DEF WriteLocalTime
  <2>2. clock'.date = Local_Date
    BY <1>0, <2>1, KeptDates
  <2>. QED  BY <1>0, <2>1, <2>2, DateOrder
<1>5. CASE UNCHANGED vars
  BY <1>5, <1>F DEF vars
<1>6. ASSUME NEW date \in SetDates, NEW time \in Times PROVE ~ TimeSynchronization(date, time)
  BY DEF TimeSynchronization
<1>7. ASSUME NEW readable PROVE ~ Restart(readable)
  BY DEF Restart
<1>. QED  BY <1>1, <1>2, <1>3, <1>4, <1>5, <1>6, <1>7 DEF Next

\* As long as a year fits the 16 bits of BACNET_DATE, a tool that sets the date and then
\* the time gets both, whatever is read in between and however many days pass.
THEOREM DateSurvives == PassYears \subseteq 0 .. LastKept /\ Spec => DateThenTime
<1> DEFINE Both ==
      \A time \in Times :
        WriteLocalTime(time) /\ dateSet # NoDate =>
          NotAfter(dateSet, clock'.date) /\ NotAfter(clock'.date, clock.date)
<1>1. Inv /\ DateFollows => Both
  <2> SUFFICES ASSUME Inv, DateFollows, NEW time \in Times, WriteLocalTime(time), dateSet # NoDate
               PROVE  NotAfter(dateSet, clock'.date) /\ NotAfter(clock'.date, clock.date)
    OBVIOUS
  <2>1. Local_Date \in Date
    BY LocalDatesTyped DEF Inv, TypeOK
  <2>2. clock'.date = Local_Date
    BY <2>1, KeptDates DEF WriteLocalTime, DateFollows
  <2>. QED  BY <2>2 DEF DateFollows
<1>2. DateThenTime <=> [][Both]_vars
  BY DEF DateThenTime
<1> HIDE DEF Both
<1>3. CASE PassYears \subseteq 0 .. LastKept
  <2>1. Inv /\ DateFollows /\ [Next]_vars => DateFollows'
    BY <1>3, NextDate
  <2>. QED  BY <1>1, <1>2, <2>1, InitDate, Invariance, PTL DEF Spec
<1>4. CASE ~ (PassYears \subseteq 0 .. LastKept)
  BY <1>4
<1>. QED  BY <1>3, <1>4

-----------------------------------------------------------------------------
(***************************************************************************)
(* The key list, whatever keys are added and taken away.  The binary search *)
(* is followed halving by halving: what is ruled out on the left is smaller *)
(* than the key, on the right greater, which needs that the list is sorted; *)
(* and that it is sorted after an insertion needs that the search came to   *)
(* the place the key belongs to.  So both are shown together.               *)
(***************************************************************************)
\* A node of the list: its key and what it holds.
Node == Int \X Nat

\* The keys ascend; the same key may be there several times.
Ordered(list) ==
  \A m, n \in 1 .. Len(list) : m < n => list[m][1] <= list[n][1]

\* The search is narrowed down to the places from left to right, counted from 0.
Between(list, key, left, right) ==
  /\ \A n \in 1 .. Len(list) : n <= left => list[n][1] < key
  /\ \A n \in 1 .. Len(list) : n > right + 1 => list[n][1] > key

\* A search under way after n halvings: enough of the list is ruled out.
Searching(list, key, at, n) ==
  /\ at[1] \in Nat /\ at[2] \in Nat /\ at[1] <= at[2] /\ at[2] < Len(list)
  /\ at[2] - at[1] + 1 <= Len(list) - n
  /\ Between(list, key, at[1], at[2])
  /\ at[4] = FALSE

\* Where a search may end: at the key, or where the key is missing next to it.
Ended(list, key, index) ==
  LET here == list[index + 1][1]
  IN  /\ index \in 0 .. Len(list) - 1
      /\ \/ key = here
         \/ key > here /\ Between(list, key, index + 1, index)
         \/ key < here /\ Between(list, key, index, index - 1)

\* What n halvings have come to.
Searched(list, key, at, n) ==
  Searching(list, key, at, n) \/ (Ended(list, key, at[3]) /\ at[4] = TRUE)

\* The middle lies between the ends.
LEMMA MiddleIsBetween ==
  ASSUME NEW a \in Nat, NEW b \in Nat, a <= b
  PROVE  (a + b) \div 2 \in Nat /\ a <= (a + b) \div 2 /\ (a + b) \div 2 <= b
OBVIOUS

\* A halving goes on with less of the list, or ends.
LEMMA OneRound ==
  ASSUME NEW list \in Seq(Node), Ordered(list), NEW key \in Int, NEW n \in Nat,
         NEW at, Searching(list, key, at, n)
  PROVE  Searched(list, key, Halved(list, key, at), n + 1)
<1>. DEFINE index == (at[1] + at[2]) \div 2
            here == list[index + 1][1]
            left == IF key < here THEN at[1] ELSE index + 1
            right == IF key < here THEN index - 1 ELSE at[2]
            next == <<left, right, index, key = here \/ left > right>>
<1>1. at[1] \in Nat /\ at[2] \in Nat /\ at[1] <= at[2] /\ at[2] < Len(list) /\ Len(list) \in Nat
  BY DEF Searching
<1>2. index \in Nat /\ at[1] <= index /\ index <= at[2]
  BY <1>1, MiddleIsBetween
<1>3. Halved(list, key, at) = next
  BY DEF Halved, Searching
<1>. HIDE DEF index
<1>4. index + 1 \in 1 .. Len(list) /\ \A m \in 1 .. Len(list) : list[m][1] \in Int
  BY <1>1, <1>2 DEF Node
<1>5. here \in Int
  BY <1>4
<1>6. \A m \in 1 .. Len(list) : /\ m < index + 1 => list[m][1] <= here
                                /\ m > index + 1 => list[m][1] >= here
  BY <1>4 DEF Ordered
<1>7. CASE key = here
  <2>1. Ended(list, key, index)
    BY <1>1, <1>2, <1>7 DEF Ended
  <2>2. next[3] = index /\ next[4] = TRUE
    BY <1>7
  <2>. HIDE DEF next
  <2>. QED  BY <1>3, <2>1, <2>2 DEF Searched
<1>. HIDE DEF here
<1>8. CASE key < here
  <2>1. left = at[1] /\ right = index - 1 /\ key # here
    BY <1>5, <1>8
  <2>. HIDE DEF left, right
  <2>2. Between(list, key, left, right)
    <3>1. \A m \in 1 .. Len(list) : m <= left => list[m][1] < key
      BY <2>1 DEF Searching, Between
    <3>2. \A m \in 1 .. Len(list) : m > right + 1 => m >= index + 1
      BY <1>2, <2>1
    <3>3. \A m \in 1 .. Len(list) : m >= index + 1 => list[m][1] >= here
      BY <1>2, <1>6, <1>4, <1>5 DEF here
    <3>4. \A m \in 1 .. Len(list) : m > right + 1 => list[m][1] > key
      BY <1>4, <1>5, <1>8, <3>2, <3>3
    <3>. QED  BY <3>1, <3>4 DEF Between
  <2>3. CASE left > right
    <3>1. Between(list, key, index, index - 1)
      <4>1. left = index
        BY <1>1, <1>2, <2>1, <2>3
      <4>. QED  BY <2>1, <2>2, <4>1
    <3>2. Ended(list, key, index)
      BY <1>1, <1>2, <1>8, <3>1 DEF Ended, here
    <3>3. next[3] = index /\ next[4] = TRUE
      BY <2>3
    <3>. HIDE DEF next
    <3>. QED  BY <1>3, <3>2, <3>3 DEF Searched
  <2>4. CASE ~(left > right)
    <3>1. next[1] = left /\ next[2] = right /\ next[4] = FALSE
      BY <2>1, <2>4
    <3>2. right \in Nat /\ left <= right /\ right < Len(list)
          /\ right - left + 1 <= Len(list) - (n + 1)
      BY SMTT(40), <1>1, <1>2, <2>1, <2>4 DEF Searching
    <3>. HIDE DEF next
    <3>. QED  BY <1>1, <1>3, <2>1, <2>2, <3>1, <3>2 DEF Searched, Searching
  <2>. QED  BY <2>3, <2>4
<1>9. CASE key > here
  <2>1. left = index + 1 /\ right = at[2] /\ key # here
    BY <1>5, <1>9
  <2>. HIDE DEF left, right
  <2>2. Between(list, key, left, right)
    <3>1. \A m \in 1 .. Len(list) : m > right + 1 => list[m][1] > key
      BY <2>1 DEF Searching, Between
    <3>2. \A m \in 1 .. Len(list) : m <= left => m <= index + 1
      BY <1>2, <2>1
    <3>3. \A m \in 1 .. Len(list) : m <= index + 1 => list[m][1] <= here
      BY <1>2, <1>6, <1>4, <1>5 DEF here
    <3>4. \A m \in 1 .. Len(list) : m <= left => list[m][1] < key
      BY <1>4, <1>5, <1>9, <3>2, <3>3
    <3>. QED  BY <3>1, <3>4 DEF Between
  <2>3. CASE left > right
    <3>1. Between(list, key, index + 1, index)
      <4>1. right = index
        BY <1>1, <1>2, <2>1, <2>3
      <4>. QED  BY <2>1, <2>2, <4>1
    <3>2. Ended(list, key, index)
      BY <1>1, <1>2, <1>9, <3>1 DEF Ended, here
    <3>3. next[3] = index /\ next[4] = TRUE
      BY <2>3
    <3>. HIDE DEF next
    <3>. QED  BY <1>3, <3>2, <3>3 DEF Searched
  <2>4. CASE ~(left > right)
    <3>1. next[1] = left /\ next[2] = right /\ next[4] = FALSE
      BY <2>1, <2>4
    <3>2. left \in Nat /\ left <= right
          /\ right - left + 1 <= Len(list) - (n + 1)
      BY SMTT(40), <1>1, <1>2, <2>1, <2>4 DEF Searching
    <3>. HIDE DEF next
    <3>. QED  BY <1>1, <1>3, <2>1, <2>2, <3>1, <3>2 DEF Searched, Searching
  <2>. QED  BY <2>3, <2>4
<1>. QED  BY <1>5, <1>7, <1>8, <1>9

\* The rounds follow each other as the loop has it.
LEMMA SearchTurns ==
  ASSUME NEW list, Len(list) \in Nat, NEW key
  PROVE  \E after : /\ after[0] = <<0, Len(list) - 1, 0, FALSE>>
                    /\ \A n \in 1 .. Len(list) : after[n] = Halved(list, key, after[n - 1])
                    /\ Search(list, key) = after[Len(list)]
<1>. DEFINE L == Len(list)
            first == <<0, Len(list) - 1, 0, FALSE>>
            IsUpTo(g, n) == g = [m \in 0 .. n |-> IF m = 0 THEN first ELSE Halved(list, key, g[m - 1])]
            T == {n \in 0 .. L : \E g : IsUpTo(g, n)}
<1>1. 0 \in T
  <2>1. IsUpTo([m \in 0 .. 0 |-> first], 0)
    OBVIOUS
  <2>. HIDE DEF IsUpTo
  <2>. QED  BY <2>1
<1>2. ASSUME NEW n \in T, n < L
      PROVE  n + 1 \in T
  <2>1. PICK g : IsUpTo(g, n)
    BY <1>2
  <2>. HIDE DEF first
  <2>2. PICK h : h = [m \in 0 .. n + 1 |->
                        IF m # n + 1 THEN g[m] ELSE Halved(list, key, g[n])]
    OBVIOUS
  <2>3. \A m \in 0 .. n + 1 : h[m] = IF m = 0 THEN first ELSE Halved(list, key, h[m - 1])
    BY <2>1, <2>2
  <2>4. h = [m \in 0 .. n + 1 |-> h[m]]
    BY <2>2
  <2>5. IsUpTo(h, n + 1)
    BY <2>3, <2>4
  <2>. HIDE DEF IsUpTo
  <2>. QED  BY <1>2, <2>5
<1>3. T = 0 .. L
  <2>1. T \in SUBSET (0 .. L)
    OBVIOUS
  <2>. HIDE DEF T
  <2>. QED  BY <1>1, <1>2, <2>1, StepByStep
<1>4. \E g : IsUpTo(g, L)
  <2>1. L \in T
    <3>. HIDE DEF T
    <3>. QED  BY <1>3
  <2>. HIDE DEF IsUpTo
  <2>. QED  BY <2>1
<1>5. PICK after : after = CHOOSE g : IsUpTo(g, L)
  OBVIOUS
<1>6. Search(list, key) = after[L]
  BY <1>5, Zenon DEF Search
<1>7. IsUpTo(after, L)
  <2>. HIDE DEF IsUpTo
  <2>. QED  BY <1>4, <1>5
<1>. HIDE DEF first
<1>8. after[0] = first /\ \A n \in 1 .. L : after[n] = Halved(list, key, after[n - 1])
  BY <1>7
<1>. QED  BY <1>6, <1>8 DEF first

\* As many halvings as the list is long are enough for every search.
LEMMA SearchEnds ==
  ASSUME NEW list \in Seq(Node), list # << >>, Ordered(list), NEW key \in Int
  PROVE  Ended(list, key, Search(list, key)[3])
<1>1. Len(list) \in Nat /\ Len(list) > 0
  OBVIOUS
<1>2. PICK after : /\ after[0] = <<0, Len(list) - 1, 0, FALSE>>
                   /\ \A n \in 1 .. Len(list) : after[n] = Halved(list, key, after[n - 1])
                   /\ Search(list, key) = after[Len(list)]
  BY <1>1, SearchTurns
<1>. DEFINE T == {n \in 0 .. Len(list) : Searched(list, key, after[n], n)}
<1>3. 0 \in T
  <2>1. PICK at : at = after[0]
    OBVIOUS
  <2>2. at[1] = 0 /\ at[2] = Len(list) - 1 /\ at[4] = FALSE
    BY <1>2, <2>1
  <2>3. Between(list, key, 0, Len(list) - 1)
    BY <1>1 DEF Between
  <2>4. Searching(list, key, at, 0)
    BY <1>1, <2>2, <2>3 DEF Searching
  <2>. QED  BY <1>1, <2>1, <2>4 DEF Searched
<1>4. ASSUME NEW n \in T, n < Len(list) PROVE n + 1 \in T
  <2>1. after[n + 1] = Halved(list, key, after[n]) /\ n \in Nat
    BY <1>1, <1>2, <1>4
  <2>2. PICK at, next : at = after[n] /\ next = after[n + 1]
    OBVIOUS
  <2>3. Searched(list, key, next, n + 1)
    <3>1. CASE Searching(list, key, at, n)
      BY <2>1, <2>2, <3>1, OneRound
    <3>2. CASE Ended(list, key, at[3]) /\ at[4] = TRUE
      <4>1. next = at
        BY <2>1, <2>2, <3>2 DEF Halved
      <4>. QED  BY <3>2, <4>1 DEF Searched
    <3>. QED  BY <1>4, <2>2, <3>1, <3>2 DEF Searched
  <2>. QED  BY <1>1, <1>4, <2>2, <2>3
<1>5. Len(list) \in T
  <2>1. T \in SUBSET (0 .. Len(list))
    OBVIOUS
  <2>. HIDE DEF T
  <2>2. T = 0 .. Len(list)
    BY <1>1, <1>3, <1>4, <2>1, StepByStep
  <2>. QED  BY <1>1, <2>2
<1>6. PICK at : at = after[Len(list)]
  OBVIOUS
<1>7. ~Searching(list, key, at, Len(list))
  BY <1>1 DEF Searching
<1>. QED  BY <1>2, <1>5, <1>6, <1>7 DEF Searched

\* Where the search finds a key, and where one it does not find belongs.
Belongs(list, key, index) ==
  /\ index \in 0 .. Len(list)
  /\ \A n \in 1 .. Len(list) : n <= index => list[n][1] <= key
  /\ \A n \in 1 .. Len(list) : n > index => list[n][1] >= key

\* The key is in the list.
HasKey(list, key) == \E n \in 1 .. Len(list) : list[n][1] = key

\* The search finds a key that is there, and otherwise the place it belongs to.
LEMMA FindIndexProperty ==
  ASSUME NEW list \in Seq(Node), Ordered(list), NEW key \in Int
  PROVE  /\ Belongs(list, key, FindIndex(list, key).index)
         /\ FindIndex(list, key).found <=> HasKey(list, key)
         /\ FindIndex(list, key).found =>
              /\ FindIndex(list, key).index < Len(list)
              /\ list[FindIndex(list, key).index + 1][1] = key
<1>1. CASE list = << >>
  <2>1. FindIndex(list, key) = [found |-> FALSE, index |-> 0]
    BY <1>1 DEF FindIndex
  <2>. QED  BY <1>1, <2>1 DEF Belongs, HasKey
<1>2. CASE list # << >>
  <2>1. PICK i, here : i = Search(list, key)[3] /\ here = list[i + 1][1]
    OBVIOUS
  <2>2. FindIndex(list, key) = [found |-> key = here,
                                index |-> IF key > here THEN i + 1 ELSE i]
    BY <1>2, <2>1, Zenon DEF FindIndex
  <2>3. /\ i \in 0 .. Len(list) - 1
        /\ \/ key = here
           \/ key > here /\ Between(list, key, i + 1, i)
           \/ key < here /\ Between(list, key, i, i - 1)
    BY <1>2, <2>1, SearchEnds DEF Ended
  <2>4. /\ Len(list) \in Nat /\ i + 1 \in 1 .. Len(list)
        /\ \A n \in 1 .. Len(list) : list[n][1] \in Int
    BY <2>3 DEF Node
  <2>5. here \in Int
    BY <2>1, <2>4
  <2>6. \A n \in 1 .. Len(list) : /\ n < i + 1 => list[n][1] <= here
                                  /\ n > i + 1 => list[n][1] >= here
    BY <2>1, <2>4 DEF Ordered
  <2>7. PICK index : index = IF key > here THEN i + 1 ELSE i
    OBVIOUS
  <2>8. PICK r : r = FindIndex(list, key)
    OBVIOUS
  <2>9. r.found <=> (key = here)
    <3>1. PICK same : same = (key = here)
      OBVIOUS
    <3>2. FindIndex(list, key) = [found |-> same, index |-> IF key > here THEN i + 1 ELSE i]
      BY <2>2, <3>1, Zenon
    <3>3. r.found = same
      BY <2>8, <3>2, SMT
    <3>. QED  BY <3>1, <3>3, Zenon
  <2>10. r.index = index
    BY <2>2, <2>7, <2>8, SMT
  <2>11. i \in Nat
    BY <2>3
  <2>12. CASE key = here
    <3>1. index = i
      BY <2>5, <2>7, <2>12
    <3>2. \A n \in 1 .. Len(list) : n > i => n = i + 1 \/ n > i + 1
      BY <2>4, <2>11
    <3>3. \A n \in 1 .. Len(list) : n <= i => n < i + 1
      BY <2>4, <2>11
    <3>4. list[i + 1][1] = key
      BY <2>1, <2>12
    <3>5. \A n \in 1 .. Len(list) : n > i => list[n][1] >= key
      BY <2>4, <2>5, <2>6, <2>12, <3>2, <3>4
    <3>6. \A n \in 1 .. Len(list) : n <= i => list[n][1] <= key
      BY <2>6, <2>12, <3>3
    <3>7. Belongs(list, key, i)
      BY <2>3, <2>4, <3>5, <3>6 DEF Belongs
    <3>8. HasKey(list, key) /\ i < Len(list) /\ list[i + 1][1] = key
      BY <2>1, <2>4, <2>12, <2>11 DEF HasKey
    <3>. QED  BY <2>8, <2>12, <2>9, <2>10, <3>1, <3>7, <3>8, Zenon
  <2>13. CASE key > here /\ Between(list, key, i + 1, i)
    <3>1. key # here /\ index = i + 1
      BY <2>5, <2>7, <2>13
    <3>2. \A n \in 1 .. Len(list) : /\ n <= i + 1 => list[n][1] < key
                                    /\ n > i + 1 => list[n][1] > key
      BY <2>13 DEF Between
    <3>3. Belongs(list, key, i + 1)
      <4>1. i + 1 \in 0 .. Len(list)
        BY <2>3, <2>4
      <4>2. \A n \in 1 .. Len(list) : n <= i + 1 => list[n][1] <= key
        BY <2>4, <3>2
      <4>3. \A n \in 1 .. Len(list) : n > i + 1 => list[n][1] >= key
        BY <2>4, <3>2
      <4>. QED  BY <4>1, <4>2, <4>3 DEF Belongs
    <3>4. ~HasKey(list, key)
      BY <2>3, <2>4, <3>2 DEF HasKey
    <3>. QED  BY <2>8, <2>9, <2>10, <3>1, <3>3, <3>4, Zenon
  <2>14. CASE key < here /\ Between(list, key, i, i - 1)
    <3>1. key # here /\ index = i
      BY <2>5, <2>7, <2>14
    <3>2. \A n \in 1 .. Len(list) : /\ n <= i => list[n][1] < key
                                    /\ n > i => list[n][1] > key
      <4>1. \A n \in 1 .. Len(list) : n <= i => list[n][1] < key
        BY <2>14 DEF Between
      <4>2. \A n \in 1 .. Len(list) : n > (i - 1) + 1 => list[n][1] > key
        BY <2>14 DEF Between
      <4>3. (i - 1) + 1 = i
        BY <2>3
      <4>. QED  BY <4>1, <4>2, <4>3
    <3>3. Belongs(list, key, i)
      <4>1. i \in 0 .. Len(list)
        BY <2>3, <2>4
      <4>2. \A n \in 1 .. Len(list) : n <= i => list[n][1] <= key
        BY <2>4, <3>2
      <4>3. \A n \in 1 .. Len(list) : n > i => list[n][1] >= key
        BY <2>4, <3>2
      <4>. QED  BY <4>1, <4>2, <4>3 DEF Belongs
    <3>4. ~HasKey(list, key)
      BY <2>3, <2>4, <3>2 DEF HasKey
    <3>. QED  BY <2>8, <2>9, <2>10, <3>1, <3>3, <3>4, Zenon
  <2>. QED  BY <2>3, <2>12, <2>13, <2>14
<1>. QED  BY <1>1, <1>2

\* The list is sorted,
ListInOrder == nodes \in Seq(Node) /\ Ordered(nodes)
\* and there is room for all of it: what KeysAreFound needs of every state.
RoomForAll  == size \in Nat /\ Len(nodes) <= size
\* The inductive invariant of the key list.
KeyInv == ListInOrder /\ RoomForAll

\* An element put in at place i,
IsInserted(longer, list, i, e) ==
  /\ longer \in Seq(Node)
  /\ Len(longer) = Len(list) + 1
  /\ \A n \in 1 .. Len(list) + 1 :
       longer[n] = IF n < i THEN list[n] ELSE IF n = i THEN e ELSE list[n - 1]

\* as InsertAt puts it;
LEMMA InsertPlaces ==
  ASSUME NEW list \in Seq(Node), NEW i \in 1 .. Len(list) + 1, NEW e \in Node
  PROVE  IsInserted(InsertAt(list, i, e), list, i, e)
<1>. DEFINE before == SubSeq(list, 1, i - 1)
            after == SubSeq(list, i, Len(list))
<1>1. /\ before \in Seq(Node) /\ Len(before) = i - 1
      /\ \A n \in 1 .. i - 1 : before[n] = list[n]
  OBVIOUS
<1>2. /\ after \in Seq(Node) /\ Len(after) = Len(list) - i + 1
      /\ \A n \in 1 .. Len(list) - i + 1 : after[n] = list[i + n - 1]
  OBVIOUS
<1>3. InsertAt(list, i, e) = before \o <<e>> \o after
  BY DEF InsertAt
<1>. HIDE DEF before, after
<1>4. PICK longer : longer = before \o <<e>> \o after
  OBVIOUS
<1>5. IsInserted(longer, list, i, e)
  BY <1>1, <1>2, <1>4 DEF IsInserted
<1>. QED  BY <1>3, <1>4, <1>5

\* and where the elements are after one is taken out.
LEMMA RemovePlaces ==
  ASSUME NEW list \in Seq(Node), NEW i \in 1 .. Len(list)
  PROVE  /\ RemoveAt(list, i) \in Seq(Node)
         /\ Len(RemoveAt(list, i)) = Len(list) - 1
         /\ \A n \in 1 .. Len(list) - 1 :
              RemoveAt(list, i)[n] = IF n < i THEN list[n] ELSE list[n + 1]
<1>. DEFINE before == SubSeq(list, 1, i - 1)
            after == SubSeq(list, i + 1, Len(list))
<1>1. /\ before \in Seq(Node) /\ Len(before) = i - 1
      /\ \A n \in 1 .. i - 1 : before[n] = list[n]
  OBVIOUS
<1>2. /\ after \in Seq(Node) /\ Len(after) = Len(list) - i
      /\ \A n \in 1 .. Len(list) - i : after[n] = list[i + n]
  OBVIOUS
<1>. HIDE DEF before, after
<1>3. PICK shorter : shorter = before \o after
  OBVIOUS
<1>4. shorter \in Seq(Node) /\ Len(shorter) = Len(list) - 1
  BY <1>1, <1>2, <1>3
<1>5. \A n \in 1 .. Len(list) - 1 : n < i => shorter[n] = list[n]
  BY <1>1, <1>2, <1>3
<1>6. \A n \in 1 .. Len(list) - 1 : n >= i => shorter[n] = list[n + 1]
  <2>1. \A n \in 1 .. Len(list) - 1 : n >= i =>
          /\ n - (i - 1) \in 1 .. Len(list) - i /\ i + (n - (i - 1)) = n + 1
    OBVIOUS
  <2>2. \A n \in 1 .. Len(list) - 1 : n >= i => shorter[n] = after[n - (i - 1)]
    BY <1>1, <1>2, <1>3
  <2>. QED  BY <1>2, <2>1, <2>2
<1>7. RemoveAt(list, i) = shorter
  BY <1>3 DEF RemoveAt, before, after
<1>. QED  BY SMTT(40), <1>4, <1>5, <1>6, <1>7

\* A node put in where its key belongs leaves the list sorted.
LEMMA InsertedInOrder ==
  ASSUME NEW list \in Seq(Node), Ordered(list), NEW key \in Int, NEW data \in Nat,
         NEW index, Belongs(list, key, index)
  PROVE  /\ InsertAt(list, index + 1, <<key, data>>) \in Seq(Node)
         /\ Ordered(InsertAt(list, index + 1, <<key, data>>))
         /\ Len(InsertAt(list, index + 1, <<key, data>>)) = Len(list) + 1
<1>1. Len(list) \in Nat /\ index \in 0 .. Len(list) /\ index + 1 \in 1 .. Len(list) + 1
  BY DEF Belongs
<1>2. PICK e : e = <<key, data>>
  OBVIOUS
<1>3. e \in Node /\ e[1] = key
  BY <1>2 DEF Node
<1>4. PICK longer : longer = InsertAt(list, index + 1, e)
  OBVIOUS
<1>5. /\ longer \in Seq(Node) /\ Len(longer) = Len(list) + 1
      /\ \A n \in 1 .. Len(list) + 1 :
           longer[n] = IF n < index + 1 THEN list[n] ELSE IF n = index + 1 THEN e ELSE list[n - 1]
  <2>1. PICK i : i = index + 1
    OBVIOUS
  <2>2. i \in 1 .. Len(list) + 1 /\ longer = InsertAt(list, i, e)
    BY <1>1, <1>4, <2>1
  <2>3. IsInserted(longer, list, i, e)
    BY <1>3, <2>2, InsertPlaces
  <2>. QED  BY <2>1, <2>3, Zenon DEF IsInserted
<1>6. \A n \in 1 .. Len(list) : list[n][1] \in Int
  BY DEF Node
<1>7. ASSUME NEW m \in 1 .. Len(list) + 1, NEW n \in 1 .. Len(list) + 1, m < n
      PROVE  longer[m][1] <= longer[n][1]
  <2>1. CASE n < index + 1
    <3>1. longer[m] = list[m] /\ longer[n] = list[n]
      BY <1>1, <1>5, <1>7, <2>1
    <3>2. m \in 1 .. Len(list) /\ n \in 1 .. Len(list)
      BY <1>1, <1>7, <2>1
    <3>. QED  BY <1>7, <3>1, <3>2 DEF Ordered
  <2>2. CASE m > index + 1
    <3>1. longer[m] = list[m - 1] /\ longer[n] = list[n - 1]
      BY <1>1, <1>5, <1>7, <2>2
    <3>2. m - 1 \in 1 .. Len(list) /\ n - 1 \in 1 .. Len(list) /\ m - 1 < n - 1
      BY <1>1, <1>7, <2>2
    <3>. QED  BY <3>1, <3>2 DEF Ordered
  <2>3. CASE m < index + 1 /\ n >= index + 1
    <3>1. m \in 1 .. Len(list) /\ longer[m] = list[m] /\ list[m][1] <= key
      BY <1>1, <1>5, <2>3 DEF Belongs
    <3>2. longer[n][1] >= key /\ longer[n][1] \in Int
      <4>1. CASE n = index + 1
        BY <1>1, <1>3, <1>5, <4>1
      <4>2. CASE n > index + 1
        <5>1. longer[n] = list[n - 1] /\ n - 1 \in 1 .. Len(list) /\ n - 1 > index
          BY <1>1, <1>5, <4>2
        <5>. QED  BY <1>6, <5>1 DEF Belongs
      <4>. QED  BY <1>1, <2>3, <4>1, <4>2
    <3>. QED  BY <1>6, <3>1, <3>2
  <2>4. CASE m = index + 1 /\ n > index + 1
    <3>1. longer[n] = list[n - 1] /\ n - 1 \in 1 .. Len(list) /\ n - 1 > index
      BY <1>1, <1>5, <2>4
    <3>2. longer[m][1] = key
      BY <1>3, <1>5, <2>4
    <3>. QED  BY <1>6, <3>1, <3>2 DEF Belongs
  <2>. QED  BY <1>1, <1>7, <2>1, <2>2, <2>3, <2>4
<1>. QED  BY <1>2, <1>4, <1>5, <1>7 DEF Ordered

\* A node taken out leaves the list sorted.
LEMMA RemovedInOrder ==
  ASSUME NEW list \in Seq(Node), Ordered(list), NEW i \in 1 .. Len(list)
  PROVE  /\ RemoveAt(list, i) \in Seq(Node)
         /\ Ordered(RemoveAt(list, i))
         /\ Len(RemoveAt(list, i)) = Len(list) - 1
<1>1. PICK shorter : shorter = RemoveAt(list, i)
  OBVIOUS
<1>2. /\ shorter \in Seq(Node) /\ Len(shorter) = Len(list) - 1
      /\ \A n \in 1 .. Len(list) - 1 : shorter[n] = IF n < i THEN list[n] ELSE list[n + 1]
  BY <1>1, RemovePlaces
<1>3. ASSUME NEW m \in 1 .. Len(list) - 1, NEW n \in 1 .. Len(list) - 1, m < n
      PROVE  shorter[m][1] <= shorter[n][1]
  <2>1. PICK p, q \in 1 .. Len(list) : p = (IF m < i THEN m ELSE m + 1) /\ q = (IF n < i THEN n ELSE n + 1)
    OBVIOUS
  <2>2. p < q /\ shorter[m] = list[p] /\ shorter[n] = list[q]
    BY <1>2, <1>3, <2>1
  <2>. QED  BY <2>2 DEF Ordered
<1>. QED  BY <1>1, <1>2, <1>3 DEF Ordered

\* There is room for one more, and for what is left of one less.
LEMMA ArrayHasRoom ==
  ASSUME NEW count \in Nat, NEW room \in Nat, count <= room
  PROVE  /\ CheckArraySize(count, room) \in Nat
         /\ count + 1 <= CheckArraySize(count, room)
BY KeyListAssumption DEF CheckArraySize

\* Deleting keeps the invariant, whichever node goes.
LEMMA DeleteKeeps ==
  ASSUME KeyInv, NEW index \in Int, Keylist_Data_Delete_By_Index(index)
  PROVE  KeyInv'
<1>1. index + 1 \in 1 .. Len(nodes)
  BY DEF Keylist_Data_Delete_By_Index, KeyInv, ListInOrder
<1>2. ListInOrder' /\ Len(nodes') = Len(nodes) - 1
  BY <1>1, RemovedInOrder DEF Keylist_Data_Delete_By_Index, KeyInv, ListInOrder
<1>3. RoomForAll'
  <2>1. Len(nodes) - 1 \in Nat /\ Len(nodes) - 1 <= size /\ size \in Nat
    BY <1>1 DEF KeyInv, RoomForAll, ListInOrder
  <2>2. size' = CheckArraySize(Len(nodes) - 1, size)
    BY DEF Keylist_Data_Delete_By_Index
  <2>3. PICK left : left = Len(nodes) - 1
    OBVIOUS
  <2>4. left \in Nat /\ left <= size /\ size' = CheckArraySize(left, size) /\ Len(nodes') = left
    BY <1>2, <2>1, <2>2, <2>3
  <2>5. size' \in Nat /\ left + 1 <= size'
    BY <2>1, <2>4, ArrayHasRoom
  <2>. QED  BY <2>4, <2>5 DEF RoomForAll
<1>. QED  BY <1>2, <1>3 DEF KeyInv

\* Every operation keeps the invariant.
LEMMA KeyInvInductive == KeyInv /\ [KeyNext]_keyVars => KeyInv'
<1>. SUFFICES ASSUME KeyInv, [KeyNext]_keyVars PROVE KeyInv'
  OBVIOUS
<1>1. nodes \in Seq(Node) /\ Ordered(nodes) /\ Len(nodes) \in Nat /\ size \in Nat /\ Len(nodes) <= size
  BY DEF KeyInv, ListInOrder, RoomForAll
<1>2. ASSUME NEW key \in Keys, Keylist_Data_Add(key)
      PROVE  KeyInv'
  <2>1. key \in Int
    BY KeyListAssumption
  <2>2. Belongs(nodes, key, FindIndex(nodes, key).index)
    BY <1>1, <2>1, FindIndexProperty
  <2>3. ListInOrder' /\ Len(nodes') = Len(nodes) + 1
    BY <1>1, <1>2, <2>1, <2>2, InsertedInOrder DEF Keylist_Data_Add, ListInOrder
  <2>4. RoomForAll'
    BY <1>1, <1>2, <2>3, ArrayHasRoom DEF Keylist_Data_Add, RoomForAll
  <2>. QED  BY <2>3, <2>4 DEF KeyInv
<1>3. ASSUME NEW key \in Keys, Keylist_Data_Delete(key)
      PROVE  KeyInv'
  <2>1. key \in Int
    BY KeyListAssumption
  <2>2. FindIndex(nodes, key).index \in Int
    BY <1>1, <2>1, FindIndexProperty DEF Belongs
  <2>. QED  BY <1>3, <2>2, DeleteKeeps DEF Keylist_Data_Delete
<1>4. ASSUME NEW index \in 0 .. MaxCount, Keylist_Data_Delete_By_Index(index)
      PROVE  KeyInv'
  BY <1>4, DeleteKeeps
<1>5. CASE Keylist_Data_Pop
  BY <1>1, <1>5, DeleteKeeps DEF Keylist_Data_Pop
<1>6. CASE UNCHANGED keyVars
  BY <1>6 DEF keyVars, KeyInv, ListInOrder, RoomForAll
<1>. QED  BY <1>2, <1>3, <1>4, <1>5, <1>6 DEF KeyNext

\* Among one key more than there are nodes one is free.
LEMMA SomeKeyFree ==
  ASSUME NEW list \in Seq(Node), NEW key \in Int
  PROVE  \E free \in key .. (key + Len(list)) : ~HasKey(list, free)
<1>. DEFINE S == key .. (key + Len(list))
            P == 1 .. Len(list)
<1>1. Len(list) \in Nat
  OBVIOUS
<1>2. SUFFICES ASSUME \A k \in S : HasKey(list, k) PROVE FALSE
  OBVIOUS
<1>3. PICK place : place = [k \in S |-> CHOOSE n \in P : list[n][1] = k]
  OBVIOUS
<1>4. \A k \in S : place[k] \in P /\ list[place[k]][1] = k
  BY <1>2, <1>3 DEF HasKey
<1>5. place \in [S -> P]
  BY <1>3, <1>4
<1>6. IsFiniteSet(S) /\ IsFiniteSet(P) /\ Cardinality(P) < Cardinality(S)
  <2>1. IsFiniteSet(S) /\ Cardinality(S) = Len(list) + 1
    BY <1>1, FS_Interval
  <2>2. IsFiniteSet(P) /\ Cardinality(P) = Len(list)
    BY SMTT(40), <1>1, FS_Interval
  <2>. QED  BY <1>1, <2>1, <2>2
<1>. HIDE DEF S, P
<1>7. PICK j, k \in S : j # k /\ place[j] = place[k]
  BY <1>5, <1>6, FS_PigeonHole
<1>. QED  BY <1>4, <1>7

\* The next empty key is one that no node has.
LEMMA NextIsFree ==
  ASSUME ListInOrder, NEW key \in Int
  PROVE  /\ Keylist_Next_Empty_Key(key) \in Int
         /\ ~FindIndex(nodes, Keylist_Next_Empty_Key(key)).found
<1>1. nodes \in Seq(Node) /\ Ordered(nodes) /\ Len(nodes) \in Nat
  BY DEF ListInOrder
<1>2. \A k \in Int : FindIndex(nodes, k).found <=> HasKey(nodes, k)
  BY <1>1, FindIndexProperty
<1>. DEFINE T == {m \in 0 .. Len(nodes) : ~HasKey(nodes, key + m)}
<1>3. T # {}
  <2>1. PICK free \in key .. (key + Len(nodes)) : ~HasKey(nodes, free)
    BY <1>1, SomeKeyFree
  <2>2. free - key \in 0 .. Len(nodes) /\ key + (free - key) = free
    BY <1>1
  <2>. QED  BY <2>1, <2>2
<1>4. PICK m \in T : \A n \in T : m <= n
  <2>1. T \in SUBSET Nat
    BY <1>1
  <2>. HIDE DEF T
  <2>. QED  BY <1>3, <2>1, LeastOfNat
<1>5. key + m \in key .. (key + Len(nodes)) /\ ~FindIndex(nodes, key + m).found
  BY <1>1, <1>2, <1>4
<1>6. \A below \in key .. (key + m - 1) : FindIndex(nodes, below).found
  <2>. SUFFICES ASSUME NEW below \in key .. (key + m - 1), ~HasKey(nodes, below) PROVE FALSE
    BY <1>2, <1>4
  <2>1. below - key \in 0 .. Len(nodes) /\ key + (below - key) = below /\ below - key < m
    BY <1>1, <1>4
  <2>2. below - key \in T
    BY <2>1
  <2>. QED  BY <1>4, <2>1, <2>2
<1>. DEFINE Free(k) == ~FindIndex(nodes, k).found /\ \A below \in key .. (k - 1) : FindIndex(nodes, below).found
            R == key .. (key + Len(nodes))
<1>7. key + m \in R /\ Free(key + m)
  BY <1>5, <1>6
<1>8. Keylist_Next_Empty_Key(key) = CHOOSE free \in R : Free(free)
  BY Zenon DEF Keylist_Next_Empty_Key
<1>9. \A k \in R : k \in Int
  OBVIOUS
<1>10. \A k : Free(k) => ~FindIndex(nodes, k).found
  OBVIOUS
<1>. HIDE DEF R, Free
<1>. QED  BY <1>7, <1>8, <1>9, <1>10, Zenon

\* In a sorted list every way to a key leads to the same node, or to none.
LEMMA KeyFacts ==
  ASSUME ListInOrder, NEW key \in Int
  PROVE  /\ Keylist_Index(key) # -1 <=> \E n \in DOMAIN nodes : nodes[n][1] = key
         /\ Keylist_Index(key) # -1 =>
              /\ Keylist_Key(Keylist_Index(key)) = key
              /\ Keylist_Data(key) = Keylist_Data_Index(Keylist_Index(key))
         /\ Keylist_Index(Keylist_Next_Empty_Key(key)) = -1
<1>1. nodes \in Seq(Node) /\ Ordered(nodes) /\ Len(nodes) \in Nat /\ DOMAIN nodes = 1 .. Len(nodes)
  BY DEF ListInOrder
<1>2. PICK i : i = FindIndex(nodes, key).index
  OBVIOUS
<1>3. /\ i \in 0 .. Len(nodes)
      /\ FindIndex(nodes, key).found <=> HasKey(nodes, key)
      /\ FindIndex(nodes, key).found => i < Len(nodes) /\ nodes[i + 1][1] = key
  BY <1>1, <1>2, FindIndexProperty DEF Belongs
<1>4. Keylist_Index(Keylist_Next_Empty_Key(key)) = -1
  BY NextIsFree DEF Keylist_Index
<1>5. CASE FindIndex(nodes, key).found
  <2>1. Keylist_Index(key) = i /\ Keylist_Data(key) = nodes[i + 1][2]
    BY <1>2, <1>5 DEF Keylist_Index, Keylist_Data
  <2>2. i # -1 /\ i + 1 \in DOMAIN nodes
    BY <1>1, <1>3, <1>5
  <2>3. Keylist_Key(i) = key /\ Keylist_Data_Index(i) = nodes[i + 1][2]
    BY <1>3, <1>5, <2>2 DEF Keylist_Key, Keylist_Data_Index
  <2>. QED  BY <1>1, <1>3, <1>4, <1>5, <2>1, <2>2, <2>3 DEF HasKey
<1>6. CASE ~FindIndex(nodes, key).found
  <2>1. Keylist_Index(key) = -1
    BY <1>6 DEF Keylist_Index
  <2>. QED  BY <1>1, <1>3, <1>4, <1>6, <2>1 DEF HasKey
<1>. QED  BY <1>5, <1>6

(***************************************************************************)
(* However many nodes are added, replaced and deleted, in whatever order:   *)
(* the binary search finds every key that is in the list at the place the   *)
(* node is at, and no other (keylist.c: FindIndex, Keylist_Data,            *)
(* Keylist_Index).                                                          *)
(***************************************************************************)
THEOREM KeysAreFound == KeySpec => []FoundWhereItIs
<1>1. KeyInit => KeyInv
  BY KeyListAssumption DEF KeyInit, KeyInv, ListInOrder, RoomForAll, Ordered
<1>2. KeyInv => FoundWhereItIs
  <2>1. Keys \subseteq Int
    BY KeyListAssumption
  <2>. QED  BY <2>1, KeyFacts DEF KeyInv, RoomForAll, FoundWhereItIs
<1>. QED  BY <1>1, <1>2, KeyInvInductive, PTL DEF KeySpec

-----------------------------------------------------------------------------
(***************************************************************************)
(* The calendar, whatever the start and the minutes that are added.  The    *)
(* loops over years and months add up to closed forms; from these, a day    *)
(* number is taken apart into one valid day, and that day has this number.  *)
(* Reckoning is then inductive: the moment is proper and as many minutes    *)
(* after the start as were added.  All that ReckonedExactly asks follows.   *)
(***************************************************************************)
\* The day a leap year has more.
LeapDay(year) == IF datetime_is_leap_year(year) THEN 1 ELSE 0

\* The days of a year before a month, in closed form.
ClosedBefore(year, month) ==
  IF month = 1 THEN 0 ELSE IF month = 2 THEN 31
  ELSE 59 + LeapDay(year) + ((153 * (month - 3) + 2) \div 5)

\* The lengths of the months.
LEMMA MonthLengths ==
  ASSUME NEW year \in Nat
  PROVE  /\ datetime_month_days(year, 1) = 31 /\ datetime_month_days(year, 2) = 28 + LeapDay(year)
         /\ datetime_month_days(year, 3) = 31 /\ datetime_month_days(year, 4) = 30
         /\ datetime_month_days(year, 5) = 31 /\ datetime_month_days(year, 6) = 30
         /\ datetime_month_days(year, 7) = 31 /\ datetime_month_days(year, 8) = 31
         /\ datetime_month_days(year, 9) = 30 /\ datetime_month_days(year, 10) = 31
         /\ datetime_month_days(year, 11) = 30 /\ datetime_month_days(year, 12) = 31
<1>1. PICK days : days = MonthDays
  OBVIOUS
<1>2. /\ days[1] = 31 /\ days[2] = 28 /\ days[3] = 31 /\ days[4] = 30 /\ days[5] = 31 /\ days[6] = 30
      /\ days[7] = 31 /\ days[8] = 31 /\ days[9] = 30 /\ days[10] = 31 /\ days[11] = 30 /\ days[12] = 31
  BY <1>1 DEF MonthDays
<1>. QED  BY <1>1, <1>2 DEF datetime_month_days, LeapDay

\* A month begins where the one before it ends.
LEMMA MonthsFollow ==
  ASSUME NEW year \in Nat, NEW month \in 1 .. 12
  PROVE  /\ ClosedBefore(year, month) \in Nat
         /\ datetime_month_days(year, month) \in 28 .. 31
         /\ month < 12 => ClosedBefore(year, month + 1)
                            = ClosedBefore(year, month) + datetime_month_days(year, month)
         /\ month = 12 => 365 + LeapDay(year)
                            = ClosedBefore(year, month) + datetime_month_days(year, month)
<1>1. LeapDay(year) \in 0 .. 1
  BY DEF LeapDay
<1>2. PICK leap \in 0 .. 1 : leap = LeapDay(year)
  BY <1>1
<1>3. \/ month = 1 \/ month = 2 \/ month = 3 \/ month = 4 \/ month = 5 \/ month = 6
      \/ month = 7 \/ month = 8 \/ month = 9 \/ month = 10 \/ month = 11 \/ month = 12
  OBVIOUS
<1>. QED  BY <1>2, <1>3, MonthLengths DEF ClosedBefore

\* Days before a month and days of a month are numbers.
LEMMA MonthSizes ==
  ASSUME NEW year \in Nat, NEW month \in 1 .. 12
  PROVE  /\ ClosedBefore(year, month) \in Nat
         /\ datetime_month_days(year, month) \in Nat
<1>1. datetime_month_days(year, month) \in 28 .. 31 /\ ClosedBefore(year, month) \in Nat
  BY MonthsFollow
<1>. QED  BY <1>1

\* A month begins where the one before it ends,
LEMMA NextMonth ==
  ASSUME NEW year \in Nat, NEW month \in 1 .. 12, month < 12
  PROVE  ClosedBefore(year, month + 1) = ClosedBefore(year, month) + datetime_month_days(year, month)
BY MonthsFollow

\* and the last one ends with the year.
LEMMA LastMonth ==
  ASSUME NEW year \in Nat
  PROVE  ClosedBefore(year, 12) + datetime_month_days(year, 12) = 365 + LeapDay(year)
<1>. PICK month \in 1 .. 12 : month = 12
  OBVIOUS
<1>. QED  BY MonthsFollow

\* The loop over the months adds up to the closed form.
LEMMA DaysBeforeClosed ==
  ASSUME NEW year \in Nat, NEW month \in 1 .. 12
  PROVE  DaysBefore(year, month) = ClosedBefore(year, month)
<1>. DEFINE IsBefore(g) == g = [m \in 1 .. 12 |-> IF m = 1 THEN 0 ELSE g[m - 1] + datetime_month_days(year, m - 1)]
<1>1. \E g : IsBefore(g)
  <2>1. PICK g : g = [m \in 1 .. 12 |-> ClosedBefore(year, m)]
    OBVIOUS
  <2>2. ASSUME NEW m \in 1 .. 12
        PROVE  ClosedBefore(year, m) = IF m = 1 THEN 0 ELSE g[m - 1] + datetime_month_days(year, m - 1)
    <3>1. CASE m = 1
      BY <3>1 DEF ClosedBefore
    <3>2. CASE m # 1
      <4>1. PICK k \in 1 .. 12 : k = m - 1
        BY <3>2
      <4>2. g[k] = ClosedBefore(year, k) /\ k < 12 /\ k + 1 = m
        BY <2>1, <3>2, <4>1
      <4>3. ClosedBefore(year, k + 1) = ClosedBefore(year, k) + datetime_month_days(year, k)
        BY <4>2, NextMonth
      <4>4. ClosedBefore(year, m) = g[k] + datetime_month_days(year, k)
        BY <4>2, <4>3, Zenon
      <4>. QED  BY <3>2, <4>1, <4>4, Zenon
    <3>. QED  BY <3>1, <3>2
  <2>3. IsBefore(g)
    BY <2>1, <2>2
  <2>. HIDE DEF IsBefore
  <2>. QED  BY <2>3
<1>2. PICK before : before = CHOOSE g : IsBefore(g)
  OBVIOUS
<1>3. DaysBefore(year, month) = before[month]
  BY <1>2, Zenon DEF DaysBefore
<1>4. IsBefore(before)
  <2>. HIDE DEF IsBefore
  <2>. QED  BY <1>1, <1>2
<1>5. before[1] = 0 /\ \A m \in 1 .. 12 : m # 1 => before[m] = before[m - 1] + datetime_month_days(year, m - 1)
  BY <1>4
<1>. DEFINE T == {n \in 0 .. 11 : before[n + 1] = ClosedBefore(year, n + 1)}
<1>6. 0 \in T
  BY <1>5 DEF ClosedBefore
<1>7. ASSUME NEW n \in T, n < 11 PROVE n + 1 \in T
  <2>1. PICK m \in 1 .. 12 : m = n + 1 /\ m < 12
    BY <1>7
  <2>2. before[m + 1] = before[m] + datetime_month_days(year, m)
    BY <1>5, <2>1
  <2>3. before[m + 1] = ClosedBefore(year, m + 1)
    BY <1>7, <2>1, <2>2, NextMonth
  <2>. QED  BY <1>7, <2>1, <2>3
<1>8. T = 0 .. 11
  <2>1. T \in SUBSET (0 .. 11)
    OBVIOUS
  <2>. HIDE DEF T
  <2>. QED  BY <1>6, <1>7, <2>1, StepByStep
<1>9. month - 1 \in T
  <2>1. month - 1 \in 0 .. 11
    OBVIOUS
  <2>. QED  BY <1>8, <2>1
<1>. QED  BY <1>3, <1>9

\* The days before a year, in closed form.
Before(year) ==
  365 * (year - 1) + ((year - 1) \div 4) - ((year - 1) \div 100) + ((year - 1) \div 400)

\* A year begins where the one before it ends, leap years and centuries included.
LEMMA YearsFollow ==
  ASSUME NEW year \in Nat
  PROVE  /\ Before(year) \in Int
         /\ YearDays(year) = 365 + LeapDay(year) /\ LeapDay(year) \in 0 .. 1
         /\ Before(year + 1) = Before(year) + YearDays(year)
<1>1. (year + 1) - 1 = year
  OBVIOUS
<1>2. /\ (year \div 4) = ((year - 1) \div 4) + (IF year % 4 = 0 THEN 1 ELSE 0)
      /\ (year \div 100) = ((year - 1) \div 100) + (IF year % 100 = 0 THEN 1 ELSE 0)
      /\ (year \div 400) = ((year - 1) \div 400) + (IF year % 400 = 0 THEN 1 ELSE 0)
  OBVIOUS
<1>3. /\ year % 400 = 0 => year % 100 = 0
      /\ year % 100 = 0 => year % 4 = 0
  OBVIOUS
<1>4. YearDays(year) = 365 + LeapDay(year) /\ LeapDay(year) \in 0 .. 1
  BY DEF YearDays, LeapDay
<1>5. LeapDay(year) = (IF year % 4 = 0 THEN 1 ELSE 0) - (IF year % 100 = 0 THEN 1 ELSE 0)
                      + (IF year % 400 = 0 THEN 1 ELSE 0)
  BY <1>3 DEF LeapDay, datetime_is_leap_year
<1>. QED  BY <1>1, <1>2, <1>4, <1>5 DEF Before

\* The loop over the years adds up to the closed form.
LEMMA DaysOfYearsClosed ==
  ASSUME NEW year \in 1900 .. LastYear + 1
  PROVE  DaysOfYears[year] = Before(year) - Before(1900)
<1>. DEFINE S == 1900 .. LastYear + 1
            IsDays(g) == g = [y \in S |-> IF y = 1900 THEN 0 ELSE g[y - 1] + YearDays(y - 1)]
<1>1. LastYear \in Nat /\ LastYear >= 1900
  BY CalendarAssumption
<1>2. \E g : IsDays(g)
  <2>. DEFINE g == [y \in S |-> Before(y) - Before(1900)]
  <2>1. \A k \in S : g[k] = Before(k) - Before(1900)
    OBVIOUS
  <2>2. g = [k \in S |-> g[k]]
    OBVIOUS
  <2>. HIDE DEF g
  <2>3. ASSUME NEW y \in S
        PROVE  Before(y) - Before(1900) = IF y = 1900 THEN 0 ELSE g[y - 1] + YearDays(y - 1)
    <3>1. CASE y = 1900
      <4>1. Before(1900) \in Int
        BY YearsFollow
      <4>. QED  BY <3>1, <4>1
    <3>2. CASE y # 1900
      <4>1. PICK k \in S : k = y - 1 /\ k \in Nat /\ k + 1 = y
        BY <1>1, <3>2
      <4>2. g[k] = Before(k) - Before(1900)
        BY <2>1
      <4>3. Before(k + 1) = Before(k) + YearDays(k) /\ Before(k) \in Int /\ YearDays(k) \in Int
            /\ Before(1900) \in Int
        BY <4>1, YearsFollow
      <4>4. Before(k + 1) - Before(1900) = g[k] + YearDays(k)
        BY <4>2, <4>3
      <4>. QED  BY <3>2, <4>1, <4>4
    <3>. QED  BY <3>1, <3>2
  <2>4. \A y \in S : g[y] = IF y = 1900 THEN 0 ELSE g[y - 1] + YearDays(y - 1)
    <3>. HIDE DEF S
    <3>. QED  BY <2>1, <2>3
  <2>5. IsDays(g)
    <3>. HIDE DEF S
    <3>. QED  BY <2>4, <2>2
  <2>. HIDE DEF IsDays
  <2>. QED  BY <2>5
<1>3. PICK days : days = CHOOSE g : IsDays(g)
  OBVIOUS
<1>4. DaysOfYears = days
  BY <1>3 DEF DaysOfYears
<1>5. IsDays(days)
  <2>. HIDE DEF IsDays
  <2>. QED  BY <1>2, <1>3
<1>6. days[1900] = 0 /\ \A y \in S : y # 1900 => days[y] = days[y - 1] + YearDays(y - 1)
  BY <1>1, <1>5
<1>. DEFINE m == LastYear + 1 - 1900
            T == {n \in 0 .. m : days[1900 + n] = Before(1900 + n) - Before(1900)}
<1>7. 0 \in T
  <2>1. Before(1900) \in Int /\ 1900 + 0 = 1900
    BY YearsFollow
  <2>. QED  BY <1>1, <1>6, <2>1
<1>8. ASSUME NEW n \in T, n < m PROVE n + 1 \in T
  <2>1. PICK k \in S : k = 1900 + n /\ k + 1 \in S /\ 1900 + (n + 1) = k + 1 /\ k \in Nat /\ k + 1 # 1900 /\ (k + 1) - 1 = k
    BY <1>1, <1>8
  <2>2. days[k + 1] = days[k] + YearDays(k)
    BY <1>6, <2>1
  <2>3. days[k] = Before(k) - Before(1900)
    BY <1>8, <2>1
  <2>4. Before(k + 1) = Before(k) + YearDays(k) /\ Before(k) \in Int /\ YearDays(k) \in Int
        /\ Before(1900) \in Int
    BY <2>1, YearsFollow
  <2>5. days[k + 1] = Before(k + 1) - Before(1900)
    BY <2>2, <2>3, <2>4
  <2>. QED  BY <1>1, <1>8, <2>1, <2>5
<1>9. T = 0 .. m
  <2>1. T \in SUBSET (0 .. m) /\ m \in Nat
    BY <1>1
  <2>. HIDE DEF T
  <2>. QED  BY <1>7, <1>8, <2>1, StepByStep
<1>10. PICK n \in 0 .. m : year = 1900 + n
  <2>1. year - 1900 \in 0 .. m /\ year = 1900 + (year - 1900)
    BY <1>1
  <2>. QED  BY <2>1
<1>11. days[1900 + n] = Before(1900 + n) - Before(1900)
  BY <1>9
<1>. QED  BY <1>4, <1>10, <1>11

\* Where the days of a year begin among the days since the epoch.
Begins(year) == Before(year) - Before(1900)

\* The days before a year are where it begins.
LEMMA YearBegins ==
  ASSUME NEW year \in 1900 .. LastYear + 1
  PROVE  DaysBeforeYear(year) = Begins(year)
BY DaysOfYearsClosed DEF DaysBeforeYear, Begins

\* A later year begins after the end of an earlier one.
LEMMA YearsInOrder ==
  ASSUME NEW year \in Nat, NEW later \in Nat, year < later
  PROVE  Begins(year) + YearDays(year) <= Begins(later)
<1>1. PICK n \in Nat : later = year + 1 + n
  <2>1. later - (year + 1) \in Nat /\ later = year + 1 + (later - (year + 1))
    OBVIOUS
  <2>. QED  BY <2>1
<1>2. Before(year + 1) = Before(year) + YearDays(year) /\ Before(year) \in Int /\ YearDays(year) \in Int
      /\ Before(1900) \in Int
  BY YearsFollow
<1>3. Before(year + 1) <= Before(later) /\ Before(later) \in Int
  BY <1>1 DEF Before
<1>. QED  BY <1>2, <1>3 DEF Begins

\* A day of the calendar the code accepts, up to the last year looked at.
ValidDay(year, month, day) ==
  /\ year \in 1900 .. LastYear /\ month \in 1 .. 12
  /\ day \in 1 .. datetime_month_days(year, month)

\* The day is in the month, both counted from the start of the year.
InMonth(year, month, left) ==
  /\ ClosedBefore(year, month) <= left
  /\ left < ClosedBefore(year, month) + datetime_month_days(year, month)

\* A later month begins after the end of an earlier one.
LEMMA MonthsInOrder ==
  ASSUME NEW year \in Nat, NEW month \in 1 .. 12, NEW later \in 1 .. 12, month < later
  PROVE  ClosedBefore(year, month) + datetime_month_days(year, month) <= ClosedBefore(year, later)
<1>1. PICK next \in 1 .. 12 : next = month + 1 /\ next <= later
  OBVIOUS
<1>2. ClosedBefore(year, next) = ClosedBefore(year, month) + datetime_month_days(year, month)
  BY <1>1, NextMonth
<1>3. ClosedBefore(year, next) <= ClosedBefore(year, later)
  <2>1. LeapDay(year) \in 0 .. 1 /\ next \in 2 .. 12
    BY <1>1 DEF LeapDay
  <2>. QED  BY <1>1, <2>1 DEF ClosedBefore
<1>. QED  BY <1>2, <1>3

\* A month ends within its year.
LEMMA MonthFits ==
  ASSUME NEW year \in Nat, NEW month \in 1 .. 12
  PROVE  ClosedBefore(year, month) + datetime_month_days(year, month) <= YearDays(year)
<1>1. CASE month = 12
  BY <1>1, LastMonth, YearsFollow
<1>2. CASE month # 12
  <2>1. ClosedBefore(year, month) + datetime_month_days(year, month) <= ClosedBefore(year, 12)
    BY <1>2, MonthsInOrder
  <2>2. /\ ClosedBefore(year, 12) + datetime_month_days(year, 12) = YearDays(year)
        /\ ClosedBefore(year, 12) \in Nat /\ datetime_month_days(year, 12) \in Nat
        /\ ClosedBefore(year, month) \in Nat /\ datetime_month_days(year, month) \in Nat
    <3>1. ClosedBefore(year, 12) + datetime_month_days(year, 12) = YearDays(year)
      BY LastMonth, YearsFollow
    <3>2. \A m \in 1 .. 12 : ClosedBefore(year, m) \in Nat /\ datetime_month_days(year, m) \in Nat
      BY MonthSizes
    <3>. QED  BY <3>1, <3>2
  <2>. QED  BY <2>1, <2>2
<1>. QED  BY <1>1, <1>2

\* Every day of a year is in a month,
LEMMA SomeMonth ==
  ASSUME NEW year \in Nat, NEW left \in Nat, left < YearDays(year)
  PROVE  \E month \in 1 .. 12 : InMonth(year, month, left)
<1>1. SUFFICES ASSUME \A month \in 1 .. 12 : ~InMonth(year, month, left) PROVE FALSE
  OBVIOUS
<1>. DEFINE T == {n \in 0 .. 11 : ClosedBefore(year, n + 1) <= left}
<1>2. 0 \in T
  BY DEF ClosedBefore
<1>3. ASSUME NEW n \in T, n < 11 PROVE n + 1 \in T
  <2>1. PICK m \in 1 .. 12 : m = n + 1 /\ m < 12
    BY <1>3
  <2>2. /\ ClosedBefore(year, m + 1) = ClosedBefore(year, m) + datetime_month_days(year, m)
        /\ ClosedBefore(year, m) \in Nat /\ datetime_month_days(year, m) \in Nat
    BY <2>1, NextMonth, MonthSizes
  <2>3. ClosedBefore(year, m) <= left
    BY <1>3, <2>1
  <2>4. ClosedBefore(year, m + 1) <= left
    BY <1>1, <2>2, <2>3 DEF InMonth
  <2>. QED  BY <1>3, <2>1, <2>4
<1>4. T = 0 .. 11
  <2>1. T \in SUBSET (0 .. 11)
    OBVIOUS
  <2>. HIDE DEF T
  <2>. QED  BY <1>2, <1>3, <2>1, StepByStep
<1>5. ClosedBefore(year, 12) <= left
  <2>1. 11 \in T
    <3>. HIDE DEF T
    <3>. QED  BY <1>4
  <2>. QED  BY <2>1
<1>6. ClosedBefore(year, 12) + datetime_month_days(year, 12) = YearDays(year)
  BY LastMonth, YearsFollow
<1>. QED  BY <1>1, <1>5, <1>6 DEF InMonth

\* and in one only.
LEMMA OneMonth ==
  ASSUME NEW year \in Nat, NEW left \in Nat, NEW m \in 1 .. 12, NEW n \in 1 .. 12,
         InMonth(year, m, left), InMonth(year, n, left)
  PROVE  m = n
<1>1. \A a, b \in 1 .. 12 : a < b => ClosedBefore(year, a) + datetime_month_days(year, a) <= ClosedBefore(year, b)
  BY MonthsInOrder
<1>2. \A a \in 1 .. 12 : ClosedBefore(year, a) \in Nat /\ datetime_month_days(year, a) \in Nat
  BY MonthSizes
<1>. QED  BY <1>1, <1>2 DEF InMonth

\* A valid day among the days of its year and among all.
LEMMA DayNumber ==
  ASSUME NEW year, NEW month, NEW day, ValidDay(year, month, day)
  PROVE  /\ datetime_ymd_is_valid(year, month, day)
         /\ day_of_year(year, month, day) = ClosedBefore(year, month) + day
         /\ days_since_epoch(year, month, day)
              = Begins(year) + ClosedBefore(year, month) + day - 1
         /\ ClosedBefore(year, month) + day - 1 \in 0 .. YearDays(year) - 1
         /\ InMonth(year, month, ClosedBefore(year, month) + day - 1)
<1>1. LastYear \in 1900 .. 2154
  BY CalendarAssumption
<1>2. year \in Nat /\ year >= 1900 /\ year \in 1900 .. LastYear + 1 /\ month \in 1 .. 12
  BY <1>1 DEF ValidDay
<1>3. /\ ClosedBefore(year, month) \in Nat /\ datetime_month_days(year, month) \in Nat
      /\ day \in Nat /\ 1 <= day /\ day <= datetime_month_days(year, month)
  <2>1. year \in Nat
    BY <1>2
  <2>2. month \in 1 .. 12
    BY <1>2
  <2>3. ClosedBefore(year, month) \in Nat /\ datetime_month_days(year, month) \in Nat
    BY <2>1, <2>2, MonthSizes
  <2>. QED  BY <2>3 DEF ValidDay
<1>4. datetime_ymd_is_valid(year, month, day)
  BY <1>2, <1>3 DEF datetime_ymd_is_valid
<1>5. day_of_year(year, month, day) = ClosedBefore(year, month) + day
  BY <1>2, <1>4, DaysBeforeClosed DEF day_of_year
<1>6. days_since_epoch(year, month, day) = Begins(year) + ClosedBefore(year, month) + day - 1
  <2>1. DaysBeforeYear(year) = Begins(year) /\ Begins(year) \in Int
    <3>1. Before(year) \in Int /\ Before(1900) \in Int
      BY <1>2, YearsFollow
    <3>. QED  BY <1>2, <3>1, YearBegins DEF Begins
  <2>2. days_since_epoch(year, month, day) = DaysBeforeYear(year) + day_of_year(year, month, day) - 1
    BY <1>4 DEF days_since_epoch
  <2>. QED  BY <1>3, <1>5, <2>1, <2>2
<1>7. ClosedBefore(year, month) + datetime_month_days(year, month) <= YearDays(year) /\ YearDays(year) \in Nat
  BY <1>2, MonthFits, YearsFollow
<1>. QED  BY <1>3, <1>4, <1>5, <1>6, <1>7 DEF InMonth

\* The day of the year is taken apart into the month and the day it was put together from.
LEMMA DayOfYearApart ==
  ASSUME NEW year, NEW month, NEW day, ValidDay(year, month, day)
  PROVE  day_of_year_into_md(day_of_year(year, month, day), year) = <<month, day>>
<1>1. PICK days : days = day_of_year(year, month, day)
  OBVIOUS
<1>2. /\ days = ClosedBefore(year, month) + day /\ days - 1 \in Nat
      /\ InMonth(year, month, days - 1) /\ year \in Nat /\ month \in 1 .. 12
      /\ ClosedBefore(year, month) \in Nat /\ day \in Nat
  <2>1. LastYear \in 1900 .. 2154
    BY CalendarAssumption
  <2>2. year \in Nat /\ month \in 1 .. 12
    BY <2>1 DEF ValidDay
  <2>3. ClosedBefore(year, month) \in Nat /\ datetime_month_days(year, month) \in Nat
    BY <2>2, MonthSizes
  <2>4. day \in Nat
    BY <2>3 DEF ValidDay
  <2>5. /\ days = ClosedBefore(year, month) + day
        /\ ClosedBefore(year, month) + day - 1 \in Nat
        /\ InMonth(year, month, ClosedBefore(year, month) + day - 1)
    <3>1. ClosedBefore(year, month) + day - 1 \in 0 .. YearDays(year) - 1
      BY DayNumber
    <3>. QED  BY <1>1, <3>1, DayNumber
  <2>. QED  BY <2>2, <2>3, <2>4, <2>5
<1>. DEFINE IsMonth(m) == DaysBefore(year, m) < days /\ days <= DaysBefore(year, m) + datetime_month_days(year, m)
<1>3. \A m \in 1 .. 12 : IsMonth(m) <=> InMonth(year, m, days - 1)
  <2>1. \A m \in 1 .. 12 : /\ DaysBefore(year, m) = ClosedBefore(year, m)
                           /\ ClosedBefore(year, m) \in Nat /\ datetime_month_days(year, m) \in Nat
    BY <1>2, DaysBeforeClosed, MonthSizes
  <2>2. days \in Int
    BY <1>2
  <2>. QED  BY <2>1, <2>2 DEF InMonth
<1>. HIDE DEF IsMonth
<1>4. (CHOOSE m \in 1 .. 12 : IsMonth(m)) = month
  <2>1. IsMonth(month)
    BY <1>2, <1>3
  <2>2. \A m \in 1 .. 12 : IsMonth(m) => m = month
    BY <1>2, <1>3, OneMonth
  <2>. QED  BY <1>2, <2>1, <2>2, Zenon
<1>5. DaysBefore(year, month) = ClosedBefore(year, month)
  BY <1>2, DaysBeforeClosed
<1>6. day_of_year_into_md(days, year) = <<month, days - DaysBefore(year, month)>>
  BY <1>4, Zenon DEF day_of_year_into_md, IsMonth
<1>7. days - DaysBefore(year, month) = day
  BY <1>2, <1>5
<1>. QED  BY <1>1, <1>6, <1>7, Zenon

\* The closed form of the calendar counts from the same day all along.
LEMMA ClosedDaysOf ==
  ASSUME NEW date, date[1] \in Nat, date[2] \in 1 .. 12, date[3] \in Int
  PROVE  ClosedDays(date) = Before(date[1]) + 306 + ClosedBefore(date[1], date[2]) + date[3]
<1>1. PICK y \in Nat, m \in 1 .. 12, d \in Int : y = date[1] /\ m = date[2] /\ d = date[3]
  OBVIOUS
<1>2. ClosedBefore(y, m) \in Nat
  BY MonthSizes
<1>3. CASE m < 3
  <2>1. (m + 9) % 12 = m + 9 /\ m \in {1, 2}
    BY <1>3
  <2>2. ((153 * (m + 9) + 2) \div 5) = 306 + ClosedBefore(y, m)
    BY <2>1 DEF ClosedBefore
  <2>. QED  BY <1>1, <1>2, <1>3, <2>1, <2>2 DEF ClosedDays, Before
<1>4. CASE m >= 3
  <2>1. (m + 9) % 12 = m - 3 /\ m # 1 /\ m # 2
    BY <1>4
  <2>2. ClosedBefore(y, m) = 59 + LeapDay(y) + ((153 * (m - 3) + 2) \div 5) /\ LeapDay(y) \in Int
    BY <2>1 DEF ClosedBefore, LeapDay
  <2>3. Before(y + 1) = Before(y) + 365 + LeapDay(y) /\ Before(y) \in Int
    BY <2>2, YearsFollow
  <2>4. Before(y + 1) = 365 * y + (y \div 4) - (y \div 100) + (y \div 400)
    <3>1. (y + 1) - 1 = y
      OBVIOUS
    <3>. QED  BY <3>1 DEF Before
  <2>5. ClosedDays(date) = 365 * y + (y \div 4) - (y \div 100) + (y \div 400)
                           + ((153 * (m - 3) + 2) \div 5) + d
    BY <1>1, <1>4, <2>1 DEF ClosedDays
  <2>. QED  BY <1>1, <1>2, <2>2, <2>3, <2>4, <2>5
<1>. QED  BY <1>3, <1>4

\* The day is in the year, counted since the epoch.
InYear(year, days) == Begins(year) <= days /\ days < Begins(year) + YearDays(year)

\* Days before a year and days of a year are numbers.
LEMMA YearSizes ==
  ASSUME NEW year \in Nat
  PROVE  Begins(year) \in Int /\ YearDays(year) \in Nat
<1>1. Before(year) \in Int /\ Before(1900) \in Int /\ YearDays(year) = 365 + LeapDay(year) /\ LeapDay(year) \in 0 .. 1
  BY YearsFollow
<1>. QED  BY <1>1 DEF Begins

\* A year begins where the one before it ends.
LEMMA NextYear ==
  ASSUME NEW year \in Nat
  PROVE  Begins(year + 1) = Begins(year) + YearDays(year)
<1>1. Before(year) \in Int /\ Before(1900) \in Int /\ YearDays(year) \in Int
      /\ Before(year + 1) = Before(year) + YearDays(year)
  BY YearsFollow
<1>. QED  BY <1>1 DEF Begins

\* Every day since the epoch is in a year.
LEMMA SomeYear ==
  ASSUME NEW days \in Nat, days <= Begins(LastYear)
  PROVE  \E year \in 1900 .. LastYear : InYear(year, days)
<1>1. PICK m \in Nat : m = LastYear - 1900 /\ LastYear \in Nat /\ 1900 + m = LastYear
  BY CalendarAssumption
<1>2. SUFFICES ASSUME \A year \in 1900 .. LastYear : ~InYear(year, days) PROVE FALSE
  OBVIOUS
<1>. DEFINE T == {n \in 0 .. m : Begins(1900 + n) <= days}
<1>3. 0 \in T
  <2>1. Before(1900) \in Int
    BY YearsFollow
  <2>2. Begins(1900 + 0) = 0
    BY <2>1 DEF Begins
  <2>. QED  BY <2>2
<1>4. ASSUME NEW n \in T, n < m PROVE n + 1 \in T
  <2>1. PICK year \in Nat : year = 1900 + n /\ year \in 1900 .. LastYear /\ 1900 + (n + 1) = year + 1
    BY <1>1, <1>4
  <2>2. Begins(year + 1) = Begins(year) + YearDays(year)
    BY NextYear
  <2>3. Begins(year) <= days /\ ~InYear(year, days)
    BY <1>2, <1>4, <2>1
  <2>4. Begins(year) \in Int /\ YearDays(year) \in Nat
    BY YearSizes
  <2>5. Begins(year + 1) <= days
    BY <2>2, <2>3, <2>4 DEF InYear
  <2>. QED  BY <1>4, <2>1, <2>5
<1>5. T = 0 .. m
  <2>1. T \in SUBSET (0 .. m)
    OBVIOUS
  <2>. HIDE DEF T
  <2>. QED  BY <1>3, <1>4, <2>1, StepByStep
<1>6. Begins(LastYear) <= days
  <2>1. m \in T
    <3>. HIDE DEF T
    <3>. QED  BY <1>5
  <2>. QED  BY <1>1, <2>1
<1>7. Begins(LastYear) \in Int /\ YearDays(LastYear) = 365 + LeapDay(LastYear) /\ LeapDay(LastYear) \in 0 .. 1
  BY <1>1, YearSizes, YearsFollow
<1>8. InYear(LastYear, days) /\ LastYear \in 1900 .. LastYear
  BY <1>1, <1>6, <1>7 DEF InYear
<1>. QED  BY <1>2, <1>8

\* A number of days is taken apart into a valid day that has this number.
ApartInto(days, year, month, day) ==
  /\ ValidDay(year, month, day)
  /\ days_since_epoch_into_ymd(days) = <<year, month, day>>
  /\ days_since_epoch(year, month, day) = days

\* The days since the epoch are taken apart into the day they number.
LEMMA DaysApart ==
  ASSUME NEW days \in Nat, days <= Begins(LastYear)
  PROVE  \E year, month, day : ApartInto(days, year, month, day)
<1>. DEFINE IsYear(y) == DaysBeforeYear(y) <= days /\ days < DaysBeforeYear(y) + YearDays(y)
            Years == 1900 .. LastYear
<1>1. LastYear \in Nat
  BY CalendarAssumption
<1>2. \A y \in Years : IsYear(y) <=> InYear(y, days)
  <2>1. \A y \in Years : DaysBeforeYear(y) = Begins(y)
    BY <1>1, YearBegins
  <2>. QED  BY <2>1 DEF InYear
<1>3. \E y \in Years : InYear(y, days)
  BY SomeYear
<1>. HIDE DEF IsYear, Years
<1>4. PICK year : year = CHOOSE y \in Years : IsYear(y)
  OBVIOUS
<1>5. year \in Years /\ InYear(year, days)
  BY <1>2, <1>3, <1>4, Zenon
<1>6. year \in Nat /\ year \in 1900 .. LastYear + 1 /\ year \in 1900 .. LastYear
  BY <1>1, <1>5 DEF Years
<1>7. DaysBeforeYear(year) = Begins(year) /\ Begins(year) \in Int /\ YearDays(year) \in Nat
  BY <1>6, YearBegins, YearSizes
<1>8. PICK left : left = days - DaysBeforeYear(year)
  OBVIOUS
<1>9. left \in Nat /\ left < YearDays(year) /\ days = Begins(year) + left
  BY <1>5, <1>7, <1>8 DEF InYear
<1>. DEFINE IsMonth(m) == DaysBefore(year, m) <= left /\ left < DaysBefore(year, m) + datetime_month_days(year, m)
            Months == 1 .. 12
<1>10. \A m \in Months : IsMonth(m) <=> InMonth(year, m, left)
  BY <1>6, DaysBeforeClosed DEF InMonth
<1>11. \E m \in Months : InMonth(year, m, left)
  BY <1>6, <1>9, SomeMonth
<1>. HIDE DEF IsMonth, Months
<1>12. PICK month : month = CHOOSE m \in Months : IsMonth(m)
  OBVIOUS
<1>13. month \in Months /\ InMonth(year, month, left)
  BY <1>10, <1>11, <1>12, Zenon
<1>14. PICK day : day = left - DaysBefore(year, month) + 1
  OBVIOUS
<1>15. month \in 1 .. 12
  BY <1>13 DEF Months
<1>16. DaysBefore(year, month) = ClosedBefore(year, month) /\ ClosedBefore(year, month) \in Nat
       /\ datetime_month_days(year, month) \in Nat
  <2>1. year \in Nat
    BY <1>6
  <2>. QED  BY <1>15, <2>1, DaysBeforeClosed, MonthSizes
<1>17. day \in 1 .. datetime_month_days(year, month) /\ left = ClosedBefore(year, month) + day - 1
  BY <1>9, <1>13, <1>14, <1>16 DEF InMonth
<1>18. ValidDay(year, month, day)
  BY <1>6, <1>15, <1>17 DEF ValidDay
<1>19. days_since_epoch(year, month, day) = days
  <2>1. days_since_epoch(year, month, day) = Begins(year) + ClosedBefore(year, month) + day - 1
    BY <1>18, DayNumber
  <2>. QED  BY <1>7, <1>9, <1>16, <1>17, <2>1
<1>20. days_since_epoch_into_ymd(days) = <<year, month, day>>
  BY <1>4, <1>8, <1>12, <1>14, Zenon DEF days_since_epoch_into_ymd, IsYear, Years, IsMonth, Months
<1>. QED  BY <1>18, <1>19, <1>20 DEF ApartInto

\* A moment as the code makes it: a valid day with its right weekday, and a time of the day.
Proper(at) ==
  /\ at[1] = datetime_set_date(<<at[1][1], at[1][2], at[1][3]>>)
  /\ ValidDay(at[1][1], at[1][2], at[1][3])
  /\ at[2] = <<at[2][1], at[2][2], at[2][3], at[2][4]>>
  /\ at[2][1] \in 0 .. 23 /\ at[2][2] \in 0 .. 59 /\ at[2][3] \in 0 .. 59 /\ at[2][4] \in 0 .. 99

\* The number of its day.
DayOf(at) == days_since_epoch(at[1][1], at[1][2], at[1][3])
\* The minutes since the epoch.
MinutesOf(at) == 1440 * DayOf(at) + 60 * at[2][1] + at[2][2]

\* A date of these four fields.
IsDate(date, y, m, d, w) ==
  /\ \E S : date \in Seq(S)
  /\ Len(date) = 4
  /\ date[1] = y /\ date[2] = m /\ date[3] = d /\ date[4] = w

\* A fourth field is appended to three.
LEMMA FourFields ==
  ASSUME NEW y, NEW m, NEW d, NEW w
  PROVE  IsDate(Append(<<y, m, d>>, w), y, m, d, w)
<1>1. PICK s : s = <<y, m, d>>
  OBVIOUS
<1>2. s \in Seq({y, m, d, w}) /\ Len(s) = 3 /\ s[1] = y /\ s[2] = m /\ s[3] = d
  BY <1>1
<1>3. PICK date : date = Append(s, w)
  OBVIOUS
<1>4. /\ date \in Seq({y, m, d, w}) /\ Len(date) = 4
      /\ date[1] = s[1] /\ date[2] = s[2] /\ date[3] = s[3] /\ date[4] = w
  BY <1>2, <1>3
<1>. QED  BY <1>1, <1>2, <1>3, <1>4, Zenon DEF IsDate

\* The fields of a date that is set.
LEMMA DateFields ==
  ASSUME NEW y, NEW m, NEW d
  PROVE  IsDate(datetime_set_date(<<y, m, d>>), y, m, d, (days_since_epoch(y, m, d) % 7) + 1)
<1>1. PICK s : s = <<y, m, d>>
  OBVIOUS
<1>2. s[1] = y /\ s[2] = m /\ s[3] = d
  BY <1>1
<1>3. PICK w : w = datetime_day_of_week(y, m, d)
  OBVIOUS
<1>4. datetime_set_date(s) = Append(s, w)
  BY <1>2, <1>3, Zenon DEF datetime_set_date
<1>5. w = (days_since_epoch(y, m, d) % 7) + 1
  BY <1>3, Zenon DEF datetime_day_of_week
<1>. QED  BY <1>1, <1>4, <1>5, FourFields, Zenon

\* The code's division leaves a rest on the same side of 0.
IsTruncated(minutes) ==
  /\ Truncated(minutes, 1440) \in Int
  /\ minutes - 1440 * Truncated(minutes, 1440) \in -1439 .. 1439

\* Division towards 0 leaves less than a day on either side.
LEMMA TruncatedRest ==
  ASSUME NEW minutes \in Int
  PROVE  IsTruncated(minutes)
BY DEF Truncated, IsTruncated

\* A moment is as many minutes after the epoch, keeps the seconds and is a proper one.
Comes(n, total, second, hundredths) ==
  Proper(n) /\ MinutesOf(n) = total /\ n[2][3] = second /\ n[2][4] = hundredths

\* The same, one by one.
LEMMA DateParts ==
  ASSUME NEW y, NEW m, NEW d
  PROVE  /\ datetime_set_date(<<y, m, d>>)[1] = y
         /\ datetime_set_date(<<y, m, d>>)[2] = m
         /\ datetime_set_date(<<y, m, d>>)[3] = d
<1>1. IsDate(datetime_set_date(<<y, m, d>>), y, m, d, (days_since_epoch(y, m, d) % 7) + 1)
  BY DateFields
<1>. QED  BY <1>1, Zenon DEF IsDate

\* A moment put together from its fields.
IsMoment(n, day, hour, minute, second, hundredths) ==
  /\ Proper(n) /\ DayOf(n) = day
  /\ n[2][1] = hour /\ n[2][2] = minute /\ n[2][3] = second /\ n[2][4] = hundredths

\* The time of a clock.
OfTheClock(hour, minute, second, hundredths) ==
  hour \in 0 .. 23 /\ minute \in 0 .. 59 /\ second \in 0 .. 59 /\ hundredths \in 0 .. 99

\* A moment put together from valid fields is a proper one.
LEMMA MomentFields ==
  ASSUME NEW y, NEW m, NEW d, ValidDay(y, m, d),
         NEW hour, NEW minute, NEW second, NEW hundredths, OfTheClock(hour, minute, second, hundredths)
  PROVE  IsMoment(<<datetime_set_date(<<y, m, d>>), <<hour, minute, second, hundredths>>>>,
                  days_since_epoch(y, m, d), hour, minute, second, hundredths)
<1>1. PICK date : date = datetime_set_date(<<y, m, d>>)
  OBVIOUS
<1>2. date[1] = y /\ date[2] = m /\ date[3] = d
  BY <1>1, DateParts
<1>3. PICK time : time = <<hour, minute, second, hundredths>>
  OBVIOUS
<1>4. time[1] = hour /\ time[2] = minute /\ time[3] = second /\ time[4] = hundredths
  BY <1>3
<1>5. PICK n : n = <<date, time>>
  OBVIOUS
<1>6. n[1] = date /\ n[2] = time
  BY <1>5
<1>7. Proper(n)
  BY <1>1, <1>2, <1>3, <1>4, <1>6, ZenonT(60) DEF Proper, OfTheClock
<1>8. DayOf(n) = days_since_epoch(y, m, d)
  BY <1>2, <1>6, Zenon DEF DayOf
<1>9. n[2][1] = hour /\ n[2][2] = minute /\ n[2][3] = second /\ n[2][4] = hundredths
  BY <1>4, <1>6, Zenon
<1>. QED  BY <1>1, <1>3, <1>5, <1>7, <1>8, <1>9, Zenon DEF IsMoment

\* What datetime_add_minutes makes of a day and the minutes of it that are left.
AtMinute(to, left, second, hundredths) ==
  <<datetime_days_since_epoch_into_date(to), <<left \div 60, left % 60, second, hundredths>>>>
\* It comes to that many minutes since the epoch.
Together(to, left, second, hundredths) ==
  Comes(AtMinute(to, left, second, hundredths), 1440 * to + left, second, hundredths)
\* A day that can be reckoned with and a minute of it.
OfADay(to, left, second, hundredths) ==
  to \in Nat /\ to <= Begins(LastYear) /\ left \in 0 .. 1439 /\ second \in 0 .. 59 /\ hundredths \in 0 .. 99

\* A day number and a minute of the day are put together into the moment they number.
LEMMA PutTogether ==
  ASSUME NEW to, NEW left, NEW second, NEW hundredths, OfADay(to, left, second, hundredths)
  PROVE  Together(to, left, second, hundredths)
<1>. /\ to \in Nat /\ to <= Begins(LastYear) /\ left \in 0 .. 1439
     /\ second \in 0 .. 59 /\ hundredths \in 0 .. 99
  BY DEF OfADay
<1>1. PICK y, m, d : ApartInto(to, y, m, d)
  BY DaysApart
<1>2. ValidDay(y, m, d) /\ days_since_epoch(y, m, d) = to
  BY <1>1 DEF ApartInto
<1>3. datetime_days_since_epoch_into_date(to) = datetime_set_date(<<y, m, d>>)
  BY <1>1 DEF ApartInto, datetime_days_since_epoch_into_date
<1>4. PICK hour, minute : hour = left \div 60 /\ minute = left % 60
  OBVIOUS
<1>5. hour \in 0 .. 23 /\ minute \in 0 .. 59
  BY <1>4
<1>6. 60 * hour + minute = left
  BY <1>4
<1>7. PICK date : date = datetime_set_date(<<y, m, d>>)
  OBVIOUS
<1>8. PICK time : time = <<hour, minute, second, hundredths>>
  BY ZenonT(60)
<1>9. PICK n : n = <<date, time>>
  BY ZenonT(60)
<1>10. n = <<datetime_set_date(<<y, m, d>>), <<hour, minute, second, hundredths>>>>
  BY <1>7, <1>8, <1>9
<1>11. IsMoment(<<datetime_set_date(<<y, m, d>>), <<hour, minute, second, hundredths>>>>,
                days_since_epoch(y, m, d), hour, minute, second, hundredths)
  <2>1. ValidDay(y, m, d)
    BY <1>2
  <2>2. OfTheClock(hour, minute, second, hundredths)
    BY <1>5, ZenonT(60) DEF OfTheClock
  <2>. QED  BY <2>1, <2>2, MomentFields, ZenonT(60)
<1>12. IsMoment(n, to, hour, minute, second, hundredths)
  BY <1>2, <1>10, <1>11
<1>13. DayOf(n) = to /\ n[2][1] = hour /\ n[2][2] = minute
  BY <1>12 DEF IsMoment
<1>14. MinutesOf(n) = 1440 * to + left
  BY <1>5, <1>6, <1>13 DEF MinutesOf
<1>15. Comes(n, 1440 * to + left, second, hundredths)
  BY <1>12, <1>14 DEF Comes, IsMoment
<1>. QED  BY <1>3, <1>4, <1>10, <1>15 DEF AtMinute, Together

\* The fields of a proper moment in numbers.
LEMMA ProperFacts ==
  ASSUME NEW at, Proper(at)
  PROVE  /\ DayOf(at) \in Int
         /\ MinutesOf(at) = 1440 * DayOf(at) + (60 * at[2][1] + at[2][2])
         /\ at[2][1] \in 0 .. 23 /\ at[2][2] \in 0 .. 59 /\ at[2][3] \in 0 .. 59 /\ at[2][4] \in 0 .. 99
<1>1. PICK y, m, d : y = at[1][1] /\ m = at[1][2] /\ d = at[1][3] /\ ValidDay(y, m, d)
  BY DEF Proper
<1>2. days_since_epoch(y, m, d) = Begins(y) + ClosedBefore(y, m) + d - 1
  BY <1>1, DayNumber
<1>3. y \in Nat /\ m \in 1 .. 12
  BY <1>1, CalendarAssumption DEF ValidDay
<1>4. Begins(y) \in Int /\ ClosedBefore(y, m) \in Nat /\ datetime_month_days(y, m) \in Nat
  BY <1>3, YearSizes, MonthSizes
<1>5. d \in Int
  BY <1>1, <1>4 DEF ValidDay
<1>6. days_since_epoch(y, m, d) \in Int
  BY <1>2, <1>4, <1>5
<1>7. DayOf(at) \in Int
  BY <1>1, <1>6, Zenon DEF DayOf
<1>8. at[2][1] \in 0 .. 23 /\ at[2][2] \in 0 .. 59 /\ at[2][3] \in 0 .. 59 /\ at[2][4] \in 0 .. 99
  BY Zenon DEF Proper
<1>9. MinutesOf(at) = 1440 * DayOf(at) + (60 * at[2][1] + at[2][2])
  BY <1>7, <1>8 DEF MinutesOf
<1>. QED  BY <1>7, <1>8, <1>9

\* The minutes since the epoch are a number.
LEMMA WholeMinutes ==
  ASSUME NEW at, Proper(at)
  PROVE  MinutesOf(at) \in Int
<1>1. /\ DayOf(at) \in Int
      /\ MinutesOf(at) = 1440 * DayOf(at) + (60 * at[2][1] + at[2][2])
      /\ at[2][1] \in 0 .. 23 /\ at[2][2] \in 0 .. 59
  BY ProperFacts
<1>. QED  BY SMTT(40), <1>1

\* datetime_add_minutes comes to the moment so many minutes away, over midnights both ways.
LEMMA AddedMinutes ==
  ASSUME NEW at, Proper(at), NEW minutes \in Int,
         MinutesOf(at) + minutes \in 0 .. 1440 * Begins(LastYear) + 1439
  PROVE  Comes(datetime_add_minutes(at, minutes), MinutesOf(at) + minutes, at[2][3], at[2][4])
<1>1. PICK day : day = DayOf(at)
  OBVIOUS
<1>2. PICK hour : hour = at[2][1]
  OBVIOUS
<1>3. PICK minute : minute = at[2][2]
  OBVIOUS
<1>4. PICK second : second = at[2][3]
  OBVIOUS
<1>5. PICK hundredths : hundredths = at[2][4]
  OBVIOUS
<1>6. /\ day = DayOf(at) /\ hour = at[2][1] /\ minute = at[2][2] /\ second = at[2][3]
      /\ hundredths = at[2][4]
  BY <1>1, <1>2, <1>3, <1>4, <1>5
<1>7. /\ DayOf(at) \in Int
      /\ MinutesOf(at) = 1440 * DayOf(at) + (60 * at[2][1] + at[2][2])
      /\ at[2][1] \in 0 .. 23 /\ at[2][2] \in 0 .. 59 /\ at[2][3] \in 0 .. 59 /\ at[2][4] \in 0 .. 99
  BY ProperFacts
<1>8. day \in Int
  BY <1>6, <1>7
<1>9. hour \in 0 .. 23 /\ minute \in 0 .. 59 /\ second \in 0 .. 59 /\ hundredths \in 0 .. 99
  BY <1>6, <1>7
<1>10. PICK now : now = 60 * hour + minute
  OBVIOUS
<1>11. now \in 0 .. 1439
  BY <1>9, <1>10
<1>12. datetime_seconds_since_midnight(at[2]) \div 60 = now
  <2>1. (hour * 3600 + minute * 60 + second) \div 60 = 60 * hour + minute
    BY <1>9
  <2>2. datetime_seconds_since_midnight(at[2]) = hour * 3600 + minute * 60 + second
    BY <1>6 DEF datetime_seconds_since_midnight
  <2>. QED  BY <1>10, <2>1, <2>2
<1>13. PICK days : days = Truncated(minutes, 1440)
  OBVIOUS
<1>14. PICK rest : rest = minutes - 1440 * days
  OBVIOUS
<1>15. IsTruncated(minutes)
  BY TruncatedRest
<1>16. days \in Int
  BY <1>13, <1>15 DEF IsTruncated
<1>17. rest \in -1439 .. 1439
  BY <1>13, <1>14, <1>15 DEF IsTruncated
<1>18. minutes = 1440 * days + rest
  BY <1>14, <1>16
<1>19. PICK total : total = MinutesOf(at) + minutes
  OBVIOUS
<1>20. total = 1440 * day + now + (1440 * days + rest)
  BY <1>6, <1>7, <1>8, <1>10, <1>18, <1>19
<1>21. Begins(LastYear) \in Int
  <2>1. LastYear \in Nat
    BY CalendarAssumption
  <2>. QED  BY <2>1, YearSizes
<1>22. total \in Nat /\ total <= 1440 * Begins(LastYear) + 1439
  BY <1>19, <1>21
<1>. DEFINE Right(to, left) ==
              /\ to \in Int /\ left \in 0 .. 1439 /\ 1440 * to + left = total
              /\ datetime_add_minutes(at, minutes) = AtMinute(to, left, second, hundredths)
<1>23. ASSUME NEW to, NEW left, Right(to, left)
       PROVE  Comes(datetime_add_minutes(at, minutes), total, second, hundredths)
  <2>1. to \in Int
    BY <1>23
  <2>2. left \in 0 .. 1439
    BY <1>23
  <2>3. 1440 * to + left = total
    BY <1>23
  <2>4. to \in Nat /\ to <= Begins(LastYear)
    BY <1>21, <1>22, <2>1, <2>2, <2>3
  <2>5. Together(to, left, second, hundredths)
    <3>1. OfADay(to, left, second, hundredths)
      BY <1>9, <2>2, <2>4 DEF OfADay
    <3>. QED  BY <3>1, PutTogether
  <2>. QED  BY <1>23, <2>3, <2>5 DEF Together
<1>24. CASE rest < 0 /\ -rest > now
  <2>1. Right(day + days + -1, now + 1440 + rest)
    <3>1. now + 1440 + rest \in 0 .. 1439
      BY <1>11, <1>17, <1>24
    <3>2. 1440 * (day + days + -1) + (now + 1440 + rest) = 1440 * day + now + (1440 * days + rest)
      BY <1>8, <1>11, <1>16, <1>17
    <3>3. datetime_add_minutes(at, minutes)
            = AtMinute(day + days + -1, now + 1440 + rest, second, hundredths)
      BY <1>6, <1>12, <1>13, <1>14, <1>24 DEF datetime_add_minutes, DayOf, AtMinute
    <3>4. day + days + -1 \in Int
      BY <1>8, <1>16
    <3>. QED  BY <1>20, <3>1, <3>2, <3>3, <3>4
  <2>2. Comes(datetime_add_minutes(at, minutes), total, second, hundredths)
    BY <1>23, <2>1
  <2>. QED  BY <1>6, <1>19, <2>2
<1>25. CASE ~(rest < 0 /\ -rest > now)
  <2>1. PICK sum : sum = now + rest
    OBVIOUS
  <2>2. sum \in 0 .. 2878
    BY <1>11, <1>17, <1>25, <2>1
  <2>3. sum \div 1440 \in Int /\ sum % 1440 \in 0 .. 1439 /\ sum = 1440 * (sum \div 1440) + (sum % 1440)
    BY <2>2
  <2>4. Right(day + days + (sum \div 1440), sum % 1440)
    <3>1. day + days + (sum \div 1440) \in Int
      BY <1>8, <1>16, <2>3
    <3>2. 1440 * (day + days + (sum \div 1440)) + (sum % 1440) = total
      <4>1. PICK over, left : over = sum \div 1440 /\ left = sum % 1440
        OBVIOUS
      <4>2. over \in Int /\ left \in 0 .. 1439 /\ now + rest = 1440 * over + left
        BY <2>1, <2>3, <4>1
      <4>3. 1440 * (day + days + over) + left = 1440 * day + now + (1440 * days + rest)
        BY <1>8, <1>11, <1>16, <1>17, <4>2
      <4>. QED  BY <1>20, <4>1, <4>3
    <3>3. datetime_add_minutes(at, minutes)
            = AtMinute(day + days + (sum \div 1440), sum % 1440, second, hundredths)
      BY <1>6, <1>12, <1>13, <1>14, <1>25, <2>1 DEF datetime_add_minutes, DayOf, AtMinute
    <3>. QED  BY <2>3, <3>1, <3>2, <3>3
  <2>5. Comes(datetime_add_minutes(at, minutes), total, second, hundredths)
    BY <1>23, <2>4
  <2>. QED  BY <1>6, <1>19, <2>5
<1>. QED  BY <1>24, <1>25

\* The moment is the start and the minutes added since, its seconds and hundredths as they were.
Reckoning ==
  /\ Proper(start) /\ Proper(moment)
  /\ elapsed \in Int
  /\ MinutesOf(moment) = MinutesOf(start) + elapsed
  /\ moment[2][3] = start[2][3] /\ moment[2][4] = start[2][4]

\* The start is a proper moment,
LEMMA ReckoningStarts == CalendarInit => Reckoning
<1>. SUFFICES ASSUME CalendarInit PROVE Reckoning
  OBVIOUS
<1>1. PICK from \in Starts : start = datetime_set_values(from[1], from[2], from[3], from[4], from[5], 30, 0)
  BY DEF CalendarInit
<1>2. /\ from[1] \in 1900 .. LastYear /\ from[2] \in 1 .. 12 /\ from[3] \in 1 .. 31
      /\ from[4] \in 0 .. 23 /\ from[5] \in 0 .. 59
  BY CalendarAssumption
<1>3. PICK y, m, d : y = from[1] /\ m = from[2] /\ d = from[3]
  OBVIOUS
<1>4. PICK hour, minute : hour = from[4] /\ minute = from[5]
  OBVIOUS
<1>5. datetime_ymd_is_valid(y, m, d)
  BY <1>3, CalendarAssumption
<1>6. ValidDay(y, m, d)
  BY <1>2, <1>3, <1>5 DEF ValidDay, datetime_ymd_is_valid
<1>7. start = <<datetime_set_date(<<y, m, d>>), <<hour, minute, 30, 0>>>>
  BY <1>1, <1>3, <1>4 DEF datetime_set_values
<1>8. PICK second, hundredths : second = 30 /\ hundredths = 0
  OBVIOUS
<1>9. hour \in 0 .. 23 /\ minute \in 0 .. 59 /\ second \in 0 .. 59 /\ hundredths \in 0 .. 99
  BY <1>2, <1>4, <1>8
<1>10. start = <<datetime_set_date(<<y, m, d>>), <<hour, minute, second, hundredths>>>>
  BY <1>7, <1>8
<1>11. IsMoment(start, days_since_epoch(y, m, d), hour, minute, second, hundredths)
  <2>1. OfTheClock(hour, minute, second, hundredths)
    BY <1>9, Zenon DEF OfTheClock
  <2>. QED  BY <1>6, <1>10, <2>1, MomentFields, Zenon
<1>12. Proper(start)
  BY <1>11 DEF IsMoment
<1>13. moment = start /\ elapsed = 0
  BY DEF CalendarInit
<1>14. MinutesOf(start) \in Int
  BY <1>12, WholeMinutes
<1>. QED  BY <1>12, <1>13, <1>14 DEF Reckoning

\* and every step leads from one to the next.
LEMMA ReckoningGoesOn ==
  ASSUME Reckoning, [CalendarNext]_calendarVars
  PROVE  Reckoning'
<1>1. ASSUME NEW minutes \in Steps, AddMinutes(minutes)
      PROVE  Reckoning'
  <2>1. minutes \in Int
    BY CalendarAssumption
  <2>2. MinutesOf(moment) = MinutesOf(start) + elapsed /\ elapsed \in Int
    BY DEF Reckoning
  <2>3. /\ DayOf(start) \in Int
        /\ MinutesOf(start) = 1440 * DayOf(start) + (60 * start[2][1] + start[2][2])
        /\ start[2][1] \in 0 .. 23 /\ start[2][2] \in 0 .. 59
    BY ProperFacts DEF Reckoning
  <2>4. 1440 * DayOf(start) + elapsed + minutes \in 0 .. (1440 * Begins(LastYear))
    <3>1. LastYear \in 1900 .. LastYear + 1
      BY CalendarAssumption
    <3>2. DaysOfYears[LastYear] = Begins(LastYear)
      BY <3>1, DaysOfYearsClosed DEF Begins
    <3>. QED  BY <1>1, <3>2 DEF AddMinutes, Reckonable, DayOf
  <2>5. Begins(LastYear) \in Int
    <3>1. LastYear \in Nat
      BY CalendarAssumption
    <3>. QED  BY <3>1, YearSizes
  <2>6. MinutesOf(moment) + minutes \in 0 .. 1440 * Begins(LastYear) + 1439
    <3>1. PICK base, in : base = 1440 * DayOf(start) /\ in = 60 * start[2][1] + start[2][2]
      OBVIOUS
    <3>2. base \in Int /\ in \in 0 .. 1439
      <4>1. PICK day, hour, minute : day = DayOf(start) /\ hour = start[2][1] /\ minute = start[2][2]
        OBVIOUS
      <4>2. day \in Int /\ hour \in 0 .. 23 /\ minute \in 0 .. 59
        BY <2>3, <4>1
      <4>3. base = 1440 * day /\ in = 60 * hour + minute
        BY <3>1, <4>1
      <4>. QED  BY <4>2, <4>3
    <3>3. MinutesOf(moment) = base + in + elapsed
      BY <2>2, <2>3, <3>1
    <3>4. base + elapsed + minutes \in 0 .. (1440 * Begins(LastYear))
      BY <2>4, <3>1
    <3>5. PICK top \in Int : top = 1440 * Begins(LastYear)
      BY <2>5
    <3>6. base + elapsed + minutes \in 0 .. top
      BY <3>4, <3>5
    <3>7. base + in + elapsed + minutes \in 0 .. top + 1439
      BY <2>1, <2>2, <3>2, <3>6
    <3>. QED  BY <3>3, <3>5, <3>7
  <2>7. Comes(datetime_add_minutes(moment, minutes), MinutesOf(moment) + minutes,
              moment[2][3], moment[2][4])
    <3>1. Proper(moment)
      BY DEF Reckoning
    <3>. QED  BY <2>1, <2>6, <3>1, AddedMinutes
  <2>8. Comes(moment', MinutesOf(start) + (elapsed + minutes), start[2][3], start[2][4])
    <3>1. MinutesOf(moment) + minutes = MinutesOf(start) + (elapsed + minutes)
      <4>1. PICK then, now : then = MinutesOf(start) /\ now = MinutesOf(moment)
        OBVIOUS
      <4>2. then \in Int
        BY <4>1, WholeMinutes DEF Reckoning
      <4>3. now + minutes = then + (elapsed + minutes)
        BY <2>1, <2>2, <4>1, <4>2
      <4>. QED  BY <4>1, <4>3
    <3>. QED  BY <1>1, <2>7, <3>1 DEF Reckoning, AddMinutes
  <2>9. start' = start /\ elapsed' = elapsed + minutes
    BY <1>1 DEF AddMinutes
  <2>10. Proper(start') /\ Proper(moment') /\ elapsed' \in Int
    BY <2>1, <2>2, <2>8, <2>9 DEF Reckoning, Comes
  <2>11. MinutesOf(moment') = MinutesOf(start') + elapsed'
    BY <2>8, <2>9 DEF Comes
  <2>12. moment'[2][3] = start'[2][3] /\ moment'[2][4] = start'[2][4]
    BY <2>8, <2>9 DEF Comes
  <2>. QED  BY <2>10, <2>11, <2>12 DEF Reckoning, Proper, MinutesOf, DayOf
<1>2. CASE StartAgain
  <2>1. moment' = start /\ elapsed' = 0 /\ start' = start
    BY <1>2 DEF StartAgain
  <2>2. MinutesOf(start) \in Int
    BY WholeMinutes DEF Reckoning
  <2>. QED  BY <2>1, <2>2 DEF Reckoning, Proper, MinutesOf, DayOf
<1>3. CASE UNCHANGED calendarVars
  BY <1>3 DEF Reckoning, calendarVars, Proper, MinutesOf, DayOf
<1>. QED  BY SMTT(40), <1>1, <1>2, <1>3 DEF CalendarNext

\* The moment is always the start and the minutes added since.
LEMMA ReckoningHolds == CalendarSpec => []Reckoning
<1>1. CalendarInit => Reckoning
  BY ReckoningStarts
<1>2. Reckoning /\ [CalendarNext]_calendarVars => Reckoning'
  BY ReckoningGoesOn
<1>. QED  BY <1>1, <1>2, PTL DEF CalendarSpec

\* The least of a set.
LEMMA LeastIs ==
  ASSUME NEW S \in SUBSET Int, NEW k \in S, \A j \in S : k <= j
  PROVE  Min(S) = k
<1>1. Min(S) \in S /\ \A j \in S : Min(S) <= j
  BY DEF Min
<1>2. Min(S) \in Int /\ k \in Int
  BY <1>1
<1>3. Min(S) <= k /\ k <= Min(S)
  BY <1>1
<1>. QED  BY <1>2, <1>3

\* Field k is the first that differs and is not in doubt.
DiffersFirst(one, other, doubt, n, k) ==
  /\ n \in Nat /\ DOMAIN one = 1 .. n /\ k \in 1 .. n
  /\ one[k] # other[k] /\ doubt[k] \notin {one[k], other[k]}
  /\ \A j \in 1 .. n : j < k => one[j] = other[j]

\* The fields in front of the first that differs do not count.
LEMMA DifferHere ==
  ASSUME NEW one, NEW other, NEW doubt, NEW n, NEW k, DiffersFirst(one, other, doubt, n, k)
  PROVE  FirstDifference(one, other, doubt) = one[k] - other[k]
<1>. DEFINE differs == {i \in DOMAIN one : one[i] # other[i] /\ doubt[i] \notin {one[i], other[i]}}
<1>1. k \in differs /\ differs \in SUBSET Int
  BY DEF DiffersFirst
<1>2. \A j \in differs : k <= j
  BY DEF DiffersFirst
<1>3. Min(differs) = k
  BY <1>1, <1>2, LeastIs
<1>4. differs # {}
  BY <1>1
<1>. QED  BY <1>3, <1>4, Zenon DEF FirstDifference

\* Fields that agree or are in doubt do not differ.
LEMMA NoDifference ==
  ASSUME NEW one, NEW other, NEW doubt,
         \A j \in DOMAIN one : one[j] = other[j] \/ doubt[j] \in {one[j], other[j]}
  PROVE  FirstDifference(one, other, doubt) = 0
<1>1. {i \in DOMAIN one : one[i] # other[i] /\ doubt[i] \notin {one[i], other[i]}} = {}
  OBVIOUS
<1>. QED  BY <1>1, Zenon DEF FirstDifference

\* Three fields, none of them the one that stands for any.
InThree(y, m, d, v, n, e) ==
  IF y # v THEN y - v ELSE IF m # n THEN m - n ELSE IF d # e THEN d - e ELSE 0

\* Three fields are compared one after the other.
LEMMA ThreeFields ==
  ASSUME NEW y \in Nat, NEW m \in Nat, NEW d \in Nat, NEW v \in Nat, NEW n \in Nat, NEW e \in Nat,
         NEW doubt, doubt[1] \notin {y, v}, doubt[2] \notin {m, n}, doubt[3] \notin {d, e}
  PROVE  FirstDifference(<<y, m, d>>, <<v, n, e>>, doubt) = InThree(y, m, d, v, n, e)
<1>1. PICK one : one = <<y, m, d>>
  OBVIOUS
<1>2. PICK other : other = <<v, n, e>>
  OBVIOUS
<1>3. /\ DOMAIN one = 1 .. 3 /\ one[1] = y /\ one[2] = m /\ one[3] = d
      /\ other[1] = v /\ other[2] = n /\ other[3] = e
  BY <1>1, <1>2
<1>4. CASE y # v
  <2>1. \A j \in 1 .. 3 : j < 1 => one[j] = other[j]
    OBVIOUS
  <2>2. FirstDifference(one, other, doubt) = one[1] - other[1]
    <3>1. DiffersFirst(one, other, doubt, 3, 1)
      BY <1>3, <1>4, <2>1 DEF DiffersFirst
    <3>. QED  BY <3>1, DifferHere
  <2>. QED  BY <1>1, <1>2, <1>3, <1>4, <2>2 DEF InThree
<1>5. CASE y = v /\ m # n
  <2>1. \A j \in 1 .. 3 : j < 2 => one[j] = other[j]
    BY <1>3, <1>5
  <2>2. FirstDifference(one, other, doubt) = one[2] - other[2]
    <3>1. DiffersFirst(one, other, doubt, 3, 2)
      BY <1>3, <1>5, <2>1 DEF DiffersFirst
    <3>. QED  BY <3>1, DifferHere
  <2>. QED  BY <1>1, <1>2, <1>3, <1>5, <2>2 DEF InThree
<1>6. CASE y = v /\ m = n /\ d # e
  <2>1. \A j \in 1 .. 3 : j < 3 => one[j] = other[j]
    BY <1>3, <1>6
  <2>2. FirstDifference(one, other, doubt) = one[3] - other[3]
    <3>1. DiffersFirst(one, other, doubt, 3, 3)
      BY <1>3, <1>6, <2>1 DEF DiffersFirst
    <3>. QED  BY <3>1, DifferHere
  <2>. QED  BY <1>1, <1>2, <1>3, <1>6, <2>2 DEF InThree
<1>7. CASE y = v /\ m = n /\ d = e
  <2>1. \A j \in DOMAIN one : one[j] = other[j]
    BY <1>3, <1>7
  <2>2. FirstDifference(one, other, doubt) = 0
    BY <2>1, NoDifference
  <2>. QED  BY <1>1, <1>2, <1>7, <2>2 DEF InThree
<1>. QED  BY <1>4, <1>5, <1>6, <1>7

\* A date by its fields, none of which is one that stands for any.
IsDay(date, y, m, d) ==
  Day(date) = <<y, m, d>>

\* The first three fields of a proper date.
LEMMA DayFields ==
  ASSUME NEW at, Proper(at)
  PROVE  IsDay(at[1], at[1][1], at[1][2], at[1][3])
<1>1. PICK y, m, d : y = at[1][1] /\ m = at[1][2] /\ d = at[1][3]
  OBVIOUS
<1>2. PICK date : date = at[1]
  OBVIOUS
<1>3. PICK w : w = (days_since_epoch(y, m, d) % 7) + 1
  OBVIOUS
<1>4. IsDate(datetime_set_date(<<y, m, d>>), y, m, d, (days_since_epoch(y, m, d) % 7) + 1)
  BY DateFields
<1>5. date = datetime_set_date(<<y, m, d>>)
  BY <1>1, <1>2, Zenon DEF Proper
<1>6. IsDate(date, y, m, d, w)
  BY <1>3, <1>4, <1>5
<1>7. PICK S : date \in Seq(S)
  BY <1>6, Zenon DEF IsDate
<1>8. Len(date) = 4 /\ date[1] = y /\ date[2] = m /\ date[3] = d
  BY <1>6, Zenon DEF IsDate
<1>9. SubSeq(date, 1, 3) = <<y, m, d>>
  <2>1. PICK sub : sub = SubSeq(date, 1, 3)
    OBVIOUS
  <2>2. sub \in Seq(S) /\ Len(sub) = 3 /\ sub[1] = y /\ sub[2] = m /\ sub[3] = d
    <3>1. \A i \in 1 .. 3 : date[i] \in S
      BY <1>7, <1>8
    <3>2. /\ SubSeq(date, 1, 3) \in Seq(S)
          /\ Len(SubSeq(date, 1, 3)) = 3
          /\ \A i \in 1 .. 3 : SubSeq(date, 1, 3)[i] = date[i]
      BY <3>1, SubSeqProperties
    <3>. QED  BY <1>8, <2>1, <3>2
  <2>3. sub = <<y, m, d>>
    <3>1. <<y, m, d>> \in Seq({y, m, d}) /\ Len(<<y, m, d>>) = 3
      OBVIOUS
    <3>2. \A i \in 1 .. 3 : sub[i] = <<y, m, d>>[i]
      BY <2>2
    <3>. QED  BY <2>2, <3>1, <3>2
  <2>. QED  BY <2>1, <2>3
<1>. QED  BY <1>1, <1>2, <1>9, Zenon DEF IsDay, Day

\* The fields of a proper date are numbers below those that stand for any.
DayRanges(y, m, d) == y \in 1900 .. 2154 /\ m \in 1 .. 12 /\ d \in 1 .. 31

\* A valid day has no field that stands for any.
LEMMA ProperRanges ==
  ASSUME NEW y, NEW m, NEW d, ValidDay(y, m, d)
  PROVE  DayRanges(y, m, d)
<1>1. y \in Nat /\ m \in 1 .. 12 /\ y \in 1900 .. 2154
  BY CalendarAssumption DEF ValidDay
<1>2. datetime_month_days(y, m) \in 28 .. 31
  <2>1. y \in Nat
    BY <1>1
  <2>2. m \in 1 .. 12
    BY <1>1
  <2>3. m = 1 \/ m = 2 \/ m = 3 \/ m = 4 \/ m = 5 \/ m = 6
          \/ m = 7 \/ m = 8 \/ m = 9 \/ m = 10 \/ m = 11 \/ m = 12
    BY <2>2
  <2>4. LeapDay(y) \in 0 .. 1
    BY DEF LeapDay
  <2>. QED  BY <2>1, <2>3, <2>4, MonthLengths
<1>. QED  BY <1>1, <1>2 DEF ValidDay, DayRanges

\* Both comparisons of dates go by year, month and day.
LEMMA DatesCompared ==
  ASSUME NEW at, NEW other, Proper(at), Proper(other)
  PROVE  /\ datetime_compare_date(at[1], other[1])
              = InThree(at[1][1], at[1][2], at[1][3], other[1][1], other[1][2], other[1][3])
         /\ datetime_wildcard_compare_date(at[1], other[1])
              = InThree(at[1][1], at[1][2], at[1][3], other[1][1], other[1][2], other[1][3])
<1>1. PICK y, m, d : y = at[1][1] /\ m = at[1][2] /\ d = at[1][3]
  OBVIOUS
<1>2. PICK v, n, e : v = other[1][1] /\ n = other[1][2] /\ e = other[1][3]
  OBVIOUS
<1>3. ValidDay(y, m, d) /\ ValidDay(v, n, e)
  BY <1>1, <1>2 DEF Proper
<1>4. DayRanges(y, m, d) /\ DayRanges(v, n, e)
  BY <1>3, ProperRanges
<1>5. Day(at[1]) = <<y, m, d>> /\ Day(other[1]) = <<v, n, e>>
  BY <1>1, <1>2, DayFields DEF IsDay
<1>6. y \in Nat /\ m \in Nat /\ d \in Nat /\ v \in Nat /\ n \in Nat /\ e \in Nat
  BY <1>4 DEF DayRanges
<1>7. FirstDifference(<<y, m, d>>, <<v, n, e>>, NoDoubt) = InThree(y, m, d, v, n, e)
  <2>1. PICK doubt : doubt = NoDoubt
    OBVIOUS
  <2>2. doubt[1] \notin {y, v} /\ doubt[2] \notin {m, n} /\ doubt[3] \notin {d, e}
    BY <1>6, <2>1 DEF NoDoubt
  <2>. QED  BY <1>6, <2>1, <2>2, ThreeFields
<1>8. FirstDifference(<<y, m, d>>, <<v, n, e>>, DateDoubt) = InThree(y, m, d, v, n, e)
  <2>1. PICK doubt : doubt = DateDoubt
    OBVIOUS
  <2>2. doubt[1] \notin {y, v} /\ doubt[2] \notin {m, n} /\ doubt[3] \notin {d, e}
    BY <1>4, <2>1 DEF DateDoubt, DayRanges
  <2>. QED  BY <1>6, <2>1, <2>2, ThreeFields
<1>. QED  BY <1>1, <1>2, <1>5, <1>7, <1>8 DEF datetime_compare_date, datetime_wildcard_compare_date

\* Days in the order of their dates.
LEMMA DayOrder ==
  ASSUME NEW y, NEW m, NEW d, NEW v, NEW n, NEW e, ValidDay(y, m, d), ValidDay(v, n, e),
         y < v \/ (y = v /\ m < n) \/ (y = v /\ m = n /\ d < e)
  PROVE  days_since_epoch(y, m, d) < days_since_epoch(v, n, e)
<1>1. y \in Nat /\ v \in Nat /\ m \in 1 .. 12 /\ n \in 1 .. 12
  BY CalendarAssumption DEF ValidDay
<1>2. /\ Begins(y) \in Int /\ Begins(v) \in Int /\ YearDays(y) \in Nat /\ YearDays(v) \in Nat
      /\ ClosedBefore(y, m) \in Nat /\ ClosedBefore(v, n) \in Nat
      /\ datetime_month_days(y, m) \in Nat /\ datetime_month_days(v, n) \in Nat
  <2>1. Begins(y) \in Int /\ Begins(v) \in Int /\ YearDays(y) \in Nat /\ YearDays(v) \in Nat
    BY <1>1, YearSizes
  <2>. QED  BY <1>1, <2>1, MonthSizes
<1>3. d \in Int /\ e \in Int /\ 1 <= e /\ d <= datetime_month_days(y, m)
  BY <1>2 DEF ValidDay
<1>4. PICK before : before = ClosedBefore(y, m) + d - 1
  OBVIOUS
<1>5. PICK until : until = ClosedBefore(v, n) + e - 1
  OBVIOUS
<1>6. /\ days_since_epoch(y, m, d) = Begins(y) + before
      /\ before \in 0 .. YearDays(y) - 1
  BY <1>2, <1>3, <1>4, DayNumber
<1>7. /\ days_since_epoch(v, n, e) = Begins(v) + until
      /\ until \in 0 .. YearDays(v) - 1
  BY <1>2, <1>3, <1>5, DayNumber
<1>8. CASE y < v
  <2>1. Begins(y) + YearDays(y) <= Begins(v)
    BY <1>1, <1>8, YearsInOrder
  <2>. QED  BY <1>2, <1>6, <1>7, <2>1
<1>9. CASE y = v /\ m < n
  <2>1. ClosedBefore(y, m) + datetime_month_days(y, m) <= ClosedBefore(y, n)
    BY <1>1, <1>9, MonthsInOrder
  <2>2. before < until
    BY <1>2, <1>3, <1>4, <1>5, <1>9, <2>1
  <2>3. before \in Int /\ until \in Int
    BY <1>6, <1>7
  <2>. QED  BY <1>2, <1>6, <1>7, <1>9, <2>2, <2>3
<1>10. CASE y = v /\ m = n /\ d < e
  <2>1. before < until
    BY <1>2, <1>3, <1>4, <1>5, <1>10
  <2>2. before \in Int /\ until \in Int
    BY <1>6, <1>7
  <2>. QED  BY <1>2, <1>6, <1>7, <1>10, <2>1, <2>2
<1>. QED  BY <1>8, <1>9, <1>10

\* The comparison of two dates says which day is the earlier.
Tells(way, days, others) ==
  /\ way \in Int
  /\ way < 0 => days < others
  /\ way > 0 => others < days
  /\ way = 0 => days = others

\* The comparison of two dates tells which day is the earlier,
LEMMA DatesTell ==
  ASSUME NEW at, NEW other, Proper(at), Proper(other)
  PROVE  Tells(datetime_compare_date(at[1], other[1]), DayOf(at), DayOf(other))
<1>1. PICK y, m, d : y = at[1][1] /\ m = at[1][2] /\ d = at[1][3]
  OBVIOUS
<1>2. PICK v, n, e : v = other[1][1] /\ n = other[1][2] /\ e = other[1][3]
  OBVIOUS
<1>3. ValidDay(y, m, d) /\ ValidDay(v, n, e)
  BY <1>1, <1>2 DEF Proper
<1>4. DayRanges(y, m, d) /\ DayRanges(v, n, e)
  BY <1>3, ProperRanges
<1>5. y \in Int /\ m \in Int /\ d \in Int /\ v \in Int /\ n \in Int /\ e \in Int
  BY <1>4 DEF DayRanges
<1>6. PICK way : way = InThree(y, m, d, v, n, e)
  OBVIOUS
<1>7. /\ way \in Int
      /\ way < 0 => y < v \/ (y = v /\ m < n) \/ (y = v /\ m = n /\ d < e)
      /\ way > 0 => v < y \/ (v = y /\ n < m) \/ (v = y /\ n = m /\ e < d)
      /\ way = 0 => y = v /\ m = n /\ d = e
  BY <1>5, <1>6 DEF InThree
<1>8. way < 0 => days_since_epoch(y, m, d) < days_since_epoch(v, n, e)
  BY <1>3, <1>7, DayOrder
<1>9. way > 0 => days_since_epoch(v, n, e) < days_since_epoch(y, m, d)
  BY <1>3, <1>7, DayOrder
<1>10. way = 0 => days_since_epoch(y, m, d) = days_since_epoch(v, n, e)
  BY <1>7
<1>11. datetime_compare_date(at[1], other[1]) = way
  BY <1>1, <1>2, <1>6, DatesCompared
<1>12. DayOf(at) = days_since_epoch(y, m, d) /\ DayOf(other) = days_since_epoch(v, n, e)
  BY <1>1, <1>2 DEF DayOf
<1>. QED  BY <1>7, <1>8, <1>9, <1>10, <1>11, <1>12 DEF Tells

\* The comparison of two times that differ at most in the hour and the minute.
LEMMA TimesTell ==
  ASSUME NEW at, NEW other, Proper(at), Proper(other),
         at[2][3] = other[2][3], at[2][4] = other[2][4]
  PROVE  Tells(datetime_compare_time(at[2], other[2]), 60 * at[2][1] + at[2][2],
               60 * other[2][1] + other[2][2])
<1>1. PICK h, m : h = at[2][1] /\ m = at[2][2]
  OBVIOUS
<1>2. PICK k, n : k = other[2][1] /\ n = other[2][2]
  OBVIOUS
<1>3. h \in 0 .. 23 /\ m \in 0 .. 59 /\ k \in 0 .. 23 /\ n \in 0 .. 59
  BY <1>1, <1>2, ProperFacts
<1>4. PICK one, time : one = at[2] /\ time = other[2]
  OBVIOUS
<1>5. one[1] = h /\ one[2] = m /\ time[1] = k /\ time[2] = n /\ one[3] = time[3] /\ one[4] = time[4]
  BY <1>1, <1>2, <1>4
<1>6. DOMAIN one = 1 .. 4
  <2>1. one = <<one[1], one[2], one[3], one[4]>>
    BY <1>4 DEF Proper
  <2>. QED  BY <2>1
<1>7. NoDoubt[1] \notin {h, k} /\ NoDoubt[2] \notin {m, n}
  BY <1>3 DEF NoDoubt
<1>8. PICK way : way = FirstDifference(one, time, NoDoubt)
  OBVIOUS
<1>9. ASSUME Tells(way, 60 * h + m, 60 * k + n)
       PROVE  Tells(datetime_compare_time(at[2], other[2]), 60 * at[2][1] + at[2][2],
                    60 * other[2][1] + other[2][2])
  BY <1>1, <1>2, <1>4, <1>8, <1>9 DEF datetime_compare_time
<1>10. CASE h # k
  <2>1. DiffersFirst(one, time, NoDoubt, 4, 1)
    BY <1>5, <1>6, <1>7, <1>10 DEF DiffersFirst
  <2>2. way = h - k
    BY <1>5, <1>8, <2>1, DifferHere
  <2>3. Tells(way, 60 * h + m, 60 * k + n)
    BY <1>3, <1>10, <2>2 DEF Tells
  <2>. QED  BY <1>9, <2>3
<1>11. CASE h = k /\ m # n
  <2>1. DiffersFirst(one, time, NoDoubt, 4, 2)
    BY <1>5, <1>6, <1>7, <1>11 DEF DiffersFirst
  <2>2. way = m - n
    BY <1>5, <1>8, <2>1, DifferHere
  <2>3. Tells(way, 60 * h + m, 60 * k + n)
    BY <1>3, <1>11, <2>2 DEF Tells
  <2>. QED  BY <1>9, <2>3
<1>12. CASE h = k /\ m = n
  <2>1. \A j \in DOMAIN one : one[j] = time[j]
    BY <1>5, <1>6, <1>12
  <2>2. way = 0
    BY <1>8, <2>1, NoDifference
  <2>3. Tells(way, 60 * h + m, 60 * k + n)
    BY <1>3, <1>12, <2>2 DEF Tells
  <2>. QED  BY <1>9, <2>3
<1>. QED  BY <1>10, <1>11, <1>12

\* and that of two moments which is the earlier by the minute.
LEMMA MomentsTell ==
  ASSUME NEW at, NEW other, Proper(at), Proper(other),
         at[2][3] = other[2][3], at[2][4] = other[2][4]
  PROVE  Tells(datetime_compare(at, other), MinutesOf(at), MinutesOf(other))
<1>1. PICK day, date : day = DayOf(at) /\ date = DayOf(other)
  OBVIOUS
<1>2. PICK h, m : h = at[2][1] /\ m = at[2][2]
  OBVIOUS
<1>3. PICK k, n : k = other[2][1] /\ n = other[2][2]
  OBVIOUS
<1>4. /\ day \in Int /\ date \in Int
      /\ h \in 0 .. 23 /\ m \in 0 .. 59 /\ k \in 0 .. 23 /\ n \in 0 .. 59
  BY <1>1, <1>2, <1>3, ProperFacts
<1>5. PICK now, then : now = 60 * h + m /\ then = 60 * k + n
  OBVIOUS
<1>6. now \in 0 .. 1439 /\ then \in 0 .. 1439
  BY <1>4, <1>5
<1>7. MinutesOf(at) = 1440 * day + now /\ MinutesOf(other) = 1440 * date + then
  BY <1>1, <1>2, <1>3, <1>5, ProperFacts
<1>8. PICK days : days = datetime_compare_date(at[1], other[1])
  OBVIOUS
<1>9. Tells(days, day, date)
  BY <1>1, <1>8, DatesTell
<1>10. PICK time : time = datetime_compare_time(at[2], other[2])
  OBVIOUS
<1>11. Tells(time, now, then)
  BY <1>2, <1>3, <1>5, <1>10, TimesTell
<1>12. Tells(IF days # 0 THEN days ELSE time, 1440 * day + now, 1440 * date + then)
  BY <1>4, <1>6, <1>9, <1>11 DEF Tells
<1>13. datetime_compare(at, other) = IF days # 0 THEN days ELSE time
  BY <1>8, <1>10 DEF datetime_compare
<1>. QED  BY <1>7, <1>12, <1>13

\* A proper moment is valid to the code.
LEMMA MomentIsValid ==
  ASSUME NEW at, Proper(at)
  PROVE  datetime_is_valid(at)
<1>1. datetime_ymd_is_valid(at[1][1], at[1][2], at[1][3])
  BY DayNumber DEF Proper
<1>2. datetime_time_is_valid(at[2])
  BY DEF Proper, datetime_time_is_valid
<1>. QED  BY <1>1, <1>2 DEF datetime_is_valid

\* The closed form counts the same days from another first one.
LEMMA ClosedDaysCount ==
  ASSUME NEW at, Proper(at)
  PROVE  ClosedDays(at[1]) = DayOf(at) + (Before(1900) + 307)
<1>1. PICK date : date = at[1]
  OBVIOUS
<1>2. PICK y, m, d : y = at[1][1] /\ m = at[1][2] /\ d = at[1][3]
  OBVIOUS
<1>3. ValidDay(y, m, d)
  BY <1>2 DEF Proper
<1>4. DayRanges(y, m, d)
  BY <1>3, ProperRanges
<1>5. y \in Nat /\ m \in 1 .. 12 /\ d \in Int
  BY <1>4 DEF DayRanges
<1>6. date[1] \in Nat /\ date[2] \in 1 .. 12 /\ date[3] \in Int
  BY <1>1, <1>2, <1>5
<1>7. ClosedDays(date) = Before(date[1]) + 306 + ClosedBefore(date[1], date[2]) + date[3]
  BY <1>6, ClosedDaysOf
<1>8. DayOf(at) = Begins(y) + ClosedBefore(y, m) + d - 1
  BY <1>2, <1>3, DayNumber DEF DayOf
<1>9. Before(y) \in Int /\ ClosedBefore(y, m) \in Nat
  BY <1>5, YearsFollow, MonthSizes
<1>10. PICK year \in Nat : year = 1900
  OBVIOUS
<1>11. Before(1900) \in Int
  BY <1>10, YearsFollow
<1>12. DayOf(at) = Before(y) - Before(1900) + ClosedBefore(y, m) + d - 1
  BY <1>8 DEF Begins
<1>13. ClosedDays(at[1]) = Before(y) + 306 + ClosedBefore(y, m) + d
  BY <1>1, <1>2, <1>7
<1>. QED  BY <1>5, <1>9, <1>11, <1>12, <1>13

\* Both counts of days agree on how far two days are apart.
LEMMA ClosedDaysApart ==
  ASSUME NEW at, NEW other, Proper(at), Proper(other)
  PROVE  ClosedDays(at[1]) - ClosedDays(other[1]) = DayOf(at) - DayOf(other)
<1>1. PICK same : same = Before(1900) + 307
  OBVIOUS
<1>2. same \in Int
  <2>1. PICK year \in Nat : year = 1900
    OBVIOUS
  <2>2. Before(1900) \in Int
    BY <2>1, YearsFollow
  <2>. QED  BY <1>1, <2>2
<1>3. ClosedDays(at[1]) = DayOf(at) + same /\ ClosedDays(other[1]) = DayOf(other) + same
  BY <1>1, ClosedDaysCount
<1>4. DayOf(at) \in Int /\ DayOf(other) \in Int
  BY ProperFacts
<1>. QED  BY <1>2, <1>3, <1>4

\* The weekday is that of the day number.
LEMMA WeekdayOf ==
  ASSUME NEW at, Proper(at)
  PROVE  at[1][4] = (DayOf(at) % 7) + 1
<1>1. PICK y, m, d : y = at[1][1] /\ m = at[1][2] /\ d = at[1][3]
  OBVIOUS
<1>2. IsDate(datetime_set_date(<<y, m, d>>), y, m, d, (days_since_epoch(y, m, d) % 7) + 1)
  BY DateFields
<1>3. at[1] = datetime_set_date(<<y, m, d>>)
  BY <1>1, Zenon DEF Proper
<1>4. at[1][4] = (days_since_epoch(y, m, d) % 7) + 1
  BY <1>2, <1>3, Zenon DEF IsDate
<1>. QED  BY <1>1, <1>4 DEF DayOf

\* Weekdays are as far apart as the days, but for whole weeks.
LEMMA WeekdaysApart ==
  ASSUME NEW day \in Int, NEW other \in Int
  PROVE  (((day % 7) + 1) - ((other % 7) + 1) - (day - other)) % 7 = 0
<1>1. PICK a, b : a = day \div 7 /\ b = other \div 7
  OBVIOUS
<1>2. PICK r, s : r = day % 7 /\ s = other % 7
  OBVIOUS
<1>3. a \in Int /\ b \in Int /\ r \in 0 .. 6 /\ s \in 0 .. 6 /\ day = 7 * a + r /\ other = 7 * b + s
  BY <1>1, <1>2
<1>4. ((r + 1) - (s + 1) - (day - other)) = 7 * (b - a)
  BY <1>3
<1>5. PICK n \in Int : n = b - a
  BY <1>3
<1>6. (7 * n) % 7 = 0
  OBVIOUS
<1>. QED  BY <1>2, <1>4, <1>5, <1>6

\* With the time left open only the days are compared.
LEMMA DaysAlone ==
  ASSUME NEW at, NEW other, Proper(at), Proper(other)
  PROVE  datetime_wildcard_compare(at, <<other[1], datetime_time_wildcard>>)
           = datetime_compare_date(at[1], other[1])
<1>1. PICK time : time = at[2]
  OBVIOUS
<1>2. DOMAIN time = 1 .. 4
  <2>1. time = <<time[1], time[2], time[3], time[4]>>
    BY <1>1 DEF Proper
  <2>. QED  BY <2>1
<1>3. \A j \in DOMAIN time : TimeDoubt[j] \in {time[j], datetime_time_wildcard[j]}
  BY <1>2 DEF TimeDoubt, datetime_time_wildcard
<1>4. FirstDifference(time, datetime_time_wildcard, TimeDoubt) = 0
  BY <1>3, NoDifference
<1>5. PICK way : way = datetime_compare_date(at[1], other[1])
  OBVIOUS
<1>6. datetime_wildcard_compare_date(at[1], other[1]) = way
  BY <1>5, DatesCompared
<1>. QED  BY <1>1, <1>4, <1>5, <1>6 DEF datetime_wildcard_compare, datetime_wildcard_compare_time

\* No field of a proper moment stands for any.
LEMMA NothingOpen ==
  ASSUME NEW at, Proper(at)
  PROVE  ~datetime_wildcard(at) /\ ~datetime_wildcard_present(at)
<1>1. DayRanges(at[1][1], at[1][2], at[1][3])
  BY ProperRanges DEF Proper
<1>2. at[1][1] # 2155 /\ ~(at[1][2] > 12) /\ ~(at[1][3] > 31)
  BY <1>1 DEF DayRanges
<1>3. \A n \in 1 .. 4 : at[2][n] # 255
  <2>1. at[2][1] # 255 /\ at[2][2] # 255 /\ at[2][3] # 255 /\ at[2][4] # 255
    BY ProperFacts
  <2>. QED  BY <2>1
<1>4. ~datetime_wildcard_present(at)
  BY <1>2, <1>3 DEF datetime_wildcard_present
<1>5. ~datetime_wildcard(at)
  <2>1. CASE datetime_wildcard(at)
    <3>1. at[1] = datetime_date_wildcard
      BY <2>1 DEF datetime_wildcard
    <3>2. at[1][1] = 2155
      BY <3>1 DEF datetime_date_wildcard
    <3>. QED  BY <1>2, <3>2
  <2>. QED  BY <2>1
<1>. QED  BY <1>4, <1>5

\* The day of the year leads back to the date.
LEMMA DayOfYearAndBack ==
  ASSUME NEW at, Proper(at)
  PROVE  datetime_day_of_year_into_date(day_of_year(at[1][1], at[1][2], at[1][3]), at[1][1]) = at[1]
<1>1. PICK y, m, d : y = at[1][1] /\ m = at[1][2] /\ d = at[1][3]
  OBVIOUS
<1>2. day_of_year_into_md(day_of_year(y, m, d), y) = <<m, d>>
  BY <1>1, DayOfYearApart DEF Proper
<1>3. <<y>> \o <<m, d>> = <<y, m, d>>
  <2>1. PICK one : one = <<y>>
    OBVIOUS
  <2>2. PICK two : two = <<m, d>>
    OBVIOUS
  <2>3. PICK three : three = <<y, m, d>>
    OBVIOUS
  <2>. DEFINE S == {y, m, d}
  <2>4. one \in Seq(S) /\ Len(one) = 1 /\ one[1] = y
    BY <2>1
  <2>5. two \in Seq(S) /\ Len(two) = 2 /\ two[1] = m /\ two[2] = d
    BY <2>2
  <2>6. three \in Seq(S) /\ Len(three) = 3 /\ three[1] = y /\ three[2] = m /\ three[3] = d
    BY <2>3
  <2>. HIDE DEF S
  <2>7. /\ one \o two \in Seq(S) /\ Len(one \o two) = 3
        /\ (one \o two)[1] = y /\ (one \o two)[2] = m /\ (one \o two)[3] = d
    BY SMTT(40), <2>4, <2>5, ConcatProperties
  <2>8. \A i \in 1 .. 3 : (one \o two)[i] = three[i]
    BY <2>6, <2>7
  <2>9. one \o two = three
    BY <2>6, <2>7, <2>8, SeqEqual
  <2>. QED  BY <2>1, <2>2, <2>3, <2>9
<1>4. datetime_day_of_year_into_date(day_of_year(y, m, d), y) = datetime_set_date(<<y, m, d>>)
  BY <1>2, <1>3 DEF datetime_day_of_year_into_date
<1>. QED  BY <1>1, <1>4 DEF Proper

\* The seconds of the day are those of its minutes and the seconds left.
LEMMA SecondsOf ==
  ASSUME NEW at, Proper(at)
  PROVE  datetime_seconds_since_midnight(at[2])
           = 60 * datetime_minutes_since_midnight(at[2]) + at[2][3]
<1>1. PICK h, m, s : h = at[2][1] /\ m = at[2][2] /\ s = at[2][3]
  OBVIOUS
<1>2. h \in 0 .. 23 /\ m \in 0 .. 59 /\ s \in 0 .. 59
  BY <1>1, ProperFacts
<1>3. h * 3600 + m * 60 + s = 60 * (h * 60 + m) + s
  BY <1>2
<1>. QED  BY <1>1, <1>3 DEF datetime_seconds_since_midnight, datetime_minutes_since_midnight

\* What was reckoned is exact in every respect the property names.
LEMMA ReckoningIsExact ==
  ASSUME Reckoning
  PROVE  ReckonedExactly
<1>1. Proper(start) /\ Proper(moment) /\ elapsed \in Int
  BY DEF Reckoning
<1>2. /\ MinutesOf(moment) = MinutesOf(start) + elapsed
      /\ moment[2][3] = start[2][3] /\ moment[2][4] = start[2][4]
  BY DEF Reckoning
<1>3. datetime_is_valid(moment)
  BY <1>1, MomentIsValid
<1>4. PICK day, days : day = DayOf(start) /\ days = DayOf(moment)
  OBVIOUS
<1>5. day \in Int /\ days \in Int
  BY <1>1, <1>4, ProperFacts
<1>6. ClosedDays(moment[1]) - ClosedDays(start[1]) = days - day
  BY <1>1, <1>4, ClosedDaysApart
<1>7. ClosedMinutes(moment) = ClosedMinutes(start) + elapsed
  <2>1. PICK then, now : then = 60 * start[2][1] + start[2][2] /\ now = 60 * moment[2][1] + moment[2][2]
    OBVIOUS
  <2>2. then \in Int /\ now \in Int
    <3>1. start[2][1] \in Int /\ start[2][2] \in Int /\ moment[2][1] \in Int /\ moment[2][2] \in Int
      BY <1>1, ProperFacts
    <3>. QED  BY <2>1, <3>1
  <2>3. MinutesOf(start) = 1440 * day + then /\ MinutesOf(moment) = 1440 * days + now
    BY <1>1, <1>4, <2>1, ProperFacts
  <2>4. ClosedDays(start[1]) - ClosedDays(start[1]) = 0
    BY <1>1, <1>4, <1>5, ClosedDaysApart
  <2>5. ClosedMinutes(start) = then
    <3>1. start[2][1] \in Int /\ start[2][2] \in Int
      BY <1>1, ProperFacts
    <3>. QED  BY <2>1, <2>4, <3>1 DEF ClosedMinutes
  <2>6. ClosedMinutes(moment) = 1440 * (days - day) + now
    <3>1. moment[2][1] \in Int /\ moment[2][2] \in Int
      BY <1>1, ProperFacts
    <3>. QED  BY <1>5, <1>6, <2>1, <3>1 DEF ClosedMinutes
  <2>. QED  BY <1>1, <1>2, <1>5, <2>2, <2>3, <2>5, <2>6
<1>8. (moment[1][4] - start[1][4] - (ClosedDays(moment[1]) - ClosedDays(start[1]))) % 7 = 0
  <2>1. moment[1][4] = (days % 7) + 1 /\ start[1][4] = (day % 7) + 1
    BY <1>1, <1>4, WeekdayOf
  <2>. QED  BY <1>5, <1>6, <2>1, WeekdaysApart
<1>9. SignOf(datetime_compare(moment, start)) = SignOf(elapsed)
  <2>1. PICK way : way = datetime_compare(moment, start)
    OBVIOUS
  <2>2. Tells(way, MinutesOf(moment), MinutesOf(start))
    BY <1>1, <1>2, <2>1, MomentsTell
  <2>3. PICK now, then : now = MinutesOf(moment) /\ then = MinutesOf(start)
    OBVIOUS
  <2>4. then \in Int /\ now = then + elapsed
    BY <1>1, <1>2, <2>3, WholeMinutes
  <2>5. SignOf(way) = SignOf(elapsed)
    BY <1>1, <2>2, <2>3, <2>4 DEF Tells, SignOf
  <2>. QED  BY <2>1, <2>5
<1>10. datetime_wildcard_compare(moment, <<start[1], datetime_time_wildcard>>)
         = datetime_compare_date(moment[1], start[1])
  BY <1>1, DaysAlone
<1>11. ~datetime_wildcard(moment) /\ ~datetime_wildcard_present(moment)
  BY <1>1, NothingOpen
<1>12. datetime_day_of_year_into_date(day_of_year(moment[1][1], moment[1][2], moment[1][3]),
                                      moment[1][1]) = moment[1]
  BY <1>1, DayOfYearAndBack
<1>13. datetime_seconds_since_midnight(moment[2])
         = 60 * datetime_minutes_since_midnight(moment[2]) + start[2][3]
  BY <1>1, <1>2, SecondsOf
<1>. QED  BY <1>3, <1>7, <1>8, <1>9, <1>10, <1>11, <1>12, <1>13, Zenon DEF ReckonedExactly

(***************************************************************************)
(* Whatever minutes are added and taken away, from whatever start, as long  *)
(* as the days stay in the years looked at (which the code can tell from     *)
(* the year that stands for any, 2155): the date and time come to exactly   *)
(* that moment, in all that ReckonedExactly asks (datetime.c).              *)
(***************************************************************************)
THEOREM MinutesAreReckoned == CalendarSpec => []ReckonedExactly
<1>1. Reckoning => ReckonedExactly
  BY ReckoningIsExact
<1>. QED  BY <1>1, ReckoningHolds, PTL

-----------------------------------------------------------------------------
(***************************************************************************)
(* Numbers as octets.  Octet(v, k) is the octet of weight 256^k, Top(v, k)  *)
(* what is left of the number from that weight on, its sign included.      *)
(***************************************************************************)
Top(v, k)   == v \div 256^k
Octet(v, k) == Top(v, k) % 256
AsSigned(b) == IF b > 127 THEN b - 256 ELSE b

LEMMA OctetRange ==
  ASSUME NEW v \in Int
  PROVE  \A k \in 0 .. 3 : Top(v, k) \in Int /\ Octet(v, k) \in 0 .. 255
<1>1. 256^0 = 1 /\ 256^1 = 256 /\ 256^2 = 65536 /\ 256^3 = 16777216
  BY SMT
<1>2. /\ Top(v, 0) \in Int /\ Top(v, 1) \in Int /\ Top(v, 2) \in Int /\ Top(v, 3) \in Int
  BY <1>1, SMT DEF Top
<1>3. \A t \in Int : t % 256 \in 0 .. 255
  BY SMT
<1>4. \A k \in 0 .. 3 : k = 0 \/ k = 1 \/ k = 2 \/ k = 3
  BY SMT
<1>. QED  BY <1>2, <1>3, <1>4, ZenonT(60) DEF Octet

\* What encode_unsigned16 and the like write.
LEMMA BigIs ==
  ASSUME NEW v
  PROVE  /\ Big(v, 1) = <<Octet(v, 0)>>
         /\ Big(v, 2) = <<Octet(v, 1), Octet(v, 0)>>
         /\ Big(v, 3) = <<Octet(v, 2), Octet(v, 1), Octet(v, 0)>>
         /\ Big(v, 4) = <<Octet(v, 3), Octet(v, 2), Octet(v, 1), Octet(v, 0)>>
<1>1. \A n : Big(v, n) = [i \in 1 .. n |-> Octet(v, n - i)]
  BY Zenon DEF Big, Octet, Top
<1>3. Big(v, 1) = <<Octet(v, 0)>>
  <2>1. Big(v, 1) = [i \in 1 .. 1 |-> Octet(v, 1 - i)]
    BY <1>1, Zenon
  <2>. QED  BY <2>1, SMT
<1>4. Big(v, 2) = <<Octet(v, 1), Octet(v, 0)>>
  <2>1. Big(v, 2) = [i \in 1 .. 2 |-> Octet(v, 2 - i)]
    BY <1>1, Zenon
  <2>. QED  BY <2>1, SMT
<1>5. Big(v, 3) = <<Octet(v, 2), Octet(v, 1), Octet(v, 0)>>
  <2>1. Big(v, 3) = [i \in 1 .. 3 |-> Octet(v, 3 - i)]
    BY <1>1, Zenon
  <2>. QED  BY <2>1, SMT
<1>6. Big(v, 4) = <<Octet(v, 3), Octet(v, 2), Octet(v, 1), Octet(v, 0)>>
  <2>1. Big(v, 4) = [i \in 1 .. 4 |-> Octet(v, 4 - i)]
    BY <1>1, Zenon
  <2>. QED  BY <2>1, SMT
<1>. QED  BY <1>3, <1>4, <1>5, <1>6, Zenon

LEMMA BigOctets ==
  ASSUME NEW v \in Int, NEW n \in 1 .. 4
  PROVE  Big(v, n) \in Seq(0 .. 255) /\ Len(Big(v, n)) = n
<1>1. \A i \in 1 .. n : n - i \in 0 .. 3
  BY SMT
<1>2. \A i \in 1 .. n : Octet(v, n - i) \in 0 .. 255
  BY <1>1, OctetRange
<1>3. Big(v, n) = [i \in 1 .. n |-> Octet(v, n - i)]
  BY Zenon DEF Big, Octet, Top
<1>. QED  BY <1>2, <1>3, SMT

\* What decode_unsigned16 and the like read: the number, whatever its sign.
LEMMA JoinedIs ==
  ASSUME NEW v \in Int
  PROVE  /\ Joined(<<Top(v, 0)>>) = v
         /\ Joined(<<Top(v, 1), Octet(v, 0)>>) = v
         /\ Joined(<<Top(v, 2), Octet(v, 1), Octet(v, 0)>>) = v
         /\ Joined(<<Top(v, 3), Octet(v, 2), Octet(v, 1), Octet(v, 0)>>) = v
<1>. DEFINE Sum(a, b, c, d) == 16777216 * a + 65536 * b + 256 * c + d
<1>1. 256^0 = 1 /\ 256^1 = 256 /\ 256^2 = 65536 /\ 256^3 = 16777216
  BY SMT
<1>2. \A a \in Int : Joined(<<a>>) = a
  BY <1>1, SMT DEF Joined, Place
<1>3. \A a, b \in Int : Joined(<<a, b>>) = 256 * a + b
  BY <1>1, SMT DEF Joined, Place
<1>4. \A a, b, c \in Int : Joined(<<a, b, c>>) = 65536 * a + 256 * b + c
  BY <1>1, SMT DEF Joined, Place
<1>5. \A a, b, c, d \in Int :
        Joined(<<a, b, c, d>>) = Sum(a, b, c, d)
  BY <1>1, SMT DEF Joined, Place
<1>6. /\ Top(v, 0) \in Int /\ Top(v, 1) \in Int /\ Top(v, 2) \in Int /\ Top(v, 3) \in Int
      /\ Octet(v, 0) \in Int /\ Octet(v, 1) \in Int /\ Octet(v, 2) \in Int
  <2>1. 0 \in 0 .. 3 /\ 1 \in 0 .. 3 /\ 2 \in 0 .. 3 /\ 3 \in 0 .. 3
        /\ \A b \in 0 .. 255 : b \in Int
    BY SMT
  <2>. QED  BY <2>1, OctetRange, Zenon
<1>7. Top(v, 0) = v
  BY <1>1, SMT DEF Top
<1>8. v = 256 * Top(v, 1) + Octet(v, 0)
  BY <1>1, SMT DEF Top, Octet
<1>9. v = 65536 * Top(v, 2) + 256 * Octet(v, 1) + Octet(v, 0)
  BY <1>1, SMT DEF Top, Octet
<1>10. v = Sum(Top(v, 3), Octet(v, 2), Octet(v, 1), Octet(v, 0))
  BY <1>1, SMT DEF Top, Octet
<1>. HIDE DEF Sum
<1>11. Joined(<<Top(v, 1), Octet(v, 0)>>) = v
  BY <1>3, <1>6, <1>8, SMT
<1>12. Joined(<<Top(v, 2), Octet(v, 1), Octet(v, 0)>>) = v
  BY <1>4, <1>6, <1>9, SMT
<1>13. Joined(<<Top(v, 3), Octet(v, 2), Octet(v, 1), Octet(v, 0)>>) = v
  <2>1. \A c, d \in Int : Joined(<<Top(v, 3), Octet(v, 2), c, d>>)
                             = Sum(Top(v, 3), Octet(v, 2), c, d)
    BY <1>5, <1>6, Zenon
  <2>2. Joined(<<Top(v, 3), Octet(v, 2), Octet(v, 1), Octet(v, 0)>>)
          = Sum(Top(v, 3), Octet(v, 2), Octet(v, 1), Octet(v, 0))
    BY <1>6, <2>1, Zenon
  <2>. QED  BY <1>10, <2>2, Zenon
<1>14. Joined(<<Top(v, 0)>>) = v
  BY <1>2, <1>6, <1>7, SMT
<1>. QED  BY <1>11, <1>12, <1>13, <1>14, Zenon

\* Read back, a number that fits in n octets is itself.
LEMMA BigRead ==
  ASSUME NEW v \in Nat, NEW n \in 1 .. 4, v < 256^n
  PROVE  Joined(Big(v, n)) = v
<1>1. 256^0 = 1 /\ 256^1 = 256 /\ 256^2 = 65536 /\ 256^3 = 16777216 /\ 256^4 = 4294967296
  BY SMT
<1>2. v \in Int
  BY SMT
<1>3. CASE n = 1
  <2>1. v < 256
    BY <1>1, <1>3, SMT
  <2>2. Octet(v, 0) = Top(v, 0)
    BY <1>1, <2>1, SMT DEF Octet, Top
  <2>. QED  BY <1>2, <1>3, <2>2, BigIs, JoinedIs, Zenon
<1>4. CASE n = 2
  <2>1. v < 65536
    BY <1>1, <1>4, SMT
  <2>2. Octet(v, 1) = Top(v, 1)
    BY <1>1, <2>1, SMT DEF Octet, Top
  <2>. QED  BY <1>2, <1>4, <2>2, BigIs, JoinedIs, Zenon
<1>5. CASE n = 3
  <2>1. v < 16777216
    BY <1>1, <1>5, SMT
  <2>2. Octet(v, 2) = Top(v, 2)
    BY <1>1, <2>1, SMT DEF Octet, Top
  <2>. QED  BY <1>2, <1>5, <2>2, BigIs, JoinedIs, Zenon
<1>6. CASE n = 4
  <2>1. v < 4294967296
    BY <1>1, <1>6, SMT
  <2>2. Octet(v, 3) = Top(v, 3)
    BY <1>1, <2>1, SMT DEF Octet, Top
  <2>. QED  BY <1>2, <1>6, <2>2, BigIs, JoinedIs, Zenon
<1>7. n = 1 \/ n = 2 \/ n = 3 \/ n = 4
  BY SMT
<1>. QED  BY <1>3, <1>4, <1>5, <1>6, <1>7

LEMMA UnsignedRead ==
  ASSUME NEW v \in Nat, v < 256^4
  PROVE  /\ encode_bacnet_unsigned(v) \in Seq(0 .. 255)
         /\ Len(encode_bacnet_unsigned(v)) \in 1 .. 4
         /\ decode_unsigned(encode_bacnet_unsigned(v))
              = Decoded(Len(encode_bacnet_unsigned(v)), v)
<1>. DEFINE n == IF v < 256 THEN 1 ELSE IF v < 65536 THEN 2
                 ELSE IF v < 16777216 THEN 3 ELSE 4
<1>1. 256^1 = 256 /\ 256^2 = 65536 /\ 256^3 = 16777216
  BY SMT
<1>2. n \in 1 .. 4 /\ v < 256^n
  <2>1. CASE v < 256
    BY <1>1, <2>1, SMT
  <2>2. CASE ~(v < 256) /\ v < 65536
    BY <1>1, <2>2, SMT
  <2>3. CASE ~(v < 256) /\ ~(v < 65536) /\ v < 16777216
    BY <1>1, <2>3, SMT
  <2>4. CASE ~(v < 256) /\ ~(v < 65536) /\ ~(v < 16777216)
    BY <2>4, SMT
  <2>. QED  BY <2>1, <2>2, <2>3, <2>4, SMT
<1>3. encode_bacnet_unsigned(v) = Big(v, n)
  BY DEF encode_bacnet_unsigned
<1>. HIDE DEF n
<1>4. Joined(Big(v, n)) = v
  BY <1>2, BigRead
<1>5. v \in Int
  BY SMT
<1>6. Big(v, n) \in Seq(0 .. 255) /\ Len(Big(v, n)) = n
  BY <1>2, <1>5, BigOctets, Zenon
<1>. QED  BY <1>2, <1>3, <1>4, <1>6, Zenon DEF decode_unsigned

\* The first octet of a signed number, taken as a signed one, is the number from there on.
LEMMA SignFirst ==
  ASSUME NEW v \in Int
  PROVE  /\ v >= -128 /\ v < 128 => AsSigned(Octet(v, 0)) = Top(v, 0)
         /\ v >= -32768 /\ v < 32768 => AsSigned(Octet(v, 1)) = Top(v, 1)
         /\ v > -8388608 /\ v < 8388608 => AsSigned(Octet(v, 2)) = Top(v, 2)
         /\ -128 * 256^3 <= v /\ v < 128 * 256^3 => AsSigned(Octet(v, 3)) = Top(v, 3)
<1>1. 256^0 = 1 /\ 256^1 = 256 /\ 256^2 = 65536 /\ 256^3 = 16777216
  BY SMT
<1>2. \A t \in Int : -128 <= t /\ t <= 127 => AsSigned(t % 256) = t
  BY SMT DEF AsSigned
<1>3. Top(v, 0) \in Int /\ Top(v, 1) \in Int /\ Top(v, 2) \in Int /\ Top(v, 3) \in Int
  BY <1>1, SMT DEF Top
<1>4. v >= -128 /\ v < 128 => -128 <= Top(v, 0) /\ Top(v, 0) <= 127
  BY <1>1, SMT DEF Top
<1>5. v >= -32768 /\ v < 32768 => -128 <= Top(v, 1) /\ Top(v, 1) <= 127
  BY <1>1, SMT DEF Top
<1>6. v > -8388608 /\ v < 8388608 => -128 <= Top(v, 2) /\ Top(v, 2) <= 127
  BY <1>1, SMT DEF Top
<1>7. -2147483648 <= v /\ v < 2147483648 => -128 <= Top(v, 3) /\ Top(v, 3) <= 127
  BY <1>1, SMT DEF Top
<1>8. -128 * 256^3 = -2147483648 /\ 128 * 256^3 = 2147483648
  BY SMT
<1>. QED  BY <1>2, <1>3, <1>4, <1>5, <1>6, <1>7, <1>8, SMT DEF Octet

LEMMA SignedRead ==
  ASSUME NEW v \in Int, -128 * 256^3 <= v, v < 128 * 256^3
  PROVE  /\ encode_bacnet_signed(v) \in Seq(0 .. 255)
         /\ Len(encode_bacnet_signed(v)) \in 1 .. 4
         /\ decode_signed(encode_bacnet_signed(v))
              = Decoded(Len(encode_bacnet_signed(v)), v)
<1>. DEFINE Lifted(q) == [i \in DOMAIN q |-> IF i = 1 /\ q[i] > 127 THEN q[i] - 256 ELSE q[i]]
<1>1. \A q : decode_signed(q) = Decoded(Len(q), Joined(Lifted(q)))
  BY Zenon DEF decode_signed
<1>2. /\ \A a : Lifted(<<a>>) = <<AsSigned(a)>>
      /\ \A a, b : Lifted(<<a, b>>) = <<AsSigned(a), b>>
      /\ \A a, b, c : Lifted(<<a, b, c>>) = <<AsSigned(a), b, c>>
      /\ \A a, b, c, d : Lifted(<<a, b, c, d>>) = <<AsSigned(a), b, c, d>>
  BY SMT DEF AsSigned
<1>. HIDE DEF Lifted
<1>5. \E n \in 1 .. 4 : /\ encode_bacnet_signed(v) = Big(v, n)
                        /\ n = 1 => AsSigned(Octet(v, 0)) = Top(v, 0)
                        /\ n = 2 => AsSigned(Octet(v, 1)) = Top(v, 1)
                        /\ n = 3 => AsSigned(Octet(v, 2)) = Top(v, 2)
                        /\ n = 4 => AsSigned(Octet(v, 3)) = Top(v, 3)
  <2>. DEFINE In1 == v >= -128 /\ v < 128
              In2 == v >= -32768 /\ v < 32768
              In3 == v > -8388608 /\ v < 8388608
  <2>1. encode_bacnet_signed(v)
          = Big(v, IF In1 THEN 1 ELSE IF In2 THEN 2 ELSE IF In3 THEN 3 ELSE 4)
    BY DEF encode_bacnet_signed
  <2>3. /\ In1 => AsSigned(Octet(v, 0)) = Top(v, 0)
        /\ In2 => AsSigned(Octet(v, 1)) = Top(v, 1)
        /\ In3 => AsSigned(Octet(v, 2)) = Top(v, 2)
        /\ AsSigned(Octet(v, 3)) = Top(v, 3)
    BY SignFirst, SMT
  <2>. HIDE DEF In1, In2, In3
  <2>4. 1 \in 1 .. 4 /\ 2 \in 1 .. 4 /\ 3 \in 1 .. 4 /\ 4 \in 1 .. 4
    BY SMT
  <2>5. CASE In1
    <3>1. encode_bacnet_signed(v) = Big(v, 1)
      BY <2>1, <2>5, Zenon
    <3>. QED  BY <2>3, <2>4, <2>5, <3>1, SMT
  <2>6. CASE ~In1 /\ In2
    <3>1. encode_bacnet_signed(v) = Big(v, 2)
      BY <2>1, <2>6, Zenon
    <3>. QED  BY <2>3, <2>4, <2>6, <3>1, SMT
  <2>7. CASE ~In1 /\ ~In2 /\ In3
    <3>1. encode_bacnet_signed(v) = Big(v, 3)
      BY <2>1, <2>7, Zenon
    <3>. QED  BY <2>3, <2>4, <2>7, <3>1, SMT
  <2>8. CASE ~In1 /\ ~In2 /\ ~In3
    <3>1. encode_bacnet_signed(v) = Big(v, 4)
      BY <2>1, <2>8, Zenon
    <3>. QED  BY <2>3, <2>4, <2>8, <3>1, SMT
  <2>. QED  BY <2>5, <2>6, <2>7, <2>8, Zenon
<1>6. PICK n \in 1 .. 4 : /\ encode_bacnet_signed(v) = Big(v, n)
                          /\ n = 1 => AsSigned(Octet(v, 0)) = Top(v, 0)
                          /\ n = 2 => AsSigned(Octet(v, 1)) = Top(v, 1)
                          /\ n = 3 => AsSigned(Octet(v, 2)) = Top(v, 2)
                          /\ n = 4 => AsSigned(Octet(v, 3)) = Top(v, 3)
  BY <1>5
<1>7. n = 1 \/ n = 2 \/ n = 3 \/ n = 4
  BY SMT
<1>8. Joined(Lifted(Big(v, n))) = v
  <2>1. CASE n = 1
    <3>1. Big(v, n) = <<Octet(v, 0)>>
      BY <2>1, BigIs, Zenon
    <3>2. Lifted(Big(v, n)) = <<Top(v, 0)>>
      BY <1>2, <1>6, <2>1, <3>1, Zenon
    <3>. QED  BY <3>2, JoinedIs, Zenon
  <2>2. CASE n = 2
    <3>1. Big(v, n) = <<Octet(v, 1), Octet(v, 0)>>
      BY <2>2, BigIs, Zenon
    <3>2. Lifted(Big(v, n)) = <<Top(v, 1), Octet(v, 0)>>
      BY <1>2, <1>6, <2>2, <3>1, Zenon
    <3>. QED  BY <3>2, JoinedIs, Zenon
  <2>3. CASE n = 3
    <3>1. Big(v, n) = <<Octet(v, 2), Octet(v, 1), Octet(v, 0)>>
      BY <2>3, BigIs, Zenon
    <3>2. Lifted(Big(v, n)) = <<Top(v, 2), Octet(v, 1), Octet(v, 0)>>
      BY <1>2, <1>6, <2>3, <3>1, Zenon
    <3>. QED  BY <3>2, JoinedIs, Zenon
  <2>4. CASE n = 4
    <3>1. Big(v, n) = <<Octet(v, 3), Octet(v, 2), Octet(v, 1), Octet(v, 0)>>
      BY <2>4, BigIs, Zenon
    <3>a. \A c, d : Lifted(<<Octet(v, 3), Octet(v, 2), c, d>>)
                     = <<AsSigned(Octet(v, 3)), Octet(v, 2), c, d>>
      BY <1>2, Zenon
    <3>2. Lifted(Big(v, n)) = <<Top(v, 3), Octet(v, 2), Octet(v, 1), Octet(v, 0)>>
      BY <1>6, <2>4, <3>1, <3>a, Zenon
    <3>. QED  BY <3>2, JoinedIs, Zenon
  <2>. QED  BY <1>7, <2>1, <2>2, <2>3, <2>4
<1>9. Big(v, n) \in Seq(0 .. 255) /\ Len(Big(v, n)) = n
  BY <1>6, BigOctets, Zenon
<1>. QED  BY <1>1, <1>6, <1>8, <1>9, Zenon

-----------------------------------------------------------------------------
(***************************************************************************)
(* Octets one after the other.                                             *)
(***************************************************************************)
Octets255 == 0 .. 255
Message   == Seq(Octets255)

LEMMA Joining ==
  ASSUME NEW p \in Message, NEW q \in Message
  PROVE  /\ p \o q \in Message
         /\ Len(p \o q) = Len(p) + Len(q)
         /\ Len(p) \in Nat /\ Len(q) \in Nat
         /\ \A i \in 1 .. Len(p) + Len(q) :
              (p \o q)[i] = IF i <= Len(p) THEN p[i] ELSE q[i - Len(p)]
  BY ConcatProperties, LenProperties DEF Message

LEMMA Regrouping ==
  ASSUME NEW p \in Message, NEW q \in Message, NEW r \in Message
  PROVE  (p \o q) \o r = p \o (q \o r)
  BY SMTT(40), ConcatAssociative DEF Message

LEMMA One ==
  ASSUME NEW a \in Octets255
  PROVE  <<a>> \in Message /\ Len(<<a>>) = 1 /\ <<a>>[1] = a
  BY SMT DEF Message

LEMMA None == << >> \in Message /\ Len(<< >>) = 0
  BY EmptySeq DEF Message

LEMMA Slice ==
  ASSUME NEW p \in Message, NEW q \in Message, NEW r \in Message
  PROVE  SubSeq(p \o (q \o r), Len(p) + 1, Len(p) + Len(q)) = q
<1>1. Len(p) \in Nat /\ Len(q) \in Nat /\ Len(r) \in Nat
  BY Joining
<1>2. q \o r \in Message /\ Len(q \o r) = Len(q) + Len(r)
  BY Joining
<1>3. CASE Len(q) = 0
  <2>1. q = << >>
    BY <1>3, EmptySeq DEF Message
  <2>2. SubSeq(p \o (q \o r), Len(p) + 1, Len(p) + Len(q)) = << >>
    BY <1>1, <1>3, SubSeqEmpty, SMT
  <2>. QED  BY <2>1, <2>2
<1>4. CASE Len(q) # 0
  <2>1. /\ Len(p) + 1 \in Len(p) + 1 .. Len(p) + Len(q \o r)
        /\ Len(p) + Len(q) \in Len(p) + 1 .. Len(p) + Len(q \o r)
    BY <1>1, <1>2, <1>4, SMT
  <2>2. SubSeq(p \o (q \o r), Len(p) + 1, Len(p) + Len(q))
          = SubSeq(q \o r, (Len(p) + 1) - Len(p), (Len(p) + Len(q)) - Len(p))
    BY <1>2, <2>1, SubSeqOfConcat2 DEF Message
  <2>3. (Len(p) + 1) - Len(p) = 1 /\ (Len(p) + Len(q)) - Len(p) = Len(q)
    BY <1>1, SMT
  <2>4. 1 \in 1 .. Len(q) /\ Len(q) \in 1 .. Len(q)
    BY <1>1, <1>4, SMT
  <2>5. SubSeq(q \o r, 1, Len(q)) = SubSeq(q, 1, Len(q))
    BY <2>4, SubSeqOfConcat1 DEF Message
  <2>. QED  BY <2>2, <2>3, <2>5, SubSeqFull DEF Message
<1>. QED  BY <1>3, <1>4

\* What the octets p tell of the tag they begin, whatever follows them.
Leads(p, number, context, type) ==
  /\ p \in Message /\ Len(p) \in 1 .. 2
  /\ \A r \in Message :
       /\ decode_tag_number(p \o r) = Decoded(Len(p), number)
       /\ (p \o r)[1] % 8 = type
       /\ IS_CONTEXT_SPECIFIC(p \o r) <=> context

\* The octets of a tag that hold its number and its class.
LEMMA ControlRead ==
  ASSUME NEW number \in 0 .. 254, NEW context \in BOOLEAN, NEW type \in 0 .. 7
  PROVE  Leads(Control(number, context, type), number, context, type)
<1>. DEFINE first == 16 * (IF number <= 14 THEN number ELSE 15)
                       + (IF context THEN 8 ELSE 0) + type
            more  == IF number <= 14 THEN << >> ELSE <<number>>
            p     == Control(number, context, type)
<1>1. p = <<first>> \o more
  BY Zenon DEF Control
<1>2. /\ first \in Octets255
      /\ first \div 16 = IF number <= 14 THEN number ELSE 15
      /\ first % 8 = type
      /\ (first \div 2^3) % 2 = 1 <=> context
  <2>1. \A m \in 0 .. 15, c \in {0, 8}, t \in 0 .. 7 :
          /\ (16 * m + c + t) \in 0 .. 255
          /\ (16 * m + c + t) \div 16 = m
          /\ (16 * m + c + t) % 8 = t
          /\ ((16 * m + c + t) \div 8) % 2 = 1 <=> c = 8
    BY SMT
  <2>2. (IF number <= 14 THEN number ELSE 15) \in 0 .. 15
    BY SMT
  <2>3. 2^3 = 8
    BY SMT
  <2>. QED  BY <2>1, <2>2, <2>3, SMT DEF Octets255
<1>. HIDE DEF first, p
<1>3. /\ <<first>> \in Message /\ Len(<<first>>) = 1 /\ <<first>>[1] = first
      /\ more \in Message
      /\ number <= 14 => Len(more) = 0
      /\ ~(number <= 14) => Len(more) = 1 /\ more[1] = number
  <2>1. number \in Octets255
    BY SMT DEF Octets255
  <2>2. /\ <<first>> \in Message /\ Len(<<first>>) = 1 /\ <<first>>[1] = first
    BY <1>2, One
  <2>3. CASE number <= 14
    BY <2>2, <2>3, None
  <2>4. CASE ~(number <= 14)
    BY <2>1, <2>2, <2>4, One
  <2>. QED  BY <2>3, <2>4
<1>. HIDE DEF more
<1>4. /\ p \in Message /\ Len(p) = IF number <= 14 THEN 1 ELSE 2
      /\ p[1] = first /\ (number > 14 => p[2] = number)
  <2>1. p \in Message /\ Len(p) = Len(<<first>>) + Len(more)
    BY <1>1, <1>3, Joining
  <2>2. \A i \in 1 .. Len(<<first>>) + Len(more) :
          p[i] = IF i <= Len(<<first>>) THEN <<first>>[i] ELSE more[i - Len(<<first>>)]
    BY <1>1, <1>3, Joining
  <2>3. CASE number <= 14
    BY <1>3, <2>1, <2>2, <2>3, SMT
  <2>4. CASE ~(number <= 14)
    <3>1. Len(<<first>>) = 1 /\ Len(more) = 1 /\ more[1] = number /\ <<first>>[1] = first
      BY <1>3, <2>4
    <3>2. \A i \in 1 .. 1 + 1 : p[i] = IF i <= 1 THEN <<first>>[i] ELSE more[i - 1]
      BY <2>2, <3>1, Zenon
    <3>3. p[1] = <<first>>[1] /\ p[2] = more[1]
      BY <3>2, SMT
    <3>. QED  BY <2>1, <2>4, <3>1, <3>3, SMT
  <2>. QED  BY <2>3, <2>4
<1>5. \A r \in Message : (p \o r)[1] = first /\ (number > 14 => (p \o r)[2] = number)
  <2>1. TAKE r \in Message
  <2>2. /\ Len(r) \in Nat
        /\ \A i \in 1 .. Len(p) + Len(r) :
             (p \o r)[i] = IF i <= Len(p) THEN p[i] ELSE r[i - Len(p)]
    BY <1>4, Joining
  <2>. QED  BY <1>4, <2>2, SMT
<1>6. ASSUME NEW r \in Message
      PROVE  /\ decode_tag_number(p \o r) = Decoded(Len(p), number)
             /\ (p \o r)[1] % 8 = type
             /\ IS_CONTEXT_SPECIFIC(p \o r) <=> context
  <2>1. (p \o r)[1] = first /\ (number > 14 => (p \o r)[2] = number)
    BY <1>5
  <2>2. CASE number <= 14
    <3>1. first \div 16 = number /\ number # 15 /\ Len(p) = 1
      BY <1>2, <1>4, <2>2, SMT
    <3>2. decode_tag_number(p \o r) = Decoded(Len(p), number)
      BY <2>1, <3>1, Zenon DEF decode_tag_number
    <3>. QED  BY <1>2, <2>1, <3>2, Zenon DEF IS_CONTEXT_SPECIFIC, Bit
  <2>3. CASE ~(number <= 14)
    <3>1. first \div 16 = 15 /\ Len(p) = 2 /\ number > 14
      BY <1>2, <1>4, <2>3, SMT
    <3>2. decode_tag_number(p \o r) = Decoded(Len(p), number)
      BY <2>1, <3>1, Zenon DEF decode_tag_number
    <3>. QED  BY <1>2, <2>1, <3>2, Zenon DEF IS_CONTEXT_SPECIFIC, Bit
  <2>. QED  BY <2>2, <2>3
<1>7. Len(p) \in 1 .. 2
  BY <1>4, SMT
<1>8. Leads(p, number, context, type)
  BY <1>4, <1>6, <1>7, Zenon DEF Leads
<1>. QED  BY <1>8, Zenon DEF p

\* The octets that say that a length of two, or of four octets follows.
TwoFollow  == 254
FourFollow == 255

Tag(len, number, value) == [len |-> len, number |-> number, value |-> value]

\* What the decoder of a tag makes of the octets after those that hold the number.
LEMMA TagIs ==
  ASSUME NEW apdu, NEW n \in 1 .. 2, NEW number,
         decode_tag_number(apdu) = Decoded(n, number)
  PROVE  decode_tag_number_and_value(apdu) =
           CASE apdu[1] % 8 = 5 /\ apdu[n + 1] = 255
                  -> Tag(n + 5, number, Joined(SubSeq(apdu, n + 2, n + 5)))
             [] apdu[1] % 8 = 5 /\ apdu[n + 1] = 254
                  -> Tag(n + 3, number, Joined(SubSeq(apdu, n + 2, n + 3)))
             [] apdu[1] % 8 = 5 /\ apdu[n + 1] < 254
                  -> Tag(n + 1, number, apdu[n + 1])
             [] OTHER -> Tag(n + 0, number, IF apdu[1] % 8 = 6 \/ apdu[1] % 8 = 7 THEN 0
                                            ELSE apdu[1] % 8)
<1>1. decode_tag_number(apdu).len = n /\ decode_tag_number(apdu).datum = number
  BY SMT DEF Decoded
<1>2. \A q : decode_unsigned(q).datum = Joined(q)
  BY SMT DEF decode_unsigned, Decoded
<1>. QED  BY <1>1, <1>2 DEF decode_tag_number_and_value, IS_EXTENDED_VALUE, IS_OPENING_TAG,
                            IS_CLOSING_TAG, Tag

\* A length up to 4 is in the first octet, one up to 253 in the next, a longer one after it.
LEMMA ShortTag ==
  ASSUME NEW apdu, NEW n \in 1 .. 2, NEW number, NEW length \in 0 .. 4,
         decode_tag_number(apdu) = Decoded(n, number), apdu[1] % 8 = length
  PROVE  decode_tag_number_and_value(apdu) = Tag(n + 0, number, length)
<1>1. ~(apdu[1] % 8 = 5) /\ ~(apdu[1] % 8 = 6) /\ ~(apdu[1] % 8 = 7)
  BY SMT
<1>. QED  BY <1>1, TagIs, SMT

LEMMA ByteTag ==
  ASSUME NEW apdu, NEW n \in 1 .. 2, NEW number, NEW length \in 0 .. 253,
         decode_tag_number(apdu) = Decoded(n, number), apdu[1] % 8 = 5, apdu[n + 1] = length
  PROVE  decode_tag_number_and_value(apdu) = Tag(n + 1, number, length)
<1>1. apdu[n + 1] < 254 /\ ~(apdu[n + 1] = 254) /\ ~(apdu[n + 1] = 255)
  BY SMT
<1>. QED  BY <1>1, TagIs, SMT

LEMMA WordTag ==
  ASSUME NEW apdu, NEW n \in 1 .. 2, NEW number,
         decode_tag_number(apdu) = Decoded(n, number), apdu[1] % 8 = 5, apdu[n + 1] = TwoFollow
  PROVE  decode_tag_number_and_value(apdu)
           = Tag(n + 3, number, Joined(SubSeq(apdu, n + 2, n + 3)))
<1>1. ~(apdu[n + 1] < 254) /\ ~(apdu[n + 1] = 255)
  BY SMT DEF TwoFollow
<1>. QED  BY <1>1, TagIs, SMT DEF TwoFollow

LEMMA LongTag ==
  ASSUME NEW apdu, NEW n \in 1 .. 2, NEW number,
         decode_tag_number(apdu) = Decoded(n, number), apdu[1] % 8 = 5, apdu[n + 1] = FourFollow
  PROVE  decode_tag_number_and_value(apdu)
           = Tag(n + 5, number, Joined(SubSeq(apdu, n + 2, n + 5)))
<1>1. ~(apdu[n + 1] < 254) /\ ~(apdu[n + 1] = 254)
  BY SMT DEF FourFollow
<1>. QED  BY <1>1, TagIs, SMT DEF FourFollow

\* Where the octets of a tag are in the message.
LEMMA TagPlaces ==
  ASSUME NEW p \in Message, NEW x \in Message, NEW rest \in Message
  PROVE  /\ (p \o x) \o rest = p \o (x \o rest)
         /\ x \o rest \in Message
         /\ p \o x \in Message /\ Len(p \o x) = Len(p) + Len(x)
         /\ Len(x) >= 1 => ((p \o x) \o rest)[Len(p) + 1] = x[1]
<1>1. /\ (p \o x) \o rest = p \o (x \o rest)
      /\ x \o rest \in Message
      /\ p \o x \in Message /\ Len(p \o x) = Len(p) + Len(x)
  <2>1. (p \o x) \o rest = p \o (x \o rest)
    BY Regrouping, Zenon
  <2>2. x \o rest \in Message
    BY Joining, Zenon
  <2>3. p \o x \in Message /\ Len(p \o x) = Len(p) + Len(x)
    BY Joining, Zenon
  <2>. QED  BY <2>1, <2>2, <2>3
<1>2. Len(p) \in Nat /\ Len(x) \in Nat /\ Len(rest) \in Nat
  BY Joining
<1>3. ASSUME Len(x) >= 1
      PROVE  ((p \o x) \o rest)[Len(p) + 1] = x[1]
  <2>1. \A i \in 1 .. Len(p \o x) + Len(rest) :
          ((p \o x) \o rest)[i]
            = IF i <= Len(p \o x) THEN (p \o x)[i] ELSE rest[i - Len(p \o x)]
    BY <1>1, Joining
  <2>2. \A i \in 1 .. Len(p) + Len(x) :
          (p \o x)[i] = IF i <= Len(p) THEN p[i] ELSE x[i - Len(p)]
    BY Joining
  <2>3. /\ Len(p) + 1 \in 1 .. Len(p \o x) + Len(rest) /\ Len(p) + 1 <= Len(p \o x)
        /\ Len(p) + 1 \in 1 .. Len(p) + Len(x) /\ ~(Len(p) + 1 <= Len(p))
        /\ (Len(p) + 1) - Len(p) = 1
    BY <1>1, <1>2, <1>3, SMT
  <2>. QED  BY <2>1, <2>2, <2>3, Zenon
<1>. QED  BY <1>1, <1>3

LEMMA LengthPlaces ==
  ASSUME NEW p \in Message, NEW rest \in Message
  PROVE  \A a \in Octets255 : \A b \in Message :
           /\ <<a>> \o b \in Message /\ Len(<<a>> \o b) = 1 + Len(b)
           /\ ((p \o (<<a>> \o b)) \o rest)[Len(p) + 1] = a
           /\ SubSeq((p \o (<<a>> \o b)) \o rest, Len(p) + 2, Len(p) + (1 + Len(b))) = b
<1>. TAKE a \in Octets255
<1>. TAKE b \in Message
<1>1. <<a>> \in Message /\ Len(<<a>>) = 1 /\ <<a>>[1] = a
  BY One
<1>2. /\ <<a>> \o b \in Message /\ Len(<<a>> \o b) = 1 + Len(b)
      /\ (<<a>> \o b)[1] = a
  <2>1. \A i \in 1 .. Len(<<a>>) + Len(b) :
          (<<a>> \o b)[i] = IF i <= Len(<<a>>) THEN <<a>>[i] ELSE b[i - Len(<<a>>)]
    BY <1>1, Joining
  <2>2. Len(b) \in Nat
    BY Joining
  <2>3. 1 \in 1 .. Len(<<a>>) + Len(b) /\ 1 <= Len(<<a>>)
    BY <1>1, <2>2, SMT
  <2>4. <<a>> \o b \in Message /\ Len(<<a>> \o b) = 1 + Len(b)
    BY <1>1, Joining
  <2>. QED  BY <1>1, <2>1, <2>3, <2>4, Zenon
<1>3. Len(p) \in Nat /\ Len(b) \in Nat
  BY Joining
<1>4. ((p \o (<<a>> \o b)) \o rest)[Len(p) + 1] = a
  <2>1. Len(<<a>> \o b) >= 1
    BY <1>2, <1>3, SMT
  <2>. QED  BY <1>2, <2>1, TagPlaces
<1>5. p \o <<a>> \in Message /\ Len(p \o <<a>>) = Len(p) + 1
  BY <1>1, Joining
<1>6. (p \o (<<a>> \o b)) \o rest = (p \o <<a>>) \o (b \o rest)
  <2>1. p \o (<<a>> \o b) = (p \o <<a>>) \o b
    BY SMTT(40), <1>1, Regrouping
  <2>2. ((p \o <<a>>) \o b) \o rest = (p \o <<a>>) \o (b \o rest)
    BY <1>5, Regrouping
  <2>. QED  BY <2>1, <2>2
<1>7. SubSeq((p \o <<a>>) \o (b \o rest), (Len(p) + 1) + 1, (Len(p) + 1) + Len(b)) = b
  BY <1>5, Slice
<1>8. (Len(p) + 1) + 1 = Len(p) + 2 /\ (Len(p) + 1) + Len(b) = Len(p) + (1 + Len(b))
  BY <1>3, SMT
<1>. QED  BY <1>2, <1>4, <1>6, <1>7, <1>8

-----------------------------------------------------------------------------
\* The numbers a tag can have, and the lengths it can announce.
Numbers == 0 .. 254
Lengths == {n \in Nat : n < 256^4}

\* What the decoders make of a message apdu that begins with the octets tag.
ReadAs(tag, apdu, number, context, length) ==
  /\ tag \in Message /\ Len(tag) \in Nat \ {0}
  /\ decode_tag_number_and_value(apdu) = Tag(Len(tag), number, length)
  /\ decode_tag_number(apdu).datum = number
  /\ IS_CONTEXT_SPECIFIC(apdu) <=> context

\* What encode_tag writes, decode_tag_number_and_value reads: the number, the length, and as
\* many octets as were written, of a tag of either class, whatever follows it.
THEOREM TagsAreRead ==
  \A number \in Numbers, context \in BOOLEAN, length \in Lengths, rest \in Message :
    ReadAs(encode_tag(number, context, length), encode_tag(number, context, length) \o rest,
           number, context, length)
<1>. SUFFICES ASSUME NEW number \in 0 .. 254, NEW context \in BOOLEAN,
                     NEW length \in Lengths, NEW rest \in Message,
                     NEW tag, tag = encode_tag(number, context, length),
                     NEW apdu, apdu = tag \o rest
              PROVE  ReadAs(tag, apdu, number, context, length)
  BY Zenon DEF Numbers
<1>. length \in Nat /\ length < 256^4
  BY Zenon DEF Lengths
<1>1. PICK type \in 0 .. 7 : type = IF length <= 4 THEN length ELSE 5
  BY SMT
<1>2. PICK p : p = Control(number, context, type)
  OBVIOUS
<1>3. PICK x : x = ExtendedLength(length)
  OBVIOUS
<1>5. /\ p \in Message /\ Len(p) \in 1 .. 2
      /\ \A r \in Message :
           /\ decode_tag_number(p \o r) = Decoded(Len(p), number)
           /\ (p \o r)[1] % 8 = type
           /\ IS_CONTEXT_SPECIFIC(p \o r) <=> context
  <2>1. Leads(p, number, context, type)
    BY <1>2, ControlRead, Zenon
  <2>. QED  BY <2>1, Zenon DEF Leads
<1>6. p \in Message /\ Len(p) \in 1 .. 2
  BY <1>5
<1>7. tag = p \o x
  BY <1>1, <1>2, <1>3, Zenon DEF encode_tag
<1>8. \A a \in Octets255 : \A b \in Message :
        /\ <<a>> \o b \in Message /\ Len(<<a>> \o b) = 1 + Len(b)
        /\ ((p \o (<<a>> \o b)) \o rest)[Len(p) + 1] = a
        /\ SubSeq((p \o (<<a>> \o b)) \o rest, Len(p) + 2, Len(p) + (1 + Len(b))) = b
  BY <1>6, LengthPlaces, Zenon
<1>9. /\ x \in Message
      /\ decode_tag_number_and_value(apdu) = Tag(Len(p) + Len(x), number, length)
  <2>1. x \in Message
          => /\ decode_tag_number(apdu) = Decoded(Len(p), number)
             /\ apdu[1] % 8 = type
             /\ Len(x) >= 1 => apdu[Len(p) + 1] = x[1]
    <3>1. SUFFICES ASSUME x \in Message
                   PROVE  /\ decode_tag_number(apdu) = Decoded(Len(p), number)
                          /\ apdu[1] % 8 = type
                          /\ Len(x) >= 1 => apdu[Len(p) + 1] = x[1]
      OBVIOUS
    <3>2. apdu = p \o (x \o rest) /\ x \o rest \in Message
          /\ (Len(x) >= 1 => apdu[Len(p) + 1] = x[1])
      <4>1. apdu = (p \o x) \o rest
        BY <1>7
      <4>2. /\ (p \o x) \o rest = p \o (x \o rest) /\ x \o rest \in Message
            /\ Len(x) >= 1 => ((p \o x) \o rest)[Len(p) + 1] = x[1]
        BY ZenonT(60), <1>5, <3>1, TagPlaces
      <4>. QED  BY <4>1, <4>2
    <3>. QED  BY <1>5, <3>2, Zenon
  <2>2. CASE length <= 4
    <3>1. x = << >> /\ type = length
      BY <1>1, <1>3, <2>2, SMT DEF ExtendedLength
    <3>2. x \in Message /\ Len(x) = 0
      BY <3>1, None
    <3>3. length \in 0 .. 4
      BY <2>2, SMT
    <3>4. decode_tag_number(apdu) = Decoded(Len(p), number) /\ apdu[1] % 8 = length
      BY <2>1, <3>1, <3>2
    <3>5. decode_tag_number_and_value(apdu) = Tag(Len(p) + 0, number, length)
      BY <1>5, <3>3, <3>4, ShortTag
    <3>. QED  BY <3>2, <3>5
  <2>3. CASE ~(length <= 4) /\ length <= 253
    <3>1. x = <<length>> /\ type = 5
      BY <1>1, <1>3, <2>3, SMT DEF ExtendedLength
    <3>2. length \in 0 .. 253 /\ length \in Octets255
      BY <2>3, SMT DEF Octets255
    <3>3. x \in Message /\ Len(x) = 1 /\ x[1] = length
      BY <3>1, <3>2, One
    <3>4. apdu[Len(p) + 1] = length
      <4>1. Len(x) >= 1
        BY <3>3, SMT
      <4>. QED  BY <2>1, <3>3, <4>1
    <3>5. decode_tag_number(apdu) = Decoded(Len(p), number) /\ apdu[1] % 8 = 5
      BY <2>1, <3>1, <3>3
    <3>6. decode_tag_number_and_value(apdu) = Tag(Len(p) + 1, number, length)
      BY ZenonT(60), <1>5, <3>2, <3>4, <3>5, ByteTag
    <3>. QED  BY <3>3, <3>6
  <2>4. CASE ~(length <= 253) /\ length <= 65535
    <3>0. ~(length <= 4) /\ 2 \in 1 .. 4 /\ TwoFollow \in Octets255 /\ length < 256^2 /\ length \in Int
      BY <2>4, SMT DEF Octets255, TwoFollow
    <3>1. PICK b : b = Big(length, 2)
      OBVIOUS
    <3>2. b \in Message /\ Len(b) = 2 /\ Joined(b) = length
      BY <3>0, <3>1, BigOctets, BigRead DEF Message, Octets255
    <3>3. x = <<TwoFollow>> \o b /\ type = 5
      BY <1>1, <1>3, <2>4, <3>0, <3>1, SMT DEF ExtendedLength, TwoFollow
    <3>4. /\ x \in Message /\ Len(x) = 1 + Len(b)
          /\ apdu[Len(p) + 1] = TwoFollow
          /\ SubSeq(apdu, Len(p) + 2, Len(p) + (1 + Len(b))) = b
      <4>1. apdu = (p \o (<<TwoFollow>> \o b)) \o rest
        BY <1>7, <3>3
      <4>2. \A c \in Message :
              /\ <<TwoFollow>> \o c \in Message /\ Len(<<TwoFollow>> \o c) = 1 + Len(c)
              /\ ((p \o (<<TwoFollow>> \o c)) \o rest)[Len(p) + 1] = TwoFollow
              /\ SubSeq((p \o (<<TwoFollow>> \o c)) \o rest, Len(p) + 2, Len(p) + (1 + Len(c))) = c
        BY <1>8, <3>0, Zenon
      <4>3. /\ <<TwoFollow>> \o b \in Message /\ Len(<<TwoFollow>> \o b) = 1 + Len(b)
            /\ ((p \o (<<TwoFollow>> \o b)) \o rest)[Len(p) + 1] = TwoFollow
            /\ SubSeq((p \o (<<TwoFollow>> \o b)) \o rest, Len(p) + 2, Len(p) + (1 + Len(b))) = b
        BY <3>2, <4>2, Zenon
      <4>. QED  BY <3>3, <4>1, <4>3, Zenon
    <3>5. Len(p) + (1 + 2) = Len(p) + 3 /\ Len(x) = 3
      BY <1>5, <3>2, <3>4, SMT
    <3>6. SubSeq(apdu, Len(p) + 2, Len(p) + 3) = b
      BY <3>2, <3>4, <3>5, Zenon
    <3>7. decode_tag_number(apdu) = Decoded(Len(p), number) /\ apdu[1] % 8 = 5
      BY <2>1, <3>3, <3>4
    <3>8. decode_tag_number_and_value(apdu)
            = Tag(Len(p) + 3, number, Joined(SubSeq(apdu, Len(p) + 2, Len(p) + 3)))
      BY <1>6, <3>4, <3>7, WordTag, Zenon
    <3>. QED  BY <3>2, <3>4, <3>5, <3>6, <3>8
  <2>5. CASE ~(length <= 65535)
    <3>0. ~(length <= 4) /\ ~(length <= 253) /\ 4 \in 1 .. 4 /\ FourFollow \in Octets255 /\ length \in Int
      BY <2>5, SMT DEF Octets255, FourFollow
    <3>1. PICK b : b = Big(length, 4)
      OBVIOUS
    <3>2. b \in Message /\ Len(b) = 4 /\ Joined(b) = length
      BY <3>0, <3>1, BigOctets, BigRead DEF Message, Octets255
    <3>3. x = <<FourFollow>> \o b /\ type = 5
      BY <1>1, <1>3, <2>5, <3>0, <3>1, SMT DEF ExtendedLength, FourFollow
    <3>4. /\ x \in Message /\ Len(x) = 1 + Len(b)
          /\ apdu[Len(p) + 1] = FourFollow
          /\ SubSeq(apdu, Len(p) + 2, Len(p) + (1 + Len(b))) = b
      <4>1. apdu = (p \o (<<FourFollow>> \o b)) \o rest
        BY <1>7, <3>3
      <4>2. \A c \in Message :
              /\ <<FourFollow>> \o c \in Message /\ Len(<<FourFollow>> \o c) = 1 + Len(c)
              /\ ((p \o (<<FourFollow>> \o c)) \o rest)[Len(p) + 1] = FourFollow
              /\ SubSeq((p \o (<<FourFollow>> \o c)) \o rest, Len(p) + 2, Len(p) + (1 + Len(c))) = c
        BY <1>8, <3>0, Zenon
      <4>3. /\ <<FourFollow>> \o b \in Message /\ Len(<<FourFollow>> \o b) = 1 + Len(b)
            /\ ((p \o (<<FourFollow>> \o b)) \o rest)[Len(p) + 1] = FourFollow
            /\ SubSeq((p \o (<<FourFollow>> \o b)) \o rest, Len(p) + 2, Len(p) + (1 + Len(b))) = b
        BY <3>2, <4>2, Zenon
      <4>. QED  BY <3>3, <4>1, <4>3, Zenon
    <3>5. Len(p) + (1 + 4) = Len(p) + 5 /\ Len(x) = 5
      BY <1>5, <3>2, <3>4, SMT
    <3>6. SubSeq(apdu, Len(p) + 2, Len(p) + 5) = b
      BY <3>2, <3>4, <3>5, Zenon
    <3>7. decode_tag_number(apdu) = Decoded(Len(p), number) /\ apdu[1] % 8 = 5
      BY <2>1, <3>3, <3>4
    <3>8. decode_tag_number_and_value(apdu)
            = Tag(Len(p) + 5, number, Joined(SubSeq(apdu, Len(p) + 2, Len(p) + 5)))
      BY <1>6, <3>4, <3>7, LongTag, Zenon
    <3>. QED  BY <3>2, <3>4, <3>5, <3>6, <3>8
  <2>6. \/ length <= 4
        \/ ~(length <= 4) /\ length <= 253
        \/ ~(length <= 253) /\ length <= 65535
        \/ ~(length <= 65535)
    BY SMT
  <2>. QED  BY <2>2, <2>3, <2>4, <2>5, <2>6, SMT
<1>10. /\ apdu = p \o (x \o rest) /\ x \o rest \in Message
      /\ tag \in Message /\ Len(tag) = Len(p) + Len(x)
  <2>1. /\ (p \o x) \o rest = p \o (x \o rest) /\ x \o rest \in Message
        /\ p \o x \in Message /\ Len(p \o x) = Len(p) + Len(x)
    BY ZenonT(60), <1>6, <1>9, TagPlaces
  <2>. QED  BY <1>7, <2>1
<1>11. Len(tag) \in Nat \ {0}
  <2>1. Len(x) \in Nat
    BY <1>9, Joining
  <2>2. \A m \in 1 .. 2, n \in Nat : m + n \in Nat \ {0}
    BY SMT
  <2>. QED  BY <1>6, <1>10, <2>1, <2>2, Zenon
<1>12. Decoded(Len(p), number).datum = number
  BY SMT DEF Decoded
<1>. QED  BY <1>5, <1>9, <1>10, <1>11, <1>12, Zenon DEF ReadAs

-----------------------------------------------------------------------------
(***************************************************************************)
(* A value with its context tag.                                           *)
(***************************************************************************)
TagLen(apdu) == decode_tag_number_and_value(apdu).len
Field(apdu)  == SubSeq(apdu, TagLen(apdu) + 1,
                       TagLen(apdu) + decode_tag_number_and_value(apdu).value)
Through(apdu, content) == TagLen(apdu) + Len(content)

\* Whatever follows it, what has a context tag is found by its number, and by no other.
LEMMA FieldRead ==
  ASSUME NEW number \in 0 .. 254, NEW content \in Message, Len(content) \in Lengths,
         NEW rest \in Message,
         NEW sent, sent = Context(number, content)
  PROVE  /\ Field(sent \o rest) = content
         /\ Through(sent \o rest, content) = Len(sent)
         /\ \A other : decode_is_context_tag(sent \o rest, other) <=> other = number
<1>1. Len(content) \in Nat
  BY Joining
<1>2. PICK length \in Nat : length = Len(content)
  BY <1>1
<1>a. PICK context \in BOOLEAN : context = TRUE
  OBVIOUS
<1>3. PICK tag : tag = encode_tag(number, context, length)
  OBVIOUS
<1>4. PICK r \in Message : r = content \o rest
  BY Joining
<1>5. PICK apdu : apdu = tag \o r
  OBVIOUS
<1>6. /\ tag \in Message /\ Len(tag) \in Nat \ {0}
      /\ decode_tag_number_and_value(apdu) = Tag(Len(tag), number, length)
      /\ decode_tag_number(apdu).datum = number
      /\ IS_CONTEXT_SPECIFIC(apdu) <=> context
  <2>1. length \in Lengths
    BY <1>2
  <2>2. number \in Numbers
    BY DEF Numbers
  <2>3. ReadAs(tag, apdu, number, context, length)
    BY <2>1, <2>2, <1>3, <1>4, <1>5, TagsAreRead, Zenon
  <2>. QED  BY <2>3, Zenon DEF ReadAs
<1>7. sent = tag \o content
  BY <1>2, <1>a, <1>3 DEF Context
<1>8. sent \o rest = apdu /\ Len(sent) = Len(tag) + Len(content)
  <2>1. (tag \o content) \o rest = tag \o (content \o rest)
    BY <1>6, Regrouping
  <2>2. Len(tag \o content) = Len(tag) + Len(content)
    BY <1>6, Joining
  <2>. QED  BY <1>4, <1>5, <1>7, <2>1, <2>2
<1>9. TagLen(apdu) = Len(tag) /\ decode_tag_number_and_value(apdu).value = Len(content)
  BY <1>2, <1>6, SMT DEF TagLen, Tag
<1>10. Field(apdu) = content
  <2>1. SubSeq(tag \o (content \o rest), Len(tag) + 1, Len(tag) + Len(content)) = content
    BY <1>6, Slice
  <2>. QED  BY <1>4, <1>5, <1>9, <2>1 DEF Field
<1>11. apdu # << >>
  <2>1. /\ Len(tag) + Len(content) + Len(rest) = Len(apdu)
        /\ Len(rest) \in Nat
    <3>1. Len(content \o rest) = Len(content) + Len(rest) /\ Len(rest) \in Nat
      BY Joining
    <3>2. Len(apdu) = Len(tag) + Len(r)
      BY <1>5, <1>6, Joining
    <3>. QED  BY <1>1, <1>4, <1>6, <3>1, <3>2, SMT
  <2>2. Len(apdu) # 0
    BY <1>1, <1>6, <2>1, SMT
  <2>. QED  BY <2>2, None
<1>12. \A other : decode_is_context_tag(apdu, other) <=> other = number
  BY <1>a, <1>6, <1>11 DEF decode_is_context_tag
<1>13. Through(apdu, content) = Len(sent)
  BY <1>8, <1>9 DEF Through
<1>. QED  BY <1>8, <1>10, <1>12, <1>13

\* What a decoder of the field makes of d, which the decoder of the content made of that.
Taken(apdu, number, d) ==
  IF decode_is_context_tag(apdu, number) THEN Decoded(TagLen(apdu) + d.len, d.datum)
  ELSE Decoded(BACNET_STATUS_ERROR, 0)

\* What the decoder of the content makes of it is what the decoder of the field returns.
LEMMA InContextIs ==
  ASSUME NEW apdu, NEW number
  PROVE  /\ decode_context_unsigned(apdu, number) = Taken(apdu, number, decode_unsigned(Field(apdu)))
         /\ decode_context_enumerated(apdu, number) = Taken(apdu, number, decode_unsigned(Field(apdu)))
         /\ decode_context_signed(apdu, number) = Taken(apdu, number, decode_signed(Field(apdu)))
         /\ decode_context_real(apdu, number) = Taken(apdu, number, decode_real_safe(Field(apdu)))
         /\ decode_context_double(apdu, number)
              = Taken(apdu, number, decode_double_safe(Field(apdu)))
         /\ decode_context_bacnet_time(apdu, number)
              = Taken(apdu, number, decode_bacnet_time(Field(apdu)))
         /\ decode_context_date(apdu, number) = Taken(apdu, number, decode_date(Field(apdu)))
         /\ decode_context_object_id(apdu, number)
              = Taken(apdu, number, decode_object_id(Field(apdu)))
         /\ decode_context_boolean2(apdu, number)
              = Taken(apdu, number, decode_context_boolean(Field(apdu)))
         /\ decode_context_octet_string(apdu, number)
              = Taken(apdu, number, decode_octet_string(Field(apdu)))
         /\ decode_context_character_string(apdu, number)
              = Taken(apdu, number, decode_character_string(Field(apdu)))
  BY DEF Taken, InContext, TagLen, Field, decode_context_unsigned, decode_context_enumerated,
         decode_context_signed, decode_context_real, decode_context_double,
         decode_context_bacnet_time, decode_context_date, decode_context_object_id,
         decode_context_boolean2, decode_context_octet_string, decode_context_character_string

-----------------------------------------------------------------------------
(***************************************************************************)
(* What was sent is what is read.                                          *)
(***************************************************************************)
\* Octets that a field can carry, and what the decoder of a field ought to return of one
\* that was sent with the value v in it.
Carries(content)       == content \in Message /\ Len(content) \in Lengths
Answer(sent, v, number, other) ==
  IF other = number THEN Decoded(Len(sent), v) ELSE Decoded(BACNET_STATUS_ERROR, 0)

\* From the field that was sent comes its content, and from what the content's decoder made
\* of that the answer.
Returns(number, content, rest, v, other) ==
  /\ Field(Context(number, content) \o rest) = content
  /\ Taken(Context(number, content) \o rest, other, Decoded(Len(content), v))
       = Answer(Context(number, content), v, number, other)

LEMMA AnswerIs ==
  ASSUME NEW number \in Numbers, NEW content, Carries(content), NEW rest \in Message,
         NEW v, NEW other
  PROVE  Returns(number, content, rest, v, other)
<1>. DEFINE sent == Context(number, content)
<1>1. content \in Message /\ Len(content) \in Lengths /\ number \in 0 .. 254
  BY Zenon DEF Carries, Numbers
<1>. HIDE DEF sent
<1>2. /\ Field(sent \o rest) = content
      /\ Through(sent \o rest, content) = Len(sent)
      /\ decode_is_context_tag(sent \o rest, other) <=> other = number
  BY <1>1, FieldRead, Zenon DEF sent
<1>3. /\ Decoded(Len(content), v).len = Len(content)
      /\ Decoded(Len(content), v).datum = v
  BY SMT DEF Decoded
<1>4. Taken(sent \o rest, other, Decoded(Len(content), v)) = Answer(sent, v, number, other)
  BY <1>2, <1>3, Zenon DEF Taken, Answer, Through
<1>. QED  BY <1>2, <1>4, Zenon DEF sent, Returns

\* A few octets can always be carried.
LEMMA FewCarried ==
  /\ \A content \in Message : Len(content) \in 1 .. 8 => Carries(content)
  /\ \A n \in 1 .. 8 : n \in Lengths
<1>1. 256^4 = 4294967296
  BY SMT
<1>2. \A n \in 1 .. 8 : n \in Nat /\ n < 4294967296
  BY SMT
<1>3. \A n \in 1 .. 8 : n \in Lengths
  <2>. TAKE n \in 1 .. 8
  <2>1. n \in Nat /\ n < 256^4
    BY <1>1, <1>2, SMT
  <2>. QED  BY <2>1, Zenon DEF Lengths
<1>. QED  BY <1>3, Zenon DEF Carries

\* What the encoder of a content wrote, its decoder reads: numbers, whatever their width.
LEMMA UnsignedCarried ==
  ASSUME NEW v \in Nat, v < 256^4
  PROVE  /\ Carries(encode_bacnet_unsigned(v))
         /\ decode_unsigned(encode_bacnet_unsigned(v))
              = Decoded(Len(encode_bacnet_unsigned(v)), v)
<1>1. encode_bacnet_unsigned(v) \in Message /\ Len(encode_bacnet_unsigned(v)) \in 1 .. 4
  BY UnsignedRead DEF Message, Octets255
<1>2. \A n \in 1 .. 4 : n \in 1 .. 8
  BY SMT
<1>3. Carries(encode_bacnet_unsigned(v))
  BY <1>1, <1>2, FewCarried, Zenon
<1>. QED  BY <1>3, UnsignedRead

LEMMA SignedCarried ==
  ASSUME NEW v \in Int, -128 * 256^3 <= v, v < 128 * 256^3
  PROVE  /\ Carries(encode_bacnet_signed(v))
         /\ decode_signed(encode_bacnet_signed(v)) = Decoded(Len(encode_bacnet_signed(v)), v)
<1>1. encode_bacnet_signed(v) \in Message /\ Len(encode_bacnet_signed(v)) \in 1 .. 4
  BY SignedRead DEF Message, Octets255
<1>2. \A n \in 1 .. 4 : n \in 1 .. 8
  BY SMT
<1>3. Carries(encode_bacnet_signed(v))
  BY <1>1, <1>2, FewCarried, Zenon
<1>. QED  BY <1>3, SignedRead

\* Octets turned around twice are as they were.
LEMMA Turned ==
  ASSUME NEW v \in Message
  PROVE  Reverse(v) \in Message /\ Len(Reverse(v)) = Len(v) /\ Reverse(Reverse(v)) = v
<1>1. v \in Seq(Octets255) /\ Len(v) \in Nat
  BY DEF Message
<1>2. Reverse(v) \in Seq(Octets255) /\ Len(Reverse(v)) = Len(v)
  BY <1>1, SMT DEF Reverse
<1>3. \A i \in 1 .. Len(v) : (Len(v) - i) + 1 \in 1 .. Len(v)
                            /\ (Len(v) - ((Len(v) - i) + 1)) + 1 = i
  BY <1>1, SMT
<1>4. Reverse(Reverse(v)) = [i \in 1 .. Len(v) |-> v[i]]
  BY <1>1, <1>2, <1>3, SMT DEF Reverse
<1>. QED  BY <1>1, <1>2, <1>4, SMT DEF Message

\* IEEE numbers, whose octets are turned around twice.
LEMMA RealCarried ==
  ASSUME NEW v \in Message
  PROVE  /\ Len(v) = 4 => /\ Carries(encode_bacnet_real(v))
                          /\ decode_real_safe(encode_bacnet_real(v))
                               = Decoded(Len(encode_bacnet_real(v)), v)
         /\ Len(v) = 8 => /\ Carries(encode_bacnet_double(v))
                          /\ decode_double_safe(encode_bacnet_double(v))
                               = Decoded(Len(encode_bacnet_double(v)), v)
<1>1. 4 \in 1 .. 8 /\ 8 \in 1 .. 8
  BY SMT
<1>2. Len(v) = 4 \/ Len(v) = 8 => Carries(Reverse(v))
  BY <1>1, Turned, FewCarried, Zenon
<1>. QED  BY <1>2, Turned, Zenon DEF encode_bacnet_real, decode_real_safe, encode_bacnet_double,
                                     decode_double_safe

\* Times and Booleans.
LEMMA TimeCarried ==
  ASSUME NEW v \in Message, Len(v) = 4
  PROVE  /\ Carries(encode_bacnet_time(v))
         /\ decode_bacnet_time(encode_bacnet_time(v)) = Decoded(Len(encode_bacnet_time(v)), v)
<1>1. 4 \in 1 .. 8
  BY SMT
<1>. QED  BY <1>1, FewCarried, Zenon DEF encode_bacnet_time, decode_bacnet_time

LEMMA BooleanCarried ==
  ASSUME NEW v \in BOOLEAN, NEW octets, octets = IF v THEN << 1 >> ELSE << 0 >>
  PROVE  /\ Carries(octets)
         /\ decode_context_boolean(octets) = Decoded(Len(octets), v)
<1>1. 1 \in Octets255 /\ 0 \in Octets255 /\ 1 \in 1 .. 8
  BY SMT DEF Octets255
<1>2. octets \in Message /\ Len(octets) = 1 /\ octets[1] = IF v THEN 1 ELSE 0
  BY <1>1, One
<1>3. (octets[1] # 0) = v
  BY <1>2
<1>. QED  BY <1>1, <1>2, <1>3, FewCarried, Zenon DEF decode_context_boolean

\* Four octets, one by one.
LEMMA Four ==
  ASSUME NEW a \in Octets255, NEW b \in Octets255, NEW c \in Octets255, NEW d \in Octets255
  PROVE  Carries(<<a, b, c, d>>) /\ Len(<<a, b, c, d>>) = 4
<1>1. <<a, b, c, d>> \in Message
  BY SMT DEF Message
<1>2. Len(<<a, b, c, d>>) = 4 /\ 4 \in 1 .. 8
  BY SMT
<1>. QED  BY <1>1, <1>2, FewCarried, Zenon

\* A tuple of four taken apart, and put together.
Quad(q, a, b, c, d) ==
  /\ q[1] = a /\ q[2] = b
  /\ Tail(q) = <<b, c, d>> /\ SubSeq(q, 3, 4) = <<c, d>>
  /\ <<a>> \o <<b, c, d>> = q
  /\ <<a, b>> \o <<c, d>> = q

LEMMA FourOf ==
  ASSUME NEW a \in Int, NEW b \in Int, NEW c \in Int, NEW d \in Int
  PROVE  Quad(<<a, b, c, d>>, a, b, c, d)
<1>. DEFINE s == <<a, b, c, d>>
<1>1. /\ s \in Seq(Int) /\ Len(s) = 4
      /\ s[1] = a /\ s[2] = b /\ s[3] = c /\ s[4] = d
  BY SMT
<1>2. /\ <<b, c, d>> \in Seq(Int) /\ Len(<<b, c, d>>) = 3
      /\ <<b, c, d>>[1] = b /\ <<b, c, d>>[2] = c /\ <<b, c, d>>[3] = d
  BY SMT
<1>3. /\ <<c, d>> \in Seq(Int) /\ Len(<<c, d>>) = 2
      /\ <<c, d>>[1] = c /\ <<c, d>>[2] = d
  BY SMT
<1>4. /\ <<a, b>> \in Seq(Int) /\ Len(<<a, b>>) = 2
      /\ <<a, b>>[1] = a /\ <<a, b>>[2] = b
  BY SMT
<1>5. <<a>> \in Seq(Int) /\ Len(<<a>>) = 1 /\ <<a>>[1] = a
  BY SMT
<1>6. Tail(s) = <<b, c, d>>
  BY SMT
<1>. HIDE DEF s
<1>7. SubSeq(s, 3, 4) = <<c, d>>
  <2>1. \A i \in 3 .. 4 : s[i] \in Int
    BY <1>1, SMT
  <2>2. /\ SubSeq(s, 3, 4) \in Seq(Int)
        /\ Len(SubSeq(s, 3, 4)) = IF 3 <= 4 THEN 4 - 3 + 1 ELSE 0
        /\ \A i \in 1 .. 4 - 3 + 1 : SubSeq(s, 3, 4)[i] = s[3 + i - 1]
    BY <2>1, SubSeqProperties
  <2>3. PICK t : t = SubSeq(s, 3, 4)
    OBVIOUS
  <2>4. t \in Seq(Int) /\ Len(t) = 2 /\ t[1] = c /\ t[2] = d
    BY <1>1, <2>2, <2>3, SMT
  <2>5. PICK u : u = <<c, d>>
    OBVIOUS
  <2>6. u \in Seq(Int) /\ Len(u) = 2 /\ \A i \in 1 .. Len(t) : t[i] = u[i]
    BY <1>3, <2>4, <2>5, SMT
  <2>. QED  BY <2>3, <2>4, <2>5, <2>6, SeqEqual
<1>8. <<a>> \o <<b, c, d>> = s
  <2>1. PICK t : t = <<a>> \o <<b, c, d>>
    OBVIOUS
  <2>2. /\ t \in Seq(Int) /\ Len(t) = 1 + 3
        /\ \A i \in 1 .. 1 + 3 : t[i] = IF i <= 1 THEN <<a>>[i] ELSE <<b, c, d>>[i - 1]
    BY <1>2, <1>5, <2>1, ConcatProperties
  <2>3. \A i \in 1 .. Len(t) : t[i] = s[i]
    BY <1>1, <1>2, <1>5, <2>2, SMT
  <2>. QED  BY <1>1, <2>1, <2>2, <2>3, SeqEqual
<1>9. <<a, b>> \o <<c, d>> = s
  <2>1. PICK t : t = <<a, b>> \o <<c, d>>
    OBVIOUS
  <2>2. /\ t \in Seq(Int) /\ Len(t) = 2 + 2
        /\ \A i \in 1 .. 2 + 2 : t[i] = IF i <= 2 THEN <<a, b>>[i] ELSE <<c, d>>[i - 2]
    BY <1>3, <1>4, <2>1, ConcatProperties
  <2>3. \A i \in 1 .. Len(t) : t[i] = s[i]
    BY <1>1, <1>3, <1>4, <2>2, SMT
  <2>. QED  BY <1>1, <2>1, <2>2, <2>3, SeqEqual
<1>10. Quad(s, a, b, c, d)
  BY <1>1, <1>6, <1>7, <1>8, <1>9, Zenon DEF Quad
<1>. QED  BY <1>10 DEF s

\* What an octet holds of a year, and 32 bits of an object.
SentYears == {year \in Nat : 1900 <= year /\ year <= 2155}
Types     == {type \in Nat : type <= BACNET_MAX_OBJECT}
Instances == {instance \in Nat : instance <= BACNET_MAX_INSTANCE}

\* A date, whose year is sent counted from 1900.
LEMMA DateCarried ==
  ASSUME NEW year \in SentYears, NEW month \in Octets255, NEW day \in Octets255,
         NEW wday \in Octets255,
         NEW v, v = <<year, month, day, wday>>
  PROVE  /\ Carries(encode_bacnet_date(v))
         /\ decode_date(encode_bacnet_date(v)) = Decoded(Len(encode_bacnet_date(v)), v)
<1>1. PICK y \in Int : y = year - 1900
  BY SMT DEF SentYears
<1>2. y \in Octets255 /\ (year - 1900) % 256 = y /\ y + 1900 = year /\ year >= 1900
  BY <1>1, SMT DEF Octets255, SentYears
<1>3. year \in Int /\ month \in Int /\ day \in Int /\ wday \in Int
  BY SMT DEF Octets255, SentYears
<1>4. v[1] = year /\ Tail(v) = <<month, day, wday>>
  <2>1. Quad(v, year, month, day, wday)
    BY <1>3, FourOf, Zenon
  <2>. QED  BY <2>1, Zenon DEF Quad
<1>5. encode_bacnet_date(v)
        = <<IF v[1] >= 1900 THEN (v[1] - 1900) % 256 ELSE v[1]>> \o Tail(v)
  BY DEF encode_bacnet_date
<1>6. (IF v[1] >= 1900 THEN (v[1] - 1900) % 256 ELSE v[1]) = y
  BY <1>2, <1>4
<1>7. PICK q : q = <<y, month, day, wday>>
  OBVIOUS
<1>8. /\ q[1] = y /\ Tail(q) = <<month, day, wday>> /\ q = <<y>> \o <<month, day, wday>>
      /\ <<year>> \o <<month, day, wday>> = v
  <2>1. Quad(q, y, month, day, wday) /\ Quad(v, year, month, day, wday)
    BY <1>3, <1>7, FourOf, Zenon
  <2>. QED  BY <2>1, Zenon DEF Quad
<1>9. Len(q) = 4 /\ Carries(q)
  BY <1>2, <1>7, Four
<1>10. encode_bacnet_date(v) = q
  BY <1>4, <1>5, <1>6, <1>8
<1>11. PICK e : e = q[1] + 1900
  OBVIOUS
<1>12. e = year
  BY <1>2, <1>8, <1>11
<1>13. decode_date(q) = Decoded(Len(q), <<e>> \o Tail(q))
  <2>1. Len(q) = 4 => decode_date(q) = Decoded(Len(q), <<q[1] + 1900>> \o Tail(q))
    BY DEF decode_date
  <2>2. <<q[1] + 1900>> = <<e>>
    BY <1>11
  <2>. QED  BY <1>9, <2>1, <2>2
<1>14. decode_date(q) = Decoded(Len(q), v)
  BY <1>8, <1>12, <1>13, Zenon
<1>. QED  BY <1>9, <1>10, <1>14

\* The type in ten bits and the instance in 22, over four octets.
LEMMA ObjectIdCarried ==
  ASSUME NEW type \in Types, NEW instance \in Instances,
         NEW v, v = <<type, instance>>
  PROVE  /\ Carries(encode_bacnet_object_id(v))
         /\ decode_object_id(encode_bacnet_object_id(v))
              = Decoded(Len(encode_bacnet_object_id(v)), v)
<1>1. v[1] = type /\ v[2] = instance
  BY SMT
<1>2. /\ v[1] % (BACNET_MAX_OBJECT + 1) = type
      /\ v[2] % (BACNET_MAX_INSTANCE + 1) = instance
  BY <1>1, SMT DEF Types, Instances, BACNET_MAX_OBJECT, BACNET_MAX_INSTANCE
<1>3. type \in Int /\ instance \in Int
  BY DEF Types, Instances
<1>a. PICK a \in Int : a = type \div 4
  BY <1>3, SMT
<1>m. PICK m \in Int : m = type % 4
  BY <1>3, SMT
<1>h. PICK h \in Int : h = instance \div 65536
  BY <1>3, SMT
<1>o. Octet(instance, 1) \in Octets255 /\ Octet(instance, 0) \in Octets255
  <2>1. 0 \in 0 .. 3 /\ 1 \in 0 .. 3
    BY SMT
  <2>. QED  BY <1>3, <2>1, OctetRange DEF Octets255
<1>c. PICK c \in Octets255 : c = Octet(instance, 1)
  BY <1>o
<1>d. PICK d \in Octets255 : d = Octet(instance, 0)
  BY <1>o
<1>4. PICK b \in Int : b = 64 * m + h
  BY <1>m, <1>h, SMT
<1>5. a \in Octets255 /\ m \in 0 .. 3 /\ h \in 0 .. 63 /\ 4 * a + m = type
  BY <1>a, <1>m, <1>h, SMT DEF Octets255, Types, Instances, BACNET_MAX_OBJECT, BACNET_MAX_INSTANCE
<1>6. b \in Octets255 /\ b \div 64 = m /\ b % 64 = h
  <2>1. \A i \in 0 .. 3, j \in 0 .. 63 :
          /\ (64 * i + j) \in Octets255 /\ (64 * i + j) \div 64 = i /\ (64 * i + j) % 64 = j
    BY SMT DEF Octets255
  <2>. QED  BY <1>4, <1>5, <2>1
<1>7. c \in Octets255 /\ d \in Octets255 /\ 65536 * h + (256 * c + d) = instance
  <2>1. 256^0 = 1 /\ 256^1 = 256
    BY SMT
  <2>. QED  BY <1>3, <1>h, <1>c, <1>d, <2>1, SMT DEF Octet, Top, Octets255
<1>8. PICK q : q = <<a, b, c, d>>
  OBVIOUS
<1>i. c \in Int /\ d \in Int
  BY DEF Octets255
<1>j. Quad(q, a, b, c, d)
  BY <1>8, <1>i, FourOf, Zenon
<1>9. encode_bacnet_object_id(v) = q
  <2>1. Big(instance, 2) = <<c, d>>
    BY <1>c, <1>d, BigIs, Zenon
  <2>2. /\ (v[1] % (BACNET_MAX_OBJECT + 1)) \div 4 = a
        /\ 64 * ((v[1] % (BACNET_MAX_OBJECT + 1)) % 4)
             + ((v[2] % (BACNET_MAX_INSTANCE + 1)) \div 65536) = b
        /\ v[2] % (BACNET_MAX_INSTANCE + 1) = instance
    BY <1>2, <1>a, <1>m, <1>h, <1>4
  <2>3. encode_bacnet_object_id(v) = <<a, b>> \o Big(instance, 2)
    BY <2>2 DEF encode_bacnet_object_id
  <2>4. <<a, b>> \o <<c, d>> = q
    BY <1>j, Zenon DEF Quad
  <2>. QED  BY <2>1, <2>3, <2>4, Zenon
<1>10. q[1] = a /\ q[2] = b /\ SubSeq(q, 3, 4) = <<c, d>>
  BY <1>j, Zenon DEF Quad
<1>11. Len(q) = 4 /\ Carries(q)
  BY <1>5, <1>6, <1>7, <1>8, Four
<1>12. decode_unsigned(SubSeq(q, 3, 4)).datum = 256 * c + d
  <2>1. 256^0 = 1 /\ 256^1 = 256
    BY SMT
  <2>2. Joined(<<c, d>>) = 256 * c + d
    BY <1>i, <2>1, SMT DEF Joined, Place
  <2>3. decode_unsigned(<<c, d>>).datum = Joined(<<c, d>>)
    BY SMT DEF decode_unsigned, Decoded
  <2>. QED  BY <1>10, <2>2, <2>3
<1>13. decode_object_id(q)
         = Decoded(4, <<4 * q[1] + (q[2] \div 64),
                        65536 * (q[2] % 64) + decode_unsigned(SubSeq(q, 3, 4)).datum>>)
  BY DEF decode_object_id
<1>14. 4 * q[1] + (q[2] \div 64) = type
  BY <1>5, <1>6, <1>10
<1>15. 65536 * (q[2] % 64) + decode_unsigned(SubSeq(q, 3, 4)).datum = instance
  BY <1>6, <1>7, <1>10, <1>12
<1>16. decode_object_id(q) = Decoded(Len(q), v)
  BY <1>11, <1>13, <1>14, <1>15
<1>. QED  BY <1>9, <1>11, <1>16

\* Strings that the buffer of the receiver holds.
LEMMA OctetStringCarried ==
  ASSUME NEW v \in Message, Len(v) \in Lengths, Len(v) <= MAX_OCTET_STRING_BYTES
  PROVE  /\ Carries(v)
         /\ decode_octet_string(v) = Decoded(Len(v), v)
<1>1. octetstring_init(v).ok
  BY DEF octetstring_init
<1>. QED  BY <1>1, Zenon DEF decode_octet_string, Carries

LEMMA CharacterStringCarried ==
  ASSUME NEW encoding \in Octets255, NEW octets \in Message,
         Len(octets) <= CHARACTER_STRING_CAPACITY, Len(octets) + 1 \in Lengths,
         NEW v, v = <<encoding, octets>>
  PROVE  /\ Carries(encode_bacnet_character_string(v))
         /\ decode_character_string(encode_bacnet_character_string(v))
              = Decoded(Len(encode_bacnet_character_string(v)), v)
<1>. DEFINE q == encode_bacnet_character_string(v)
<1>1. v[1] = encoding /\ v[2] = octets
  BY SMT
<1>2. q = <<encoding>> \o octets
  BY <1>1, Zenon DEF encode_bacnet_character_string
<1>. HIDE DEF q
<1>3. Len(octets) \in Nat /\ 1 + Len(octets) = Len(octets) + 1
  <2>1. Len(octets) \in Nat
    BY DEF Message
  <2>. QED  BY <2>1, SMT
<1>4. /\ q \in Message /\ Len(q) = Len(octets) + 1
      /\ q[1] = encoding /\ Tail(q) = octets /\ q # << >>
  <2>1. octets \in Seq(Octets255)
    BY DEF Message
  <2>2. q \in Seq(Octets255) /\ Len(q) = Len(octets) + 1 /\ q[1] = encoding
    BY <1>2, <1>3, <2>1, SMT
  <2>3. Tail(q) = octets
    BY <1>2, <1>3, <2>1, SMT
  <2>4. q # << >>
    BY <1>3, <2>2, SMT
  <2>. QED  BY <2>2, <2>3, <2>4, Zenon DEF Message
<1>5. /\ characterstring_init(encoding, octets).ok
      /\ characterstring_init(encoding, octets).string = <<encoding, octets>>
  <2>1. characterstring_init(encoding, octets) = [ok |-> TRUE, string |-> <<encoding, octets>>]
    BY Zenon DEF characterstring_init
  <2>. QED  BY <2>1
<1>6. decode_character_string(q) = Decoded(Len(q), v)
  BY <1>4, <1>5, Zenon DEF decode_character_string
<1>. QED  BY <1>4, <1>6, Zenon DEF Carries, q

-----------------------------------------------------------------------------
\* Of any value of these kinds, encode_context_* and decode_context_* agree: the decoder
\* returns the value and as many octets as the encoder wrote, whatever follows them, and a
\* decoder that asks for another number returns BACNET_STATUS_ERROR.  A string is taken that
\* the receiver's buffer holds and that left the encoder at all.
THEOREM ValuesAreRead ==
  ASSUME NEW number \in 0 .. 254, NEW other, NEW rest \in Message
  PROVE  /\ \A v \in Nat : v < 256^4 =>
              /\ decode_context_unsigned(encode_context_unsigned(number, v) \o rest, other)
                   = Answer(encode_context_unsigned(number, v), v, number, other)
              /\ decode_context_enumerated(encode_context_enumerated(number, v) \o rest, other)
                   = Answer(encode_context_enumerated(number, v), v, number, other)
         /\ \A v \in Int : -128 * 256^3 <= v /\ v < 128 * 256^3 =>
              decode_context_signed(encode_context_signed(number, v) \o rest, other)
                = Answer(encode_context_signed(number, v), v, number, other)
         /\ \A v \in Message : Len(v) = 4 =>
              /\ decode_context_real(encode_context_real(number, v) \o rest, other)
                   = Answer(encode_context_real(number, v), v, number, other)
              /\ decode_context_bacnet_time(encode_context_time(number, v) \o rest, other)
                   = Answer(encode_context_time(number, v), v, number, other)
         /\ \A v \in Message : Len(v) = 8 =>
              decode_context_double(encode_context_double(number, v) \o rest, other)
                = Answer(encode_context_double(number, v), v, number, other)
         /\ \A year \in SentYears, month \in Octets255, day \in Octets255, wday \in Octets255 :
              LET v == <<year, month, day, wday>>
              IN  decode_context_date(encode_context_date(number, v) \o rest, other)
                    = Answer(encode_context_date(number, v), v, number, other)
         /\ \A type \in Types, instance \in Instances :
              LET v == <<type, instance>>
              IN  decode_context_object_id(encode_context_object_id(number, v) \o rest, other)
                    = Answer(encode_context_object_id(number, v), v, number, other)
         /\ \A v \in BOOLEAN :
              decode_context_boolean2(encode_context_boolean(number, v) \o rest, other)
                = Answer(encode_context_boolean(number, v), v, number, other)
         /\ \A v \in Message :
              Len(v) <= MAX_OCTET_STRING_BYTES /\ Len(v) \in Lengths
              /\ encode_context_octet_string(number, v) # << >> =>
              decode_context_octet_string(encode_context_octet_string(number, v) \o rest, other)
                = Answer(encode_context_octet_string(number, v), v, number, other)
         /\ \A encoding \in Octets255, octets \in Message :
              LET v    == <<encoding, octets>>
                  sent == encode_context_character_string(number, v)
              IN  Len(octets) <= CHARACTER_STRING_CAPACITY /\ Len(octets) + 1 \in Lengths
                  /\ sent # << >> =>
                  decode_context_character_string(sent \o rest, other)
                    = Answer(sent, v, number, other)
<1>0. \A content, v : Carries(content) =>
        /\ Field(Context(number, content) \o rest) = content
        /\ Taken(Context(number, content) \o rest, other, Decoded(Len(content), v))
             = Answer(Context(number, content), v, number, other)
  <2>. SUFFICES ASSUME NEW content, NEW v, Carries(content)
                PROVE  /\ Field(Context(number, content) \o rest) = content
                       /\ Taken(Context(number, content) \o rest, other, Decoded(Len(content), v))
                            = Answer(Context(number, content), v, number, other)
    OBVIOUS
  <2>1. number \in Numbers
    BY Zenon DEF Numbers
  <2>2. Returns(number, content, rest, v, other)
    BY <2>1, AnswerIs, Zenon
  <2>. QED  BY <2>2, Zenon DEF Returns
<1>1. ASSUME NEW v \in Nat, v < 256^4
      PROVE  /\ decode_context_unsigned(encode_context_unsigned(number, v) \o rest, other)
                     = Answer(encode_context_unsigned(number, v), v, number, other)
             /\ decode_context_enumerated(encode_context_enumerated(number, v) \o rest, other)
                     = Answer(encode_context_enumerated(number, v), v, number, other)
  <2>1. Carries(encode_bacnet_unsigned(v)) /\ decode_unsigned(encode_bacnet_unsigned(v)) = Decoded(Len(encode_bacnet_unsigned(v)), v)
    BY <1>1, UnsignedCarried
  <2>2. encode_context_unsigned(number, v) = Context(number, encode_bacnet_unsigned(v))
    BY Zenon DEF encode_context_unsigned
  <2>3. encode_context_enumerated(number, v) = Context(number, encode_bacnet_unsigned(v))
    BY Zenon DEF encode_context_enumerated
  <2>4. PICK apdu : apdu = Context(number, encode_bacnet_unsigned(v)) \o rest
    OBVIOUS
  <2>5. /\ Field(apdu) = encode_bacnet_unsigned(v)
        /\ Taken(apdu, other, Decoded(Len(encode_bacnet_unsigned(v)), v)) = Answer(Context(number, encode_bacnet_unsigned(v)), v, number, other)
    BY <1>0, <2>4, <2>1, <2>2, Zenon
  <2>6. /\ decode_context_unsigned(apdu, other) = Taken(apdu, other, decode_unsigned(Field(apdu)))
        /\ decode_context_enumerated(apdu, other) = Taken(apdu, other, decode_unsigned(Field(apdu)))
    BY InContextIs
  <2>. QED  BY <2>1, <2>2, <2>3, <2>4, <2>5, <2>6, Zenon
<1>2. ASSUME NEW v \in Int, -128 * 256^3 <= v, v < 128 * 256^3
      PROVE  decode_context_signed(encode_context_signed(number, v) \o rest, other)
                  = Answer(encode_context_signed(number, v), v, number, other)
  <2>1. Carries(encode_bacnet_signed(v)) /\ decode_signed(encode_bacnet_signed(v)) = Decoded(Len(encode_bacnet_signed(v)), v)
    BY <1>2, SignedCarried
  <2>2. encode_context_signed(number, v) = Context(number, encode_bacnet_signed(v))
    BY Zenon DEF encode_context_signed
  <2>3. PICK apdu : apdu = Context(number, encode_bacnet_signed(v)) \o rest
    OBVIOUS
  <2>4. /\ Field(apdu) = encode_bacnet_signed(v)
        /\ Taken(apdu, other, Decoded(Len(encode_bacnet_signed(v)), v)) = Answer(Context(number, encode_bacnet_signed(v)), v, number, other)
    BY <1>0, <2>3, <2>1, <2>2, Zenon
  <2>5. decode_context_signed(apdu, other) = Taken(apdu, other, decode_signed(Field(apdu)))
    BY InContextIs
  <2>. QED  BY <2>1, <2>2, <2>3, <2>4, <2>5, Zenon
<1>3. ASSUME NEW v \in Message, Len(v) = 4
      PROVE  decode_context_real(encode_context_real(number, v) \o rest, other)
                  = Answer(encode_context_real(number, v), v, number, other)
  <2>1. Carries(encode_bacnet_real(v)) /\ decode_real_safe(encode_bacnet_real(v)) = Decoded(Len(encode_bacnet_real(v)), v)
    BY <1>3, RealCarried, Zenon
  <2>2. encode_context_real(number, v) = Context(number, encode_bacnet_real(v))
    BY Zenon DEF encode_context_real
  <2>3. PICK apdu : apdu = Context(number, encode_bacnet_real(v)) \o rest
    OBVIOUS
  <2>4. /\ Field(apdu) = encode_bacnet_real(v)
        /\ Taken(apdu, other, Decoded(Len(encode_bacnet_real(v)), v)) = Answer(Context(number, encode_bacnet_real(v)), v, number, other)
    BY <1>0, <2>3, <2>1, <2>2, Zenon
  <2>5. decode_context_real(apdu, other) = Taken(apdu, other, decode_real_safe(Field(apdu)))
    BY InContextIs
  <2>. QED  BY <2>1, <2>2, <2>3, <2>4, <2>5, Zenon
<1>4. ASSUME NEW v \in Message, Len(v) = 4
      PROVE  decode_context_bacnet_time(encode_context_time(number, v) \o rest, other)
                  = Answer(encode_context_time(number, v), v, number, other)
  <2>1. Carries(encode_bacnet_time(v)) /\ decode_bacnet_time(encode_bacnet_time(v)) = Decoded(Len(encode_bacnet_time(v)), v)
    BY <1>4, TimeCarried, Zenon
  <2>2. encode_context_time(number, v) = Context(number, encode_bacnet_time(v))
    BY Zenon DEF encode_context_time
  <2>3. PICK apdu : apdu = Context(number, encode_bacnet_time(v)) \o rest
    OBVIOUS
  <2>4. /\ Field(apdu) = encode_bacnet_time(v)
        /\ Taken(apdu, other, Decoded(Len(encode_bacnet_time(v)), v)) = Answer(Context(number, encode_bacnet_time(v)), v, number, other)
    BY <1>0, <2>3, <2>1, <2>2, Zenon
  <2>5. decode_context_bacnet_time(apdu, other) = Taken(apdu, other, decode_bacnet_time(Field(apdu)))
    BY InContextIs
  <2>. QED  BY <2>1, <2>2, <2>3, <2>4, <2>5, Zenon
<1>5. ASSUME NEW v \in Message, Len(v) = 8
      PROVE  decode_context_double(encode_context_double(number, v) \o rest, other)
                  = Answer(encode_context_double(number, v), v, number, other)
  <2>1. Carries(encode_bacnet_double(v)) /\ decode_double_safe(encode_bacnet_double(v)) = Decoded(Len(encode_bacnet_double(v)), v)
    BY <1>5, RealCarried, Zenon
  <2>2. encode_context_double(number, v) = Context(number, encode_bacnet_double(v))
    BY Zenon DEF encode_context_double
  <2>3. PICK apdu : apdu = Context(number, encode_bacnet_double(v)) \o rest
    OBVIOUS
  <2>4. /\ Field(apdu) = encode_bacnet_double(v)
        /\ Taken(apdu, other, Decoded(Len(encode_bacnet_double(v)), v)) = Answer(Context(number, encode_bacnet_double(v)), v, number, other)
    BY <1>0, <2>3, <2>1, <2>2, Zenon
  <2>5. decode_context_double(apdu, other) = Taken(apdu, other, decode_double_safe(Field(apdu)))
    BY InContextIs
  <2>. QED  BY <2>1, <2>2, <2>3, <2>4, <2>5, Zenon
<1>6. ASSUME NEW year \in SentYears, NEW month \in Octets255, NEW day \in Octets255,
             NEW wday \in Octets255, NEW v, v = <<year, month, day, wday>>
      PROVE  decode_context_date(encode_context_date(number, v) \o rest, other)
                  = Answer(encode_context_date(number, v), v, number, other)
  <2>1. Carries(encode_bacnet_date(v)) /\ decode_date(encode_bacnet_date(v)) = Decoded(Len(encode_bacnet_date(v)), v)
    BY <1>6, DateCarried, ZenonT(60)
  <2>2. encode_context_date(number, v) = Context(number, encode_bacnet_date(v))
    BY Zenon DEF encode_context_date
  <2>3. PICK apdu : apdu = Context(number, encode_bacnet_date(v)) \o rest
    OBVIOUS
  <2>4. /\ Field(apdu) = encode_bacnet_date(v)
        /\ Taken(apdu, other, Decoded(Len(encode_bacnet_date(v)), v)) = Answer(Context(number, encode_bacnet_date(v)), v, number, other)
    BY <1>0, <2>3, <2>1, <2>2, Zenon
  <2>5. decode_context_date(apdu, other) = Taken(apdu, other, decode_date(Field(apdu)))
    BY InContextIs
  <2>. QED  BY <2>1, <2>2, <2>3, <2>4, <2>5, Zenon
<1>7. ASSUME NEW type \in Types, NEW instance \in Instances, NEW v, v = <<type, instance>>
      PROVE  decode_context_object_id(encode_context_object_id(number, v) \o rest, other)
                  = Answer(encode_context_object_id(number, v), v, number, other)
  <2>1. Carries(encode_bacnet_object_id(v)) /\ decode_object_id(encode_bacnet_object_id(v)) = Decoded(Len(encode_bacnet_object_id(v)), v)
    BY <1>7, ObjectIdCarried, Zenon
  <2>2. encode_context_object_id(number, v) = Context(number, encode_bacnet_object_id(v))
    BY Zenon DEF encode_context_object_id
  <2>3. PICK apdu : apdu = Context(number, encode_bacnet_object_id(v)) \o rest
    OBVIOUS
  <2>4. /\ Field(apdu) = encode_bacnet_object_id(v)
        /\ Taken(apdu, other, Decoded(Len(encode_bacnet_object_id(v)), v)) = Answer(Context(number, encode_bacnet_object_id(v)), v, number, other)
    BY <1>0, <2>3, <2>1, <2>2, Zenon
  <2>5. decode_context_object_id(apdu, other) = Taken(apdu, other, decode_object_id(Field(apdu)))
    BY InContextIs
  <2>. QED  BY <2>1, <2>2, <2>3, <2>4, <2>5, Zenon
<1>8. ASSUME NEW v \in BOOLEAN
      PROVE  decode_context_boolean2(encode_context_boolean(number, v) \o rest, other)
                  = Answer(encode_context_boolean(number, v), v, number, other)
  <2>1. PICK octets : octets = IF v THEN << 1 >> ELSE << 0 >>
    OBVIOUS
  <2>2. Carries(octets) /\ decode_context_boolean(octets) = Decoded(Len(octets), v)
    BY <2>1, BooleanCarried
  <2>3. encode_context_boolean(number, v) = Context(number, octets)
    BY <2>1, Zenon DEF encode_context_boolean
  <2>4. PICK apdu : apdu = Context(number, octets) \o rest
    OBVIOUS
  <2>5. /\ Field(apdu) = octets
        /\ Taken(apdu, other, Decoded(Len(octets), v)) = Answer(Context(number, octets), v, number, other)
    BY <1>0, <2>4, <2>1, <2>2, Zenon
  <2>6. decode_context_boolean2(apdu, other) = Taken(apdu, other, decode_context_boolean(Field(apdu)))
    BY InContextIs
  <2>. QED  BY <2>2, <2>3, <2>4, <2>5, <2>6, Zenon
<1>9. ASSUME NEW v \in Message, Len(v) <= MAX_OCTET_STRING_BYTES, Len(v) \in Lengths,
             encode_context_octet_string(number, v) # << >>
      PROVE  decode_context_octet_string(encode_context_octet_string(number, v) \o rest, other)
                  = Answer(encode_context_octet_string(number, v), v, number, other)
  <2>1. Carries(v) /\ decode_octet_string(v) = Decoded(Len(v), v)
    BY <1>9, OctetStringCarried, Zenon
  <2>2. encode_context_octet_string(number, v) = Context(number, v)
    BY <1>9, Zenon DEF encode_context_octet_string, Fitting
  <2>3. PICK apdu : apdu = Context(number, v) \o rest
    OBVIOUS
  <2>4. /\ Field(apdu) = v
        /\ Taken(apdu, other, Decoded(Len(v), v)) = Answer(Context(number, v), v, number, other)
    BY <1>0, <2>3, <2>1, <2>2, Zenon
  <2>5. decode_context_octet_string(apdu, other) = Taken(apdu, other, decode_octet_string(Field(apdu)))
    BY InContextIs
  <2>. QED  BY <2>1, <2>2, <2>3, <2>4, <2>5, Zenon
<1>10. ASSUME NEW encoding \in Octets255, NEW octets \in Message,
              Len(octets) <= CHARACTER_STRING_CAPACITY, Len(octets) + 1 \in Lengths,
              NEW v, v = <<encoding, octets>>,
              encode_context_character_string(number, v) # << >>
       PROVE  decode_context_character_string(
                encode_context_character_string(number, v) \o rest, other)
                  = Answer(encode_context_character_string(number, v), v, number, other)
  <2>1. PICK content : content = encode_bacnet_character_string(v)
    OBVIOUS
  <2>2. Carries(content) /\ decode_character_string(content) = Decoded(Len(content), v)
    BY <1>10, <2>1, CharacterStringCarried
  <2>3. encode_context_character_string(number, v) = Context(number, content)
    BY <1>10, <2>1, Zenon DEF encode_context_character_string, Fitting
  <2>4. PICK apdu : apdu = Context(number, content) \o rest
    OBVIOUS
  <2>5. /\ Field(apdu) = content
        /\ Taken(apdu, other, Decoded(Len(content), v)) = Answer(Context(number, content), v, number, other)
    BY <1>0, <2>4, <2>1, <2>2, Zenon
  <2>6. decode_context_character_string(apdu, other) = Taken(apdu, other, decode_character_string(Field(apdu)))
    BY InContextIs
  <2>. QED  BY <2>2, <2>3, <2>4, <2>5, <2>6, Zenon
<1>. QED  BY <1>1, <1>2, <1>3, <1>4, <1>5, <1>6, <1>7, <1>8, <1>9, <1>10
=============================================================================
