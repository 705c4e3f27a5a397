---------------------------- MODULE Server_proofs ----------------------------
(***************************************************************************)
(* The device as a server, for any requests in any order, any number of    *)
(* objects of a type and any length of a WritePropertyMultiple: what is    *)
(* refused changes nothing, the directory of objects changes only with its *)
(* revision, a commandable object shows the command that prevails, no two  *)
(* objects have the same name, every property an object lists is read, and *)
(* what was acknowledged is read next.                                     *)
(*                                                                         *)
(* Each Write_Property function is looked at once, for what it leaves of   *)
(* its table; the handlers add what they do before and after it, and a     *)
(* WritePropertyMultiple is taken as the turns of a loop.                  *)
(***************************************************************************)
EXTENDS Server, SlotFacts, SequenceTheorems, TLAPS

\* A write that is refused leaves the table as it was.
Kept(result, table) == result.ok \in BOOLEAN /\ (~ result.ok => result.table = table)

LEMMA KeptByChecks ==
  ASSUME NEW table, NEW value, NEW tag, NEW result, Kept(result, table)
  PROVE  Kept(ValidateArgType(table, value, tag, result), table)
BY DEF Kept, ValidateArgType, WrongType, Denied

LEMMA KeptByCourse ==
  ASSUME NEW table, NEW w, NEW arrays, NEW result, Kept(result, table)
  PROVE  Kept(Write(table, w, arrays, result), table)
BY DEF Kept, Write, OutOfRange, Denied

LEMMA KeptByShared ==
  ASSUME NEW table, NEW i, NEW w
  PROVE  /\ Kept(WriteOutOfService(table, i, w), table)
         /\ \A room : Kept(WriteUnits(table, i, w, room), table)
         /\ Kept(WriteBinary(table, i, w), table)
         /\ Kept(WriteMultiState(table, i, w), table)
         /\ \A tag : Kept(WriteNumber(table, i, w, tag), table)
<1>. USE DEF Kept, Write, AccessDenied, OutOfRange, WrongType, Denied, Written, ValidateArgType
<1>1. Kept(WriteOutOfService(table, i, w), table)
  BY DEF WriteOutOfService
<1>2. \A room : Kept(WriteUnits(table, i, w, room), table)
  BY DEF WriteUnits
<1>3. Kept(WriteBinary(table, i, w), table)
  BY DEF WriteBinary, Command
<1>4. Kept(WriteMultiState(table, i, w), table)
  BY <1>1 DEF WriteMultiState, Command
<1>5. ASSUME NEW tag PROVE Kept(WriteNumber(table, i, w, tag), table)
  BY <1>1, <1>2 DEF WriteNumber, Set
<1>. QED  BY <1>1, <1>2, <1>3, <1>4, <1>5

\* Every Write_Property function of the object types leaves its table when it refuses.
LEMMA KeptByObjects ==
  ASSUME NEW table, NEW i, NEW w
  PROVE  /\ Kept(AI_Write_Property(table, i, w), table)
         /\ Kept(AO_Write_Property(table, i, w), table)
         /\ Kept(AV_Write_Property(table, i, w), table)
         /\ Kept(BI_Write_Property(table, i, w), table)
         /\ Kept(BO_Write_Property(table, i, w), table)
         /\ Kept(BV_Write_Property(table, i, w), table)
         /\ Kept(MSI_Write_Property(table, i, w), table)
         /\ Kept(MSO_Write_Property(table, i, w), table)
         /\ Kept(MSV_Write_Property(table, i, w), table)
         /\ Kept(IV_Write_Property(table, i, w), table)
         /\ Kept(PIV_Write_Property(table, i, w), table)
         /\ Kept(LAV_Write_Property(table, i, w), table)
         /\ Kept(CSV_Write_Property(table, i, w), table)
         /\ Kept(TL_Write_Property(table, i, w), table)
         /\ Kept(ACC_Write_Property(table, i, w), table)
         /\ Kept(NP_Write_Property(table, i, w), table)
         /\ Kept(SCH_Write_Property(table, i, w), table)
<1>1. /\ Kept(WriteOutOfService(table, i, w), table)
      /\ \A room : Kept(WriteUnits(table, i, w, room), table)
      /\ Kept(WriteBinary(table, i, w), table)
  BY KeptByShared
<1>. USE <1>1 DEF Kept, Write, AccessDenied, OutOfRange, UnknownProperty, WrongType, Denied,
       Written, ValidateArgType, Set
<1>2. Kept(AI_Write_Property(table, i, w), table)
  BY DEF AI_Write_Property
<1>3. Kept(AO_Write_Property(table, i, w), table)
  BY DEF AO_Write_Property, AO_Present_Value_Set, AO_Present_Value_Relinquish, Command
<1>4. Kept(AV_Write_Property(table, i, w), table)
  BY DEF AV_Write_Property
<1>5. Kept(BI_Write_Property(table, i, w), table)
  BY DEF BI_Write_Property
<1>6. Kept(BO_Write_Property(table, i, w), table)
  BY DEF BO_Write_Property
<1>7. Kept(BV_Write_Property(table, i, w), table)
  BY DEF BV_Write_Property
<1>8. Kept(MSI_Write_Property(table, i, w), table)
  BY DEF MSI_Write_Property
<1>9. Kept(CSV_Write_Property(table, i, w), table)
  BY DEF CSV_Write_Property
<1>10. Kept(TL_Write_Property(table, i, w), table)
  BY DEF TL_Write_Property
<1>11. Kept(ACC_Write_Property(table, i, w), table)
  BY DEF ACC_Write_Property
<1>12. Kept(NP_Write_Property(table, i, w), table)
  BY DEF NP_Write_Property
<1>13. Kept(SCH_Write_Property(table, i, w), table)
  BY DEF SCH_Write_Property
<1>14. /\ Kept(MSO_Write_Property(table, i, w), table)
       /\ Kept(MSV_Write_Property(table, i, w), table)
       /\ Kept(IV_Write_Property(table, i, w), table)
       /\ Kept(PIV_Write_Property(table, i, w), table)
       /\ Kept(LAV_Write_Property(table, i, w), table)
  BY KeptByShared DEF MSO_Write_Property, MSV_Write_Property, IV_Write_Property,
     PIV_Write_Property, LAV_Write_Property
<1>. QED
  BY <1>2, <1>3, <1>4, <1>5, <1>6, <1>7, <1>8, <1>9, <1>10, <1>11, <1>12, <1>13, <1>14

\* So does Device_Write_Property_Local.
LEMMA KeptByDevice ==
  ASSUME NEW d, NEW w
  PROVE  Kept(Device_Write_Property_Local(d, w), d.DEVICE)
BY DEF Kept, Device_Write_Property_Local, Write, AccessDenied, OutOfRange, UnknownProperty,
       WrongType, Denied, Written, ValidateArgType, WriteObjectName, WriteText, ValidateString,
       SetSystemStatus

\* The types whose objects have a table.
LEMMA ValidTypes ==
  ASSUME NEW d, NEW type, NEW i, Valid_Object_Id(d, type, i)
  PROVE  \/ type = "DEVICE"
         \/ type \in DOMAIN Valid_Instances /\ i \in Valid_Instances[type]
BY DEF Valid_Object_Id

\* And so, whatever the type, does the dispatch of device.c.
LEMMA KeptByType ==
  ASSUME NEW d, NEW type, NEW i, NEW w, Valid_Object_Id(d, type, i)
  PROVE  Kept(WriteByType(d, type, i, w), d[type])
<1>1. CASE type = "DEVICE"
  BY <1>1, KeptByDevice DEF WriteByType
<1>2. CASE type \in DOMAIN Valid_Instances
  BY <1>2, KeptByObjects DEF WriteByType, Valid_Instances
<1>. QED  BY <1>1, <1>2, ValidTypes
-----------------------------------------------------------------------------
IsFunction(d) == d = [x \in DOMAIN d |-> d[x]]

\* A write to any object that is refused leaves the database as it was.
LEMMA WriteOutcome ==
  ASSUME NEW d, IsFunction(d), NEW type, NEW i, NEW w
  PROVE  /\ Kept([ok |-> Device_Write_Property(d, type, i, w).ok,
                   table |-> Device_Write_Property(d, type, i, w).db], d)
         /\ IsFunction(Device_Write_Property(d, type, i, w).db)
<1>1. CASE ~ Valid_Object_Id(d, type, i)
  BY <1>1 DEF Device_Write_Property, Kept
<1>2. CASE Valid_Object_Id(d, type, i)
  <2>1. PICK r : r = WriteByType(d, type, i, w)
    OBVIOUS
  <2>2. Device_Write_Property(d, type, i, w)
          = [ok |-> r.ok, db |-> [d EXCEPT ![type] = r.table], error |-> r.error]
    BY <1>2, <2>1 DEF Device_Write_Property
  <2>3. Kept(r, d[type])
    BY <1>2, <2>1, KeptByType
  <2>4. IsFunction([d EXCEPT ![type] = r.table])
    BY DEF IsFunction
  <2>5. r.table = d[type] => [d EXCEPT ![type] = r.table] = d
    BY DEF IsFunction
  <2>. QED  BY <2>2, <2>3, <2>4, <2>5 DEF Kept
<1>. QED  BY <1>1, <1>2

(***************************************************************************)
(* A WritePropertyMultiple is the turns of a loop.                         *)
(***************************************************************************)
Progress(d, accesses) ==
  LET progress[n \in 0..Len(accesses)] ==
        IF n = 0 THEN [db |-> d, reply |-> SimpleAck]
        ELSE wpm_step(progress[n - 1], accesses[n])
  IN  progress

\* A WritePropertyMultiple is a loop: each access is a turn.
LEMMA ProgressTurns ==
  ASSUME NEW d, NEW accesses, Len(accesses) \in Nat
  PROVE  /\ Progress(d, accesses)[0] = [db |-> d, reply |-> SimpleAck]
         /\ \A n \in 1 .. Len(accesses) :
              Progress(d, accesses)[n] = wpm_step(Progress(d, accesses)[n - 1], accesses[n])
<1>. DEFINE base == [db |-> d, reply |-> SimpleAck]
            IsUpTo(g, n) ==
              g = [m \in 0 .. n |-> IF m = 0 THEN base ELSE wpm_step(g[m - 1], accesses[m])]
            S == {n \in 0 .. Len(accesses) : \E g : IsUpTo(g, n)}
<1>1. 0 \in S
  <2>1. IsUpTo([m \in 0 .. 0 |-> base], 0)
    OBVIOUS
  <2>. HIDE DEF IsUpTo
  <2>. QED  BY <2>1
<1>2. ASSUME NEW n \in S, n < Len(accesses)
      PROVE  n + 1 \in S
  <2>1. PICK g : IsUpTo(g, n)
    BY <1>2
  <2>2. PICK h : h = [m \in 0 .. n + 1 |->
                        IF m = n + 1 THEN wpm_step(g[n], accesses[n + 1]) ELSE g[m]]
    OBVIOUS
  <2>3. \A m \in 0 .. n + 1 :
          h[m] = IF m = 0 THEN base ELSE wpm_step(h[m - 1], accesses[m])
    BY <2>1, <2>2
  <2>4. h = [m \in 0 .. n + 1 |-> h[m]]
    BY <2>2
  <2>5. IsUpTo(h, n + 1)
    <3>. HIDE DEF base
    <3>. QED  BY <2>3, <2>4
  <2>. HIDE DEF IsUpTo
  <2>. QED  BY <1>2, <2>5
<1>3. S = 0 .. Len(accesses)
  <2>. HIDE DEF S
  <2>. QED  BY <1>1, <1>2, StepByStep, S \in SUBSET (0 .. Len(accesses)) DEF S
<1>4. \E g : IsUpTo(g, Len(accesses))
  BY <1>3
<1>5. IsUpTo(Progress(d, accesses), Len(accesses))
  BY <1>4 DEF Progress
<1>. QED  BY <1>5
-----------------------------------------------------------------------------
(***************************************************************************)
(* The list of objects is the lists of the types one after the other, and  *)
(* no two objects in it have the same name.                                *)
(***************************************************************************)
Join(a, b) == a \o b

\* What several sequences hold one after the other.
LEMMA FlattenTurns ==
  ASSUME NEW seqs, NEW L \in Nat, L > 0, L = Len(seqs)
  PROVE  \E q : /\ q[1] = seqs[1]
                /\ \A n \in 2 .. L : q[n] = Join(q[n - 1], seqs[n])
                /\ FlattenSeq(seqs) = q[L]
<1>. DEFINE IsUpTo(g, n) ==
              g = [m \in 1 .. n |-> IF m = 1 THEN seqs[m] ELSE Join(g[m - 1], seqs[m])]
            S == {n \in 0 .. L : \E g : IsUpTo(g, n)}
<1>1. 0 \in S
  <2>1. IsUpTo([m \in 1 .. 0 |-> seqs[m]], 0)
    OBVIOUS
  <2>. HIDE DEF IsUpTo
  <2>. QED  BY <2>1
<1>2. ASSUME NEW n \in S, n < L
      PROVE  n + 1 \in S
  <2>1. PICK g : IsUpTo(g, n)
    BY <1>2
  <2>2. PICK h : h = [m \in 1 .. n + 1 |->
                        IF m # n + 1 THEN g[m]
                        ELSE IF m = 1 THEN seqs[m] ELSE Join(g[n], seqs[n + 1])]
    OBVIOUS
  <2>3. \A m \in 1 .. n + 1 : h[m] = IF m = 1 THEN seqs[m] ELSE Join(h[m - 1], seqs[m])
    BY <2>1, <2>2
  <2>4. h = [m \in 1 .. n + 1 |-> h[m]]
    BY <2>2
  <2>5. IsUpTo(h, n + 1)
    BY <2>3, <2>4
  <2>. HIDE DEF IsUpTo
  <2>. QED  BY <1>2, <2>5
<1>3. S = 0 .. L
  <2>. HIDE DEF S
  <2>. QED  BY <1>1, <1>2, StepByStep, S \in SUBSET (0 .. L) DEF S
<1>4. \E g : IsUpTo(g, L)
  <2>1. L \in S
    <3>. HIDE DEF S
    <3>. QED  BY <1>3
  <2>. HIDE DEF IsUpTo
  <2>. QED  BY <2>1
<1>5. PICK q : q = CHOOSE g : IsUpTo(g, L)
  OBVIOUS
<1>6. FlattenSeq(seqs) = q[L]
  BY <1>5 DEF FlattenSeq, Join
<1>7. IsUpTo(q, L)
  <2>. HIDE DEF IsUpTo
  <2>. QED  BY <1>4, <1>5
<1>8. q[1] = seqs[1] /\ \A n \in 2 .. L : q[n] = Join(q[n - 1], seqs[n])
  BY <1>7
<1>. QED  BY <1>6, <1>8

\* Two sequences joined hold what either holds.
LEMMA JoinRange ==
  ASSUME NEW X, NEW a \in Seq(X), NEW b \in Seq(X)
  PROVE  Join(a, b) \in Seq(X) /\ Range(Join(a, b)) = Range(a) \cup Range(b)
<1>1. PICK m, n, c : m \in Nat /\ n \in Nat /\ m = Len(a) /\ n = Len(b) /\ c = a \o b
  <2>1. Len(a) \in Nat /\ Len(b) \in Nat
    OBVIOUS
  <2>. QED  BY <2>1
<1>2. /\ c \in Seq(X) /\ DOMAIN c = 1 .. m + n /\ DOMAIN a = 1 .. m /\ DOMAIN b = 1 .. n
      /\ \A k \in 1 .. m : c[k] = a[k]
      /\ \A k \in 1 .. n : c[m + k] = b[k]
  BY <1>1
<1>3. Range(c) \subseteq Range(a) \cup Range(b)
  <2>1. ASSUME NEW k \in 1 .. m + n PROVE c[k] \in Range(a) \cup Range(b)
    <3>1. CASE k <= m
      BY <1>1, <1>2, <3>1 DEF Range
    <3>2. CASE k > m
      <4>1. k - m \in 1 .. n /\ m + (k - m) = k
        BY <1>1, <3>2
      <4>. QED  BY <1>2, <4>1 DEF Range
    <3>. QED  BY <1>1, <3>1, <3>2
  <2>. QED  BY <1>2, <2>1 DEF Range
<1>4. Range(a) \subseteq Range(c)
  <2>1. \A k \in 1 .. m : k \in 1 .. m + n
    BY <1>1
  <2>. QED  BY <1>2, <2>1 DEF Range
<1>5. Range(b) \subseteq Range(c)
  <2>1. \A k \in 1 .. n : m + k \in 1 .. m + n
    BY <1>1
  <2>. QED  BY <1>2, <2>1 DEF Range
<1>. QED  BY <1>1, <1>2, <1>3, <1>4, <1>5 DEF Join

\* What FlattenSeq returns holds what the sequences hold, by induction over their number.
LEMMA FlattenRange ==
  ASSUME NEW X, NEW seqs \in Seq(Seq(X)), seqs # << >>
  PROVE  /\ FlattenSeq(seqs) \in Seq(X)
         /\ \A x : x \in Range(FlattenSeq(seqs)) <=> \E n \in DOMAIN seqs : x \in Range(seqs[n])
<1>1. PICK top \in Nat : top + 1 = Len(seqs)
  <2>1. Len(seqs) \in Nat /\ Len(seqs) # 0
    OBVIOUS
  <2>2. Len(seqs) - 1 \in Nat /\ (Len(seqs) - 1) + 1 = Len(seqs)
    BY <2>1
  <2>. QED  BY <2>2
<1>2. PICK q : /\ q[1] = seqs[1]
               /\ \A n \in 2 .. top + 1 : q[n] = Join(q[n - 1], seqs[n])
               /\ FlattenSeq(seqs) = q[top + 1]
  <2>1. PICK L \in Nat : L = top + 1 /\ L > 0 /\ L = Len(seqs)
    BY <1>1
  <2>2. \E q : /\ q[1] = seqs[1]
               /\ \A n \in 2 .. L : q[n] = Join(q[n - 1], seqs[n])
               /\ FlattenSeq(seqs) = q[L]
    BY <2>1, FlattenTurns
  <2>. QED  BY <2>1, <2>2
<1>3. \A n \in 1 .. top + 1 : seqs[n] \in Seq(X)
  BY <1>1
<1>. DEFINE Holds(n) == /\ q[n] \in Seq(X)
                        /\ \A x : x \in Range(q[n]) <=> \E m \in 1 .. n : x \in Range(seqs[m])
            S == {n \in 0 .. top : Holds(n + 1)}
<1>4. 0 \in S
  <2>1. Holds(1)
    <3>1. 1 .. 1 = {1} /\ 1 \in 1 .. top + 1
      OBVIOUS
    <3>. QED  BY <1>2, <1>3, <3>1
  <2>. HIDE DEF Holds
  <2>. QED  BY <2>1
<1>5. ASSUME NEW n \in S, n < top
      PROVE  n + 1 \in S
  <2>1. q[n + 2] = Join(q[n + 1], seqs[n + 2]) /\ n + 2 \in 1 .. top + 1
    <3>1. n + 2 \in 2 .. top + 1 /\ (n + 2) - 1 = n + 1
      BY <1>5
    <3>. QED  BY <1>2, <3>1
  <2>2. PICK a, b : a = q[n + 1] /\ b = seqs[n + 2]
    OBVIOUS
  <2>3. Holds(n + 1)
    BY <1>5
  <2>4. a \in Seq(X) /\ b \in Seq(X)
    BY <1>3, <2>1, <2>2, <2>3
  <2>5. Join(a, b) \in Seq(X) /\ Range(Join(a, b)) = Range(a) \cup Range(b)
    BY <2>4, JoinRange
  <2>6. Holds(n + 2)
    <3>1. \A x : x \in Range(a) <=> \E m \in 1 .. n + 1 : x \in Range(seqs[m])
      BY <2>2, <2>3
    <3>2. 1 .. n + 2 = (1 .. n + 1) \cup {n + 2}
      BY <1>5
    <3>3. q[n + 2] = Join(a, b)
      BY <2>1, <2>2
    <3>4. \A x : x \in Range(Join(a, b)) <=> \E m \in 1 .. n + 2 : x \in Range(seqs[m])
      BY <2>2, <2>5, <3>1, <3>2
    <3>. QED  BY <2>5, <3>3, <3>4
  <2>7. n + 1 \in 0 .. top /\ (n + 1) + 1 = n + 2
    BY <1>5
  <2>. HIDE DEF Holds
  <2>. QED  BY <2>6, <2>7
<1>6. S = 0 .. top
  <2>. HIDE DEF S
  <2>. QED  BY <1>4, <1>5, StepByStep, S \in SUBSET (0 .. top) DEF S
<1>7. Holds(top + 1)
  <2>1. top \in S
    <3>. HIDE DEF S
    <3>. QED  BY <1>6
  <2>. HIDE DEF Holds
  <2>. QED  BY <2>1
<1>8. DOMAIN seqs = 1 .. top + 1
  BY <1>1
<1>. QED  BY <1>2, <1>7, <1>8

OtherTypes == Range(ObjectTypes) \ {"DEVICE"}

\* The object types, by name.
LEMMA TypesAre ==
  Range(ObjectTypes) =
    {"DEVICE", "ANALOG_INPUT", "ANALOG_OUTPUT", "ANALOG_VALUE", "BINARY_INPUT",
     "BINARY_OUTPUT", "BINARY_VALUE", "MULTI_STATE_INPUT", "MULTI_STATE_OUTPUT",
     "MULTI_STATE_VALUE", "INTEGER_VALUE", "POSITIVE_INTEGER_VALUE",
     "CHARACTERSTRING_VALUE", "LARGE_ANALOG_VALUE", "TREND_LOG", "ACCUMULATOR",
     "NETWORK_PORT", "SCHEDULE"}
<1>1. DOMAIN ObjectTypes = 1 .. 18
  BY DEF ObjectTypes
<1>2. 1 .. 18 = {1, 2, 3, 4, 5, 6, 7, 8, 9, 10, 11, 12, 13, 14, 15, 16, 17, 18}
  OBVIOUS
<1>3. /\ ObjectTypes[1] = "DEVICE" /\ ObjectTypes[2] = "ANALOG_INPUT"
      /\ ObjectTypes[3] = "ANALOG_OUTPUT" /\ ObjectTypes[4] = "ANALOG_VALUE"
      /\ ObjectTypes[5] = "BINARY_INPUT" /\ ObjectTypes[6] = "BINARY_OUTPUT"
      /\ ObjectTypes[7] = "BINARY_VALUE" /\ ObjectTypes[8] = "MULTI_STATE_INPUT"
      /\ ObjectTypes[9] = "MULTI_STATE_OUTPUT" /\ ObjectTypes[10] = "MULTI_STATE_VALUE"
      /\ ObjectTypes[11] = "INTEGER_VALUE" /\ ObjectTypes[12] = "POSITIVE_INTEGER_VALUE"
      /\ ObjectTypes[13] = "CHARACTERSTRING_VALUE" /\ ObjectTypes[14] = "LARGE_ANALOG_VALUE"
      /\ ObjectTypes[15] = "TREND_LOG" /\ ObjectTypes[16] = "ACCUMULATOR"
      /\ ObjectTypes[17] = "NETWORK_PORT" /\ ObjectTypes[18] = "SCHEDULE"
  BY DEF ObjectTypes
<1>4. Range(ObjectTypes) = {ObjectTypes[n] : n \in 1 .. 18}
  BY <1>1 DEF Range
<1>. QED  BY <1>2, <1>3, <1>4

\* An object other than the device is named by its type and its number.
LEMMA ObjectNames ==
  ASSUME NEW d, NEW type \in OtherTypes, NEW i
  PROVE  Object_Name(d, type, i) = Ansi(type, i)
BY TypesAre, SMT DEF OtherTypes, Object_Name,
   AI_Object_Name, AO_Object_Name, AV_Object_Name, BI_Object_Name, BO_Object_Name,
   BV_Object_Name, MSI_Object_Name, MSO_Object_Name, MSV_Object_Name, IV_Object_Name,
   PIV_Object_Name, CSV_Object_Name, LAV_Object_Name, TL_Object_Name, ACC_Object_Name,
   NP_Object_Name, SCH_Object_Name

\* Such names differ between objects.
LEMMA NamesDiffer ==
  ASSUME NEW type \in OtherTypes, NEW other \in OtherTypes, NEW i, NEW j,
         Ansi(type, i) = Ansi(other, j)
  PROVE  type = other /\ i = j
BY DEF Ansi

\* There is one device, and of every other type a fixed number of objects.
LEMMA CountsAreNat ==
  ASSUME NEW type \in Range(ObjectTypes)
  PROVE  /\ Object_Count(type) \in Nat
         /\ type = "DEVICE" => Object_Count(type) = 1
BY TypesAre, MaxObjectsAssumption, SMT DEF Object_Count, Object_Counts,
   AI_Count, AO_Count, AV_Count, BI_Count, BO_Count,
   BV_Count, MSI_Count, MSO_Count, MSV_Count, IV_Count,
   PIV_Count, CSV_Count, LAV_Count, TL_Count, ACC_Count,
   NP_Count, SCH_Count

\* The object list holds each object its type counts, and nothing else.
LEMMA ListHolds ==
  ASSUME NEW d
  PROVE  /\ \E X : Object_List(d) \in Seq(X)
         /\ \A id : id \in Range(Object_List(d)) <=>
              \E type \in Range(ObjectTypes) : \E k \in 1 .. Object_Count(type) :
                id = <<type, Object_Instance(d, type, k - 1)>>
<1>. DEFINE Id(type, k) == <<type, Object_Instance(d, type, k - 1)>>
            Segment(type) == [k \in 1 .. Object_Count(type) |-> Id(type, k)]
            X == UNION {{Id(type, k) : k \in 1 .. Object_Count(type)} : type \in Range(ObjectTypes)}
<1>1. PICK seqs : seqs = [t \in DOMAIN ObjectTypes |-> Segment(ObjectTypes[t])]
  OBVIOUS
<1>2. Object_List(d) = FlattenSeq(seqs)
  BY <1>1 DEF Object_List
<1>3. DOMAIN ObjectTypes = 1 .. 18 /\ \A t \in 1 .. 18 : ObjectTypes[t] \in Range(ObjectTypes)
  BY DEF ObjectTypes, Range
<1>4. \A type \in Range(ObjectTypes) :
        /\ Segment(type) \in Seq(X)
        /\ \A id : id \in Range(Segment(type)) <=>
             \E k \in 1 .. Object_Count(type) : id = Id(type, k)
  <2>1. ASSUME NEW type \in Range(ObjectTypes)
        PROVE  /\ Segment(type) \in Seq(X)
               /\ \A id : id \in Range(Segment(type)) <=>
                    \E k \in 1 .. Object_Count(type) : id = Id(type, k)
    <3>1. PICK n : n \in Nat /\ n = Object_Count(type)
      BY CountsAreNat
    <3>2. \A k \in 1 .. n : Id(type, k) \in X
      BY <3>1
    <3>. HIDE DEF Id, X
    <3>3. Segment(type) = [k \in 1 .. n |-> Id(type, k)]
      BY <3>1
    <3>4. [k \in 1 .. n |-> Id(type, k)] \in Seq(X)
      BY <3>1, <3>2
    <3>. HIDE DEF Segment
    <3>5. Range(Segment(type)) = {Id(type, k) : k \in 1 .. n}
      BY <3>3 DEF Range
    <3>. QED  BY <3>1, <3>3, <3>4, <3>5
  <2>. QED  BY <2>1
<1>. HIDE DEF Id, X, Segment
<1>5. seqs \in Seq(Seq(X)) /\ seqs # << >> /\ DOMAIN seqs = 1 .. 18
  <2>1. seqs = [t \in 1 .. 18 |-> Segment(ObjectTypes[t])]
    BY <1>1, <1>3
  <2>2. \A t \in 1 .. 18 : Segment(ObjectTypes[t]) \in Seq(X)
    BY <1>3, <1>4
  <2>3. seqs \in Seq(Seq(X)) /\ Len(seqs) = 18
    BY <2>1, <2>2
  <2>. QED  BY <2>1, <2>3
<1>6. /\ FlattenSeq(seqs) \in Seq(X)
      /\ \A x : x \in Range(FlattenSeq(seqs)) <=> \E n \in DOMAIN seqs : x \in Range(seqs[n])
  BY <1>5, FlattenRange
<1>7. \A x : x \in Range(Object_List(d)) <=>
        \E n \in 1 .. 18 : x \in Range(Segment(ObjectTypes[n]))
  BY <1>1, <1>2, <1>3, <1>5, <1>6
<1>8. \A x : x \in Range(Object_List(d)) <=>
        \E type \in Range(ObjectTypes) : x \in Range(Segment(type))
  <2>1. \A type : type \in Range(ObjectTypes) <=> \E n \in 1 .. 18 : type = ObjectTypes[n]
    BY <1>3 DEF Range
  <2>. QED  BY <1>7, <2>1
<1>9. \A x : x \in Range(Object_List(d)) <=>
        \E type \in Range(ObjectTypes) : \E k \in 1 .. Object_Count(type) : x = Id(type, k)
  BY <1>4, <1>8
<1>. QED  BY <1>2, <1>6, <1>9 DEF Id

\* No object but the device goes by the name.
Apart(name) ==
  \A type \in OtherTypes : \A k \in 1 .. Object_Count(type) : name # Ansi(type, k - 1)

\* A name no listed object has is apart from the names of the others.
LEMMA FreeIsApart ==
  ASSUME NEW d, NEW name, NamedObjects(d, name) = {}
  PROVE  Apart(name)
<1>. SUFFICES ASSUME NEW type \in OtherTypes, NEW k \in 1 .. Object_Count(type)
              PROVE  name # Ansi(type, k - 1)
  BY DEF Apart
<1>1. PICK list : list = Object_List(d)
  OBVIOUS
<1>2. type \in Range(ObjectTypes) /\ Object_Instance(d, type, k - 1) = k - 1
  BY DEF OtherTypes, Object_Instance
<1>3. <<type, k - 1>> \in Range(list)
  BY <1>1, <1>2, ListHolds
<1>4. PICK n : n \in DOMAIN list /\ list[n] = <<type, k - 1>>
  BY <1>3 DEF Range
<1>5. Object_Name(d, list[n][1], list[n][2]) # name
  BY <1>1, <1>4 DEF NamedObjects
<1>6. Object_Name(d, type, k - 1) = Ansi(type, k - 1)
  BY ObjectNames
<1>. QED  BY <1>4, <1>5, <1>6

\* Two listed objects of the same name are one.
LEMMA NamesTell ==
  ASSUME NEW d, Apart(d.DEVICE.My_Object_Name),
         NEW x, x \in Range(Object_List(d)), NEW y, y \in Range(Object_List(d)),
         Object_Name(d, x[1], x[2]) = Object_Name(d, y[1], y[2])
  PROVE  x = y
<1>1. PICK type, k :
        /\ type \in Range(ObjectTypes) /\ k \in 1 .. Object_Count(type)
        /\ x = <<type, Object_Instance(d, type, k - 1)>>
  BY ListHolds
<1>2. PICK other, m :
        /\ other \in Range(ObjectTypes) /\ m \in 1 .. Object_Count(other)
        /\ y = <<other, Object_Instance(d, other, m - 1)>>
  BY ListHolds
<1>3. Object_Name(d, "DEVICE", x[2]) = d.DEVICE.My_Object_Name
      /\ Object_Name(d, "DEVICE", y[2]) = d.DEVICE.My_Object_Name
  BY SMT DEF Object_Name
<1>4. CASE type = "DEVICE" /\ other = "DEVICE"
  BY <1>1, <1>2, <1>4 DEF Object_Instance
<1>5. CASE type = "DEVICE" /\ other # "DEVICE"
  <2>1. other \in OtherTypes /\ y = <<other, m - 1>>
    BY <1>2, <1>5 DEF OtherTypes, Object_Instance
  <2>2. Object_Name(d, other, m - 1) = Ansi(other, m - 1)
    BY <2>1, ObjectNames
  <2>. QED  BY <1>1, <1>2, <1>3, <1>5, <2>1, <2>2 DEF Apart
<1>6. CASE type # "DEVICE" /\ other = "DEVICE"
  <2>1. type \in OtherTypes /\ x = <<type, k - 1>>
    BY <1>1, <1>6 DEF OtherTypes, Object_Instance
  <2>2. Object_Name(d, type, k - 1) = Ansi(type, k - 1)
    BY <2>1, ObjectNames
  <2>. QED  BY <1>1, <1>2, <1>3, <1>6, <2>1, <2>2 DEF Apart
<1>7. CASE type # "DEVICE" /\ other # "DEVICE"
  <2>1. /\ type \in OtherTypes /\ x = <<type, k - 1>>
        /\ other \in OtherTypes /\ y = <<other, m - 1>>
    BY <1>1, <1>2, <1>7 DEF OtherTypes, Object_Instance
  <2>2. Ansi(type, k - 1) = Ansi(other, m - 1)
    BY <2>1, ObjectNames
  <2>. QED  BY <2>1, <2>2, NamesDiffer
<1>. QED  BY <1>4, <1>5, <1>6, <1>7

\* A listed object is the first one found under its name.
LEMMA FoundByName ==
  ASSUME NEW d, Apart(d.DEVICE.My_Object_Name), NEW id, id \in Range(Object_List(d))
  PROVE  /\ NamedObjects(d, Object_Name(d, id[1], id[2])) # {}
         /\ FirstNamed(d, Object_Name(d, id[1], id[2])) = id
<1>1. PICK list, name : list = Object_List(d) /\ name = Object_Name(d, id[1], id[2])
  OBVIOUS
<1>2. PICK places : places = NamedObjects(d, name)
  OBVIOUS
<1>3. places = {n \in DOMAIN list : Object_Name(d, list[n][1], list[n][2]) = name}
  BY <1>1, <1>2 DEF NamedObjects
<1>4. places # {}
  BY <1>1, <1>3 DEF Range
<1>5. DOMAIN list \in SUBSET Nat
  <2>1. \E X : list \in Seq(X)
    BY <1>1, ListHolds
  <2>. QED  BY <2>1
<1>6. Min(places) \in places
  <2>1. \E x \in places : \A y \in places : x <= y
    BY <1>3, <1>4, <1>5, LeastOfNat
  <2>. QED  BY <2>1 DEF Min
<1>7. list[Min(places)] \in Range(list)
  BY <1>3, <1>6 DEF Range
<1>8. list[Min(places)] = id
  BY <1>1, <1>3, <1>6, <1>7, NamesTell
<1>. QED  BY <1>1, <1>2, <1>4, <1>8 DEF FirstNamed

-----------------------------------------------------------------------------
(***************************************************************************)
(* The tables keep the objects they were started with, and these their     *)
(* fields.                                                                 *)
(***************************************************************************)
\* Writing gives a table no object and an object no field it had not.
SameShape(new, old) ==
  DOMAIN new = DOMAIN old /\ \A j \in DOMAIN old : DOMAIN new[j] = DOMAIN old[j]

\* What the objects have in common of writing keeps the shape.
LEMMA SharedShape ==
  ASSUME NEW table, NEW i, NEW w
  PROVE  /\ SameShape(table, table)
         /\ \A value : SameShape(Set(table, i, value).table, table)
         /\ SameShape(WriteOutOfService(table, i, w).table, table)
         /\ \A room : SameShape(WriteUnits(table, i, w, room).table, table)
         /\ SameShape(WriteBinary(table, i, w).table, table)
         /\ SameShape(WriteMultiState(table, i, w).table, table)
         /\ \A tag : SameShape(WriteNumber(table, i, w, tag).table, table)
<1>. USE DEF SameShape, Write, AccessDenied, OutOfRange, WrongType, Denied, Written, ValidateArgType
<1>1. SameShape(WriteOutOfService(table, i, w).table, table)
  BY DEF WriteOutOfService
<1>2. \A room : SameShape(WriteUnits(table, i, w, room).table, table)
  BY DEF WriteUnits
<1>3. \A priority, level : SameShape(Command(table, i, priority, level).table, table)
  BY DEF Command
<1>4. SameShape(WriteBinary(table, i, w).table, table)
  BY <1>3, SMT DEF WriteBinary
<1>5. SameShape(WriteMultiState(table, i, w).table, table)
  BY <1>1, <1>3, SMT DEF WriteMultiState
<1>6. \A value : SameShape(Set(table, i, value).table, table)
  BY DEF Set
<1>7. ASSUME NEW tag PROVE SameShape(WriteNumber(table, i, w, tag).table, table)
  BY <1>1, <1>2, <1>6, SMT DEF WriteNumber
<1>. QED  BY <1>1, <1>2, <1>4, <1>5, <1>6, <1>7

\* So does a write to the network port.
LEMMA PortShape ==
  ASSUME NEW table, NEW i, NEW w
  PROVE  SameShape(NP_Write_Property(table, i, w).table, table)
<1>1. PICK n : n = w.value.datum % 65536
  OBVIOUS
<1>2. PICK port : port = [[table EXCEPT ![i].UDP_Port = n] EXCEPT ![i].Changes_Pending = TRUE]
  OBVIOUS
<1>3. PICK number :
        number = [[table EXCEPT ![i].Network_Number = n] EXCEPT ![i].Changes_Pending = TRUE]
  OBVIOUS
<1>4. SameShape(port, table) /\ SameShape(number, table) /\ SameShape(table, table)
  BY <1>2, <1>3 DEF SameShape
<1>5. NP_Write_Property(table, i, w).table \in {table, port, number}
  BY <1>1, <1>2, <1>3, SMT DEF NP_Write_Property, Write, AccessDenied, OutOfRange, WrongType,
     Denied, Written, ValidateArgType
<1>. QED  BY <1>4, <1>5

\* So does a write to an object of any type.
LEMMA ObjectShape ==
  ASSUME NEW table, NEW i, NEW w
  PROVE  /\ SameShape(AI_Write_Property(table, i, w).table, table)
         /\ SameShape(AO_Write_Property(table, i, w).table, table)
         /\ SameShape(AV_Write_Property(table, i, w).table, table)
         /\ SameShape(BI_Write_Property(table, i, w).table, table)
         /\ SameShape(BO_Write_Property(table, i, w).table, table)
         /\ SameShape(BV_Write_Property(table, i, w).table, table)
         /\ SameShape(MSI_Write_Property(table, i, w).table, table)
         /\ SameShape(MSO_Write_Property(table, i, w).table, table)
         /\ SameShape(MSV_Write_Property(table, i, w).table, table)
         /\ SameShape(IV_Write_Property(table, i, w).table, table)
         /\ SameShape(PIV_Write_Property(table, i, w).table, table)
         /\ SameShape(LAV_Write_Property(table, i, w).table, table)
         /\ SameShape(CSV_Write_Property(table, i, w).table, table)
         /\ SameShape(TL_Write_Property(table, i, w).table, table)
         /\ SameShape(ACC_Write_Property(table, i, w).table, table)
         /\ SameShape(NP_Write_Property(table, i, w).table, table)
         /\ SameShape(SCH_Write_Property(table, i, w).table, table)
<1>1. /\ SameShape(table, table)
      /\ \A value : SameShape(Set(table, i, value).table, table)
      /\ SameShape(WriteOutOfService(table, i, w).table, table)
      /\ \A room : SameShape(WriteUnits(table, i, w, room).table, table)
      /\ SameShape(WriteBinary(table, i, w).table, table)
      /\ SameShape(WriteMultiState(table, i, w).table, table)
      /\ \A tag : SameShape(WriteNumber(table, i, w, tag).table, table)
  BY SharedShape
<1>. USE <1>1 DEF Write, AccessDenied, OutOfRange, UnknownProperty, WrongType, Denied, Written,
       ValidateArgType
<1>2. SameShape(AI_Write_Property(table, i, w).table, table)
  <2>1. \A value : SameShape(AI_Present_Value_Set(table, i, value), table)
    BY DEF AI_Present_Value_Set, AI_COV_Detect, SameShape
  <2>2. \A value : SameShape(AI_COV_Increment_Set(table, i, value), table)
    BY DEF AI_COV_Increment_Set, AI_COV_Detect, SameShape
  <2>3. \A value : SameShape(AI_Out_Of_Service_Set(table, i, value), table)
    BY DEF AI_Out_Of_Service_Set, SameShape
  <2>. QED  BY <2>1, <2>2, <2>3, SMT DEF AI_Write_Property
<1>3. SameShape(AO_Write_Property(table, i, w).table, table)
  <2>1. \A priority, level : SameShape(Command(table, i, priority, level).table, table)
    BY DEF Command, SameShape
  <2>. QED
    BY <2>1, SMT DEF AO_Write_Property, AO_Present_Value_Set, AO_Present_Value_Relinquish
<1>4. SameShape(AV_Write_Property(table, i, w).table, table)
  BY SMT DEF AV_Write_Property
<1>5. SameShape(BI_Write_Property(table, i, w).table, table)
  <2>1. \A value : SameShape(BI_Present_Value_Set(table, i, value), table)
    BY DEF BI_Present_Value_Set, SameShape
  <2>2. \A value : SameShape(BI_Polarity_Set(table, i, value), table)
    BY DEF BI_Polarity_Set, SameShape
  <2>3. \A value : SameShape(BI_Out_Of_Service_Set(table, i, value), table)
    BY DEF BI_Out_Of_Service_Set, SameShape
  <2>. QED  BY <2>1, <2>2, <2>3, SMT DEF BI_Write_Property
<1>6. SameShape(BO_Write_Property(table, i, w).table, table)
  BY SMT DEF BO_Write_Property
<1>7. SameShape(BV_Write_Property(table, i, w).table, table)
  BY SMT DEF BV_Write_Property
<1>8. SameShape(MSI_Write_Property(table, i, w).table, table)
  BY SMT DEF MSI_Write_Property
<1>9. SameShape(CSV_Write_Property(table, i, w).table, table)
  BY SMT DEF CSV_Write_Property
<1>10. SameShape(TL_Write_Property(table, i, w).table, table)
  <2>1. /\ SameShape([table EXCEPT ![i].Enable = w.value.datum], table)
        /\ SameShape([table EXCEPT ![i].Record_Count = 0, ![i].head = 0], table)
        /\ SameShape([table EXCEPT ![i].Log_Interval = w.value.datum], table)
    BY DEF SameShape
  <2>. QED  BY <2>1, SMT DEF TL_Write_Property
<1>11. SameShape(ACC_Write_Property(table, i, w).table, table)
  BY SMT DEF ACC_Write_Property
<1>12. SameShape(NP_Write_Property(table, i, w).table, table)
  BY PortShape
<1>13. SameShape(SCH_Write_Property(table, i, w).table, table)
  <2>1. SameShape([table EXCEPT ![i].Present_Value = w.value], table)
    BY DEF SameShape
  <2>. QED  BY <2>1, SMT DEF SCH_Write_Property
<1>14. /\ SameShape(MSO_Write_Property(table, i, w).table, table)
       /\ SameShape(MSV_Write_Property(table, i, w).table, table)
       /\ SameShape(IV_Write_Property(table, i, w).table, table)
       /\ SameShape(PIV_Write_Property(table, i, w).table, table)
       /\ SameShape(LAV_Write_Property(table, i, w).table, table)
  BY DEF MSO_Write_Property, MSV_Write_Property, IV_Write_Property,
     PIV_Write_Property, LAV_Write_Property
<1>. QED
  BY <1>2, <1>3, <1>4, <1>5, <1>6, <1>7, <1>8, <1>9, <1>10, <1>11, <1>12, <1>13, <1>14

\* A write to a type goes to the function of that type.
LEMMA WrittenShape ==
  ASSUME NEW d, NEW type \in OtherTypes, NEW i, NEW w
  PROVE  SameShape(WriteByType(d, type, i, w).table, d[type])
<1>1. PICK t : t = d[type]
  OBVIOUS
<1>. QED  BY <1>1, TypesAre, ObjectShape, SMT DEF OtherTypes, WriteByType

Shaped(d) ==
  \A type \in OtherTypes : type \in DOMAIN d /\ SameShape(d[type], StartedDatabase[type])

\* A database stays shaped with a table of the same shape in it.
LEMMA ShapedWith ==
  ASSUME NEW d, Shaped(d), NEW type, NEW table,
         type \in OtherTypes => SameShape(table, d[type])
  PROVE  Shaped([d EXCEPT ![type] = table])
BY DEF Shaped, SameShape

-----------------------------------------------------------------------------
(***************************************************************************)
(* The revision counts every change of the name and number of the device.  *)
(***************************************************************************)
Typed(device) ==
  /\ DOMAIN device = {"Object_Instance_Number", "My_Object_Name", "System_Status",
                      "Vendor_Identifier", "Model_Name", "Description", "Location",
                      "Database_Revision", "Apdu_Timeout", "Apdu_Retries"}
  /\ device.Database_Revision \in Nat

Follows(device, earlier) ==
  /\ earlier.Database_Revision <= device.Database_Revision
  /\ device.Database_Revision = earlier.Database_Revision =>
       /\ device.Object_Instance_Number = earlier.Object_Instance_Number
       /\ device.My_Object_Name = earlier.My_Object_Name

DatabaseInv(d) ==
  /\ IsFunction(d) /\ "DEVICE" \in DOMAIN d
  /\ Typed(d.DEVICE) /\ Apart(d.DEVICE.My_Object_Name)
  /\ Shaped(d)

LEMMA FollowsOn ==
  ASSUME NEW x, NEW y, NEW z, Typed(x), Typed(y), Typed(z), Follows(y, x), Follows(z, y)
  PROVE  Follows(z, x)
BY DEF Typed, Follows

\* Renaming and renumbering count the revision up.
LEMMA Counted ==
  ASSUME NEW device, Typed(device)
  PROVE  /\ Follows(device, device)
         /\ \A n : /\ Typed(Set_Object_Instance_Number(device, n))
                    /\ Follows(Set_Object_Instance_Number(device, n), device)
         /\ \A name : /\ Typed(Set_Object_Name(device, name))
                       /\ Follows(Set_Object_Name(device, name), device)
         /\ \A field, x :
              field \notin {"Object_Instance_Number", "My_Object_Name", "Database_Revision"} =>
                /\ Typed([device EXCEPT ![field] = x])
                /\ Follows([device EXCEPT ![field] = x], device)
<1>1. Follows(device, device)
  BY DEF Typed, Follows
<1>2. ASSUME NEW n
      PROVE  /\ Typed(Set_Object_Instance_Number(device, n))
             /\ Follows(Set_Object_Instance_Number(device, n), device)
  BY DEF Typed, Follows, Set_Object_Instance_Number, Revised
<1>3. ASSUME NEW name
      PROVE  /\ Typed(Set_Object_Name(device, name))
             /\ Follows(Set_Object_Name(device, name), device)
  BY DEF Typed, Follows, Set_Object_Name, Revised
<1>4. ASSUME NEW field, NEW x,
             field \notin {"Object_Instance_Number", "My_Object_Name", "Database_Revision"}
      PROVE  /\ Typed([device EXCEPT ![field] = x])
             /\ Follows([device EXCEPT ![field] = x], device)
  BY <1>4 DEF Typed, Follows
<1>. QED  BY <1>1, <1>2, <1>3, <1>4

\* What becomes of the name of the device.
LEMMA NameAfter ==
  ASSUME NEW device, Typed(device)
  PROVE  /\ \A n : Set_Object_Instance_Number(device, n).My_Object_Name = device.My_Object_Name
         /\ \A name : Set_Object_Name(device, name).My_Object_Name = name
         /\ \A field, x : field # "My_Object_Name" =>
              [device EXCEPT ![field] = x].My_Object_Name = device.My_Object_Name
BY DEF Typed, Set_Object_Instance_Number, Set_Object_Name, Revised

\* A write to the device object keeps its type, its number and name follow the revision, and
\* the name stays apart from those of the other objects.
LEMMA DeviceWrite ==
  ASSUME NEW d, Typed(d.DEVICE), Apart(d.DEVICE.My_Object_Name), NEW w
  PROVE  /\ Typed(Device_Write_Property_Local(d, w).table)
         /\ Follows(Device_Write_Property_Local(d, w).table, d.DEVICE)
         /\ Apart(Device_Write_Property_Local(d, w).table.My_Object_Name)
<1>. DEFINE device == d.DEVICE
            Fine(result) == /\ Typed(result.table) /\ Follows(result.table, device)
                            /\ Apart(result.table.My_Object_Name)
            arrays == {"OBJECT_LIST"}
            number(tag, result) == ValidateArgType(device, w.value, tag, result)
<1>1. /\ \A class, code : Fine(Denied(device, class, code))
      /\ Fine(AccessDenied(device)) /\ Fine(OutOfRange(device))
      /\ Fine(UnknownProperty(device)) /\ Fine(WrongType(device))
  BY Counted DEF Denied, AccessDenied, OutOfRange, UnknownProperty, WrongType
<1>2. /\ Fine(Written(device))
      /\ \A n : Fine(Written(Set_Object_Instance_Number(device, n)))
      /\ \A name : Apart(name) => Fine(Written(Set_Object_Name(device, name)))
      /\ \A field, x :
           field \notin {"Object_Instance_Number", "My_Object_Name", "Database_Revision"} =>
             Fine(Written([device EXCEPT ![field] = x]))
  <2>1. ASSUME NEW table, Typed(table), Follows(table, device), Apart(table.My_Object_Name)
        PROVE  Fine(Written(table))
    BY <2>1 DEF Written
  <2>2. Fine(Written(device))
    BY <2>1, Counted
  <2>3. ASSUME NEW n PROVE Fine(Written(Set_Object_Instance_Number(device, n)))
    BY <2>1, Counted, NameAfter
  <2>4. ASSUME NEW name, Apart(name) PROVE Fine(Written(Set_Object_Name(device, name)))
    BY <2>1, <2>4, Counted, NameAfter
  <2>5. ASSUME NEW field, NEW x,
               field \notin {"Object_Instance_Number", "My_Object_Name", "Database_Revision"}
        PROVE  Fine(Written([device EXCEPT ![field] = x]))
    <3>1. PICK table : table = [device EXCEPT ![field] = x]
      OBVIOUS
    <3>2. Typed(table) /\ Follows(table, device)
      BY <2>5, <3>1, Counted
    <3>3. table.My_Object_Name = device.My_Object_Name
      BY <2>5, <3>1, NameAfter
    <3>. QED  BY <2>1, <3>1, <3>2, <3>3
  <2>. HIDE DEF Fine
  <2>. QED  BY <2>2, <2>3, <2>4, <2>5
<1>. HIDE DEF Fine
<1>3. \A result : Fine(result) =>
        /\ Fine(Write(device, w, arrays, result))
        /\ \A tag : Fine(Write(device, w, arrays, number(tag, result)))
  BY <1>1, SMT DEF Write, ValidateArgType
<1>4. \A result : Fine(result) =>
        \A maximum : /\ Fine(ValidateString(device, w.value, maximum, TRUE, result))
                     /\ Fine(ValidateString(device, w.value, maximum, FALSE, result))
  BY <1>1, SMT DEF ValidateString
<1>5. ASSUME NEW field \in {"Location", "Description", "Model_Name"}, NEW maximum
      PROVE  Fine(Write(device, w, arrays, WriteText(device, w, field, maximum)))
  <2>1. PICK result : result = Written([device EXCEPT ![field] =
                                          [w.value.datum EXCEPT !.encoding = "ANSI_X34"]])
    OBVIOUS
  <2>2. Fine(result)
    BY <2>1, <1>2
  <2>3. WriteText(device, w, field, maximum)
          = ValidateString(device, w.value, maximum, TRUE, result)
    BY <2>1, SMT DEF WriteText
  <2>. QED  BY <2>2, <2>3, <1>3, <1>4
<1>. DEFINE outcome == Device_Write_Property_Local(d, w)
<1>6. CASE w.property = "OBJECT_IDENTIFIER"
  <2>1. PICK result :
          result = IF w.value.datum[1] = "DEVICE" /\ w.value.datum[2] <= BACNET_MAX_INSTANCE
                   THEN Written(Set_Object_Instance_Number(device, w.value.datum[2]))
                   ELSE OutOfRange(device)
    OBVIOUS
  <2>2. Fine(result)
    BY <2>1, <1>1, <1>2
  <2>3. outcome = Write(device, w, arrays, number("OBJECT_ID", result))
    BY <2>1, <1>6, SMT DEF Device_Write_Property_Local
  <2>. HIDE DEF outcome
  <2>4. Fine(outcome)
    BY <2>2, <2>3, <1>3
  <2>. QED  BY <2>4 DEF outcome, Fine
<1>7. CASE w.property \in {"LOCAL_DATE", "LOCAL_TIME"}
  <2>1. \/ outcome = Write(device, w, arrays, number("DATE", Written(device)))
        \/ outcome = Write(device, w, arrays, number("TIME", Written(device)))
    BY <1>7, SMT DEF Device_Write_Property_Local
  <2>. HIDE DEF outcome
  <2>2. Fine(outcome)
    BY <2>1, <1>2, <1>3
  <2>. QED  BY <2>2 DEF outcome, Fine
<1>8. CASE w.property \in {"NUMBER_OF_APDU_RETRIES", "APDU_TIMEOUT", "VENDOR_IDENTIFIER"}
  <2>. DEFINE set(field, x) ==
                Write(device, w, arrays,
                      number("UNSIGNED_INT", Written([device EXCEPT ![field] = x])))
  <2>1. \/ outcome = set("Apdu_Retries", w.value.datum % 256)
        \/ outcome = set("Apdu_Timeout", w.value.datum % 65536)
        \/ outcome = set("Vendor_Identifier", w.value.datum % 65536)
    BY <1>8, SMT DEF Device_Write_Property_Local
  <2>2. \A x : /\ Fine(set("Apdu_Retries", x)) /\ Fine(set("Apdu_Timeout", x))
               /\ Fine(set("Vendor_Identifier", x))
    BY <1>2, <1>3
  <2>. HIDE DEF outcome, set
  <2>3. Fine(outcome)
    BY <2>1, <2>2
  <2>. QED  BY <2>3 DEF outcome, Fine
<1>9. CASE w.property = "SYSTEM_STATUS"
  <2>1. Fine(SetSystemStatus(device, w.value.datum))
    BY <1>1, <1>2, SMT DEF SetSystemStatus
  <2>2. outcome = Write(device, w, arrays,
                        number("ENUMERATED", SetSystemStatus(device, w.value.datum)))
    BY <1>9, SMT DEF Device_Write_Property_Local
  <2>. HIDE DEF outcome
  <2>3. Fine(outcome)
    BY <2>1, <2>2, <1>3
  <2>. QED  BY <2>3 DEF outcome, Fine
<1>10. CASE w.property = "OBJECT_NAME"
  <2>1. PICK name : name = w.value.datum
    OBVIOUS
  <2>2. PICK result :
          result = IF NamedObjects(d, name) = {} THEN Written(Set_Object_Name(device, name))
                   ELSE IF FirstNamed(d, name) = <<"DEVICE", device.Object_Instance_Number>>
                   THEN Written(device)
                   ELSE Denied(device, "PROPERTY", "DUPLICATE_NAME")
    OBVIOUS
  <2>3. Fine(result)
    BY <2>1, <2>2, <1>1, <1>2, FreeIsApart
  <2>4. PICK room : room = 1470
    OBVIOUS
  <2>5. WriteObjectName(d, w) = ValidateString(device, w.value, room, FALSE, result)
    BY <2>1, <2>2, <2>4, SMT DEF WriteObjectName
  <2>6. outcome = Write(device, w, arrays, WriteObjectName(d, w))
    BY <1>10, SMT DEF Device_Write_Property_Local
  <2>. HIDE DEF outcome
  <2>7. Fine(WriteObjectName(d, w))
    BY <2>3, <2>5, <1>4
  <2>8. Fine(outcome)
    BY <2>6, <2>7, <1>3
  <2>. QED  BY <2>8 DEF outcome, Fine
<1>11. CASE w.property \in {"LOCATION", "DESCRIPTION", "MODEL_NAME"}
  <2>1. \/ outcome = Write(device, w, arrays, WriteText(device, w, "Location", 64))
        \/ outcome = Write(device, w, arrays, WriteText(device, w, "Description", 64))
        \/ outcome = Write(device, w, arrays, WriteText(device, w, "Model_Name", 32))
    BY <1>11, SMT DEF Device_Write_Property_Local
  <2>. HIDE DEF outcome
  <2>2. Fine(outcome)
    BY <2>1, <1>5
  <2>. QED  BY <2>2 DEF outcome, Fine
<1>12. CASE w.property \notin {"OBJECT_IDENTIFIER", "LOCAL_DATE", "LOCAL_TIME",
              "NUMBER_OF_APDU_RETRIES", "APDU_TIMEOUT", "VENDOR_IDENTIFIER", "SYSTEM_STATUS",
              "OBJECT_NAME", "LOCATION", "DESCRIPTION", "MODEL_NAME"}
  <2>1. \/ outcome = Write(device, w, arrays, AccessDenied(device))
        \/ outcome = Write(device, w, arrays, UnknownProperty(device))
    BY <1>12, SMT DEF Device_Write_Property_Local
  <2>. HIDE DEF outcome
  <2>2. Fine(outcome)
    BY <2>1, <1>1, <1>3
  <2>. QED  BY <2>2 DEF outcome, Fine
<1>. QED  BY <1>6, <1>7, <1>8, <1>9, <1>10, <1>11, <1>12

\* The same of a write to any object.
LEMMA DatabaseWrite ==
  ASSUME NEW d, DatabaseInv(d), NEW type, NEW i, NEW w
  PROVE  /\ DatabaseInv(Device_Write_Property(d, type, i, w).db)
         /\ Follows(Device_Write_Property(d, type, i, w).db.DEVICE, d.DEVICE)
<1>1. Typed(d.DEVICE) /\ Follows(d.DEVICE, d.DEVICE)
  BY Counted DEF DatabaseInv
<1>2. CASE ~ Valid_Object_Id(d, type, i)
  BY <1>1, <1>2 DEF Device_Write_Property
<1>3. CASE Valid_Object_Id(d, type, i)
  <2>1. PICK table : table = WriteByType(d, type, i, w).table
    OBVIOUS
  <2>2. Device_Write_Property(d, type, i, w).db = [d EXCEPT ![type] = table]
    BY <1>3, <2>1 DEF Device_Write_Property
  <2>3. type = "DEVICE" => table = Device_Write_Property_Local(d, w).table
    BY <2>1, SMT DEF WriteByType
  <2>4. type = "DEVICE" =>
          Typed(table) /\ Follows(table, d.DEVICE) /\ Apart(table.My_Object_Name)
    BY <1>1, <2>3, DeviceWrite DEF DatabaseInv
  <2>5. [d EXCEPT ![type] = table].DEVICE = IF type = "DEVICE" THEN table ELSE d.DEVICE
    BY DEF DatabaseInv
  <2>6. /\ IsFunction([d EXCEPT ![type] = table])
        /\ "DEVICE" \in DOMAIN [d EXCEPT ![type] = table]
    BY DEF DatabaseInv, IsFunction
  <2>7. Shaped([d EXCEPT ![type] = table])
    <3>1. type \in OtherTypes => SameShape(table, d[type])
      BY <2>1, WrittenShape
    <3>. QED  BY <3>1, ShapedWith DEF DatabaseInv
  <2>. QED  BY <1>1, <2>2, <2>4, <2>5, <2>6, <2>7 DEF DatabaseInv
<1>. QED  BY <1>2, <1>3

\* One turn of the loop.
LEMMA Turn ==
  ASSUME NEW p, p = [db |-> p.db, reply |-> p.reply], NEW access
  PROVE  LET result == Device_Write_Property(p.db, access.type, access.instance, access.write)
         IN  \/ p.reply # SimpleAck /\ wpm_step(p, access) = p
             \/ /\ p.reply = SimpleAck /\ ~ access.decodes
                /\ wpm_step(p, access) = [db |-> p.db, reply |-> Reject("INVALID_TAG")]
             \/ /\ p.reply = SimpleAck /\ access.decodes /\ result.ok
                /\ wpm_step(p, access) = [db |-> result.db, reply |-> SimpleAck]
             \/ /\ p.reply = SimpleAck /\ access.decodes /\ ~ result.ok
                /\ wpm_step(p, access)
                     = [db |-> result.db, reply |-> Error(<<result.error, Names(access)>>)]
<1>1. PICK result :
        result = Device_Write_Property(p.db, access.type, access.instance, access.write)
  OBVIOUS
<1>2. wpm_step(p, access) =
        IF p.reply # SimpleAck THEN p
        ELSE IF ~ access.decodes THEN [p EXCEPT !.reply = Reject("INVALID_TAG")]
        ELSE IF result.ok THEN [p EXCEPT !.db = result.db]
        ELSE [db |-> result.db, reply |-> Error(<<result.error, Names(access)>>)]
  BY <1>1, SMT DEF wpm_step
<1>3. PICK rejected : rejected = Reject("INVALID_TAG")
  OBVIOUS
<1>4. /\ [p EXCEPT !.reply = rejected] = [db |-> p.db, reply |-> rejected]
      /\ p.reply = SimpleAck =>
           [p EXCEPT !.db = result.db] = [db |-> result.db, reply |-> SimpleAck]
  OBVIOUS
<1>. QED  BY <1>1, <1>2, <1>3, <1>4

\* A WritePropertyMultiple keeps the database and follows the revision, turn by turn.
LEMMA ProgressKeeps ==
  ASSUME NEW d, DatabaseInv(d), NEW accesses, Len(accesses) \in Nat
  PROVE  \A n \in 0 .. Len(accesses) :
           /\ DatabaseInv(Progress(d, accesses)[n].db)
           /\ Follows(Progress(d, accesses)[n].db.DEVICE, d.DEVICE)
<1>. DEFINE Fine(p) == /\ p = [db |-> p.db, reply |-> p.reply]
                       /\ DatabaseInv(p.db) /\ Follows(p.db.DEVICE, d.DEVICE)
<1>1. PICK P : P = Progress(d, accesses)
  OBVIOUS
<1>2. /\ P[0] = [db |-> d, reply |-> SimpleAck]
      /\ \A n \in 1 .. Len(accesses) : P[n] = wpm_step(P[n - 1], accesses[n])
  BY <1>1, ProgressTurns
<1>3. Fine(P[0])
  <2>1. Follows(d.DEVICE, d.DEVICE)
    BY Counted DEF DatabaseInv
  <2>. QED  BY <2>1, <1>2
<1>4. ASSUME NEW p, Fine(p), NEW access
      PROVE  Fine(wpm_step(p, access))
  <2>1. PICK result :
          result = Device_Write_Property(p.db, access.type, access.instance, access.write)
    OBVIOUS
  <2>2. DatabaseInv(result.db) /\ Follows(result.db.DEVICE, p.db.DEVICE)
    BY <1>4, <2>1, DatabaseWrite
  <2>3. Follows(result.db.DEVICE, d.DEVICE)
    BY <1>4, <2>2, FollowsOn DEF DatabaseInv
  <2>4. \/ wpm_step(p, access) = p
        \/ \E reply : wpm_step(p, access) = [db |-> p.db, reply |-> reply]
        \/ \E reply : wpm_step(p, access) = [db |-> result.db, reply |-> reply]
    BY <1>4, <2>1, Turn
  <2>. QED  BY <1>4, <2>2, <2>3, <2>4
<1>. DEFINE S == {n \in 0 .. Len(accesses) : Fine(P[n])}
<1>. HIDE DEF Fine
<1>5. ASSUME NEW n \in S, n < Len(accesses)
      PROVE  n + 1 \in S
  <2>1. n + 1 \in 1 .. Len(accesses) /\ (n + 1) - 1 = n
    BY <1>5
  <2>2. Fine(P[n + 1])
    BY <1>2, <1>4, <1>5, <2>1
  <2>. QED  BY <2>1, <2>2
<1>6. S = 0 .. Len(accesses)
  <2>1. 0 \in S
    BY <1>3
  <2>. HIDE DEF S
  <2>. QED  BY <2>1, <1>5, StepByStep, S \in SUBSET (0 .. Len(accesses)) DEF S
<1>. QED  BY <1>1, <1>6 DEF Fine

\* The end of a turn of the loop changes schedule 0 and analog value 0, if anything.
LEMMA LinkLeaves ==
  ASSUME NEW d, DatabaseInv(d), NEW e, e = Linked(d)
  PROVE  /\ DatabaseInv(e)
         /\ e.DEVICE = d.DEVICE
         /\ \A type \in DOMAIN d :
              type \notin {"SCHEDULE", "ANALOG_VALUE"} => e[type] = d[type]
         /\ DOMAIN e = DOMAIN d
         /\ e.SCHEDULE = Recalculated(d.SCHEDULE)
         /\ e.ANALOG_VALUE = Applied(d.ANALOG_VALUE, e.SCHEDULE[0].Present_Value)
<1>1. PICK schedules, values :
        /\ schedules = Recalculated(d.SCHEDULE)
        /\ values = Applied(d.ANALOG_VALUE, schedules[0].Present_Value)
  OBVIOUS
<1>2. PICK f : f = [d EXCEPT !["SCHEDULE"] = schedules]
  OBVIOUS
<1>3. "SCHEDULE" \in OtherTypes /\ "ANALOG_VALUE" \in OtherTypes
  BY TypesAre DEF OtherTypes
<1>4. "SCHEDULE" \in DOMAIN d /\ "ANALOG_VALUE" \in DOMAIN d
  BY <1>3 DEF DatabaseInv, Shaped
<1>5. e = [f EXCEPT !["ANALOG_VALUE"] = values]
  <2>. DEFINE With(s, v) == [[d EXCEPT !["SCHEDULE"] = s] EXCEPT !["ANALOG_VALUE"] = v]
  <2>1. e = With(Recalculated(d.SCHEDULE),
                 Applied(d.ANALOG_VALUE, Recalculated(d.SCHEDULE)[0].Present_Value))
    BY Zenon DEF Linked
  <2>2. [f EXCEPT !["ANALOG_VALUE"] = values] = With(schedules, values)
    BY <1>2, Zenon
  <2>. HIDE DEF With
  <2>. QED  BY <1>1, <2>1, <2>2
<1>7. /\ DOMAIN e = DOMAIN d /\ IsFunction(e)
      /\ \A type \in DOMAIN d :
           type \notin {"SCHEDULE", "ANALOG_VALUE"} => e[type] = d[type]
      /\ e["SCHEDULE"] = schedules /\ e["ANALOG_VALUE"] = values
  <2>1. /\ DOMAIN f = DOMAIN d
        /\ \A type \in DOMAIN d : type # "SCHEDULE" => f[type] = d[type]
        /\ f["SCHEDULE"] = schedules
    BY <1>2, <1>4
  <2>2. /\ DOMAIN e = DOMAIN f
        /\ \A type \in DOMAIN f : type # "ANALOG_VALUE" => e[type] = f[type]
        /\ e["ANALOG_VALUE"] = values
    BY <1>4, <1>5, <2>1
  <2>3. IsFunction(e)
    BY <1>5 DEF IsFunction
  <2>. QED  BY <1>4, <2>1, <2>2, <2>3
<1>6. Shaped(e)
  <2>1. SameShape(schedules, d.SCHEDULE)
    <3>1. \A x : SameShape([d.SCHEDULE EXCEPT ![0].Present_Value = x], d.SCHEDULE)
      BY DEF SameShape
    <3>2. SameShape(d.SCHEDULE, d.SCHEDULE)
      BY DEF SameShape
    <3>. QED  BY <1>1, <3>1, <3>2 DEF Recalculated
  <2>2. SameShape(values, d.ANALOG_VALUE)
    <3>1. \A x : SameShape([d.ANALOG_VALUE EXCEPT ![0].Present_Value = x], d.ANALOG_VALUE)
      BY DEF SameShape
    <3>2. SameShape(d.ANALOG_VALUE, d.ANALOG_VALUE)
      BY DEF SameShape
    <3>. QED  BY <1>1, <3>1, <3>2 DEF Applied
  <2>3. Shaped(f)
    <3>1. Shaped(d)
      BY DEF DatabaseInv
    <3>. QED  BY <1>2, <2>1, <3>1, ShapedWith, Zenon
  <2>4. f["ANALOG_VALUE"] = d["ANALOG_VALUE"]
    BY <1>2, <1>4
  <2>5. SameShape(values, f["ANALOG_VALUE"])
    BY <2>2, <2>4
  <2>6. Shaped([f EXCEPT !["ANALOG_VALUE"] = values])
    BY <2>3, <2>5, ShapedWith
  <2>. QED  BY <1>5, <2>6
<1>8. "DEVICE" \in DOMAIN d /\ e["DEVICE"] = d["DEVICE"]
  BY <1>7 DEF DatabaseInv
<1>. QED  BY <1>1, <1>6, <1>7, <1>8 DEF DatabaseInv

\* What the steps do to the database.
LEMMA DatabaseSteps ==
  ASSUME DatabaseInv(db), under \in UnderTest, [Next]_vars
  PROVE  DatabaseInv(db)' /\ Follows(db'.DEVICE, db.DEVICE)
<1>1. CASE db' = db
  BY <1>1, Counted DEF DatabaseInv
<1>2. CASE WriteProperty
  <2>1. PICK access \in Accesses[under], segmented \in BOOLEAN :
          db' = handler_write_property(db, access, segmented).db
    BY <1>2, Zenon DEF WriteProperty
  <2>2. \/ db' = db
        \/ db' = Device_Write_Property(db, access.type, access.instance, access.write).db
    BY <2>1, SMT DEF handler_write_property
  <2>. QED  BY <1>1, <2>2, DatabaseWrite
<1>3. CASE WritePropertyMultiple
  <2>1. PICK accesses \in Pairs[under] :
          db' = handler_write_property_multiple(db, accesses, FALSE).db
    BY <1>3, Zenon DEF WritePropertyMultiple
  <2>2. Len(accesses) \in Nat
    BY ServerAssumption
  <2>3. db' = Progress(db, accesses)[Len(accesses)].db
    BY <2>1, Zenon DEF handler_write_property_multiple, Progress
  <2>. QED  BY <2>2, <2>3, ProgressKeeps
<1>4. CASE SegmentedWritePropertyMultiple
  <2>1. db' = db
    BY <1>4 DEF SegmentedWritePropertyMultiple, handler_write_property_multiple
  <2>. QED  BY <1>1, <2>1
<1>5. CASE AddRecord \/ Pulses
  <2>1. PICK type, table : /\ type # "DEVICE" /\ db' = [db EXCEPT ![type] = table]
                           /\ SameShape(table, db[type])
    <3>1. \A t, record : SameShape(TL_Add_Record(t, 0, record), t)
      BY DEF TL_Add_Record, SameShape
    <3>2. \A t, pulses : SameShape(ACC_Present_Value_Increment(t, 0, pulses, 0), t)
      BY DEF ACC_Present_Value_Increment, SameShape
    <3>. QED  BY <1>5, <3>1, <3>2 DEF AddRecord, Pulses
  <2>2. db'.DEVICE = db.DEVICE /\ IsFunction(db') /\ "DEVICE" \in DOMAIN db'
    BY <2>1 DEF DatabaseInv, IsFunction
  <2>3. Shaped(db')
    BY <2>1, ShapedWith DEF DatabaseInv
  <2>. QED  BY <2>2, <2>3, Counted DEF DatabaseInv
<1>6. CASE ReadProperty \/ ReadPropertyMultiple \/ WhoHas \/ TurnedAway \/ Timer
            \/ DeviceCommunicationControl \/ ReinitializeDevice
  <2>1. db' = db
    BY <1>6 DEF ReadProperty, ReadPropertyMultiple, WhoHas, TurnedAway, Timer,
       DeviceCommunicationControl, ReinitializeDevice
  <2>. QED  BY <1>1, <2>1
<1>7. CASE UNCHANGED vars
  BY <1>1, <1>7 DEF vars
<1>8. CASE Link
  <2>1. db' = Linked(db)
    BY <1>8 DEF Link
  <2>. QED  BY <2>1, LinkLeaves, Counted DEF DatabaseInv
<1>. QED  BY <1>2, <1>3, <1>4, <1>5, <1>6, <1>7, <1>8 DEF Next

BaseInv == under \in UnderTest /\ DatabaseInv(db)

LEMMA BaseInductive ==
  /\ Init => BaseInv
  /\ BaseInv /\ [Next]_vars => BaseInv'
<1>1. ASSUME Init PROVE BaseInv
  <2>1. PICK device : device = Started
    OBVIOUS
  <2>2. Typed(device) /\ Apart(device.My_Object_Name)
    <3>1. Typed(Device_Init)
      BY DEF Device_Init, Typed
    <3>2. PICK named :
            /\ \E n : named = Set_Object_Name(Set_Object_Instance_Number(Device_Init, n),
                                            Ansi("ESP32_BACnet_Server", 0))
            /\ device.Database_Revision = named.Database_Revision
            /\ device.My_Object_Name = named.My_Object_Name
            /\ DOMAIN device = DOMAIN named
      <4>1. PICK named : named = Set_Object_Name(
                                  Set_Object_Instance_Number(Device_Init, ServerDeviceId),
                                  Ansi("ESP32_BACnet_Server", 0))
        OBVIOUS
      <4>2. \E x, y : device = [named EXCEPT !.Model_Name = x, !.Description = y]
        BY <2>1, <4>1, Zenon DEF Started
      <4>. QED  BY <4>1, <4>2
    <3>3. Typed(named)
      BY <3>1, <3>2, Counted
    <3>4. named.My_Object_Name = Ansi("ESP32_BACnet_Server", 0)
      BY <3>1, <3>2, Counted, NameAfter
    <3>5. Apart(Ansi("ESP32_BACnet_Server", 0))
      BY TypesAre, SMT DEF Apart, Ansi, OtherTypes
    <3>. QED  BY <3>2, <3>3, <3>4, <3>5 DEF Typed
  <2>3. PICK a1, a2, a3, a4, a5, a6, a7, a8, a9, b1, b2, b3, b4, b5, b6, b7, b8 :
          db = [DEVICE |-> device, ANALOG_INPUT |-> a1, ANALOG_OUTPUT |-> a2,
                ANALOG_VALUE |-> a3, BINARY_INPUT |-> a4, BINARY_OUTPUT |-> a5,
                BINARY_VALUE |-> a6, MULTI_STATE_INPUT |-> a7,
                MULTI_STATE_OUTPUT |-> a8, MULTI_STATE_VALUE |-> a9,
                INTEGER_VALUE |-> b1, POSITIVE_INTEGER_VALUE |-> b2,
                CHARACTERSTRING_VALUE |-> b3, LARGE_ANALOG_VALUE |-> b4,
                TREND_LOG |-> b5, ACCUMULATOR |-> b6, NETWORK_PORT |-> b7,
                SCHEDULE |-> b8]
    BY <1>1, <2>1, Zenon DEF Init, StartedDatabase
  <2>4. IsFunction(db) /\ "DEVICE" \in DOMAIN db /\ db.DEVICE = device
    BY <2>3 DEF IsFunction
  <2>5. Shaped(db)
    <3>1. \A type \in OtherTypes : type \in DOMAIN db
      BY <2>3, TypesAre DEF OtherTypes
    <3>. QED  BY <1>1, <3>1 DEF Init, Shaped, SameShape
  <2>. QED  BY <1>1, <2>2, <2>4, <2>5 DEF Init, BaseInv, DatabaseInv
<1>2. ASSUME BaseInv, [Next]_vars PROVE BaseInv'
  <2>1. DatabaseInv(db)'
    BY <1>2, DatabaseSteps DEF BaseInv
  <2>2. under' = under
    BY <1>2 DEF Next, vars, WriteProperty, WritePropertyMultiple, SegmentedWritePropertyMultiple,
       ReadProperty, ReadPropertyMultiple, WhoHas, TurnedAway, DeviceCommunicationControl,
       ReinitializeDevice, Timer, AddRecord, Pulses, Link
  <2>. QED  BY <1>2, <2>1, <2>2 DEF BaseInv
<1>. QED  BY <1>1, <1>2

LEMMA BaseCorrect == Spec => []BaseInv
BY BaseInductive, PTL DEF Spec

-----------------------------------------------------------------------------
\* The list of objects and the names are functions of the number and the name of the device.
LEMMA ListFollows ==
  ASSUME NEW d, NEW e, d.DEVICE.Object_Instance_Number = e.DEVICE.Object_Instance_Number
  PROVE  Object_List(d) = Object_List(e)
<1>1. \A type, i : Object_Instance(d, type, i) = Object_Instance(e, type, i)
  BY DEF Object_Instance
<1>2. [t \in DOMAIN ObjectTypes |->
         [k \in 1..Object_Count(ObjectTypes[t]) |->
            <<ObjectTypes[t], Object_Instance(d, ObjectTypes[t], k - 1)>>]]
      = [t \in DOMAIN ObjectTypes |->
           [k \in 1..Object_Count(ObjectTypes[t]) |->
              <<ObjectTypes[t], Object_Instance(e, ObjectTypes[t], k - 1)>>]]
  BY <1>1
<1>. QED  BY <1>2 DEF Object_List

LEMMA DirectoryFollows ==
  ASSUME NEW d, NEW e,
         d.DEVICE.Object_Instance_Number = e.DEVICE.Object_Instance_Number,
         d.DEVICE.My_Object_Name = e.DEVICE.My_Object_Name
  PROVE  Directory(d) = Directory(e)
<1>1. \A type, i : Object_Name(d, type, i) = Object_Name(e, type, i)
  BY SMT DEF Object_Name
<1>. QED  BY <1>1, ListFollows DEF Directory

\* While Database_Revision of the device object (device.c) stays, so do its object list and the
\* names in it, whatever is written in between: renaming and renumbering count it up.
THEOREM DirectoryRevised == Spec => RevisionTellsOfChange
<1>. DEFINE A == /\ under = "DEVICE"
                 /\ db'.DEVICE.Database_Revision = db.DEVICE.Database_Revision
                 => Directory(db') = Directory(db)
<1>1. BaseInv /\ [Next]_vars => A
  BY DatabaseSteps, DirectoryFollows DEF BaseInv, Follows
<1>2. RevisionTellsOfChange <=> [][A]_vars
  BY DEF RevisionTellsOfChange
<1>. HIDE DEF A
<1>. QED  BY <1>1, <1>2, BaseCorrect, PTL DEF Spec

\* Who-Has (h_whohas.c, Device_Valid_Object_Name of device.c) finds a listed object, and no
\* other, under the name it gives itself, however the device was renamed and renumbered.
THEOREM NamesAreUnique == Spec => []NamesIdentify
<1>1. BaseInv => NamesIdentify
  <2>. SUFFICES ASSUME BaseInv, NEW id \in Range(Object_List(db)),
                       NEW answer \in match_object(db, dcc_enabled, id)
                PROVE  match_name(db, dcc_enabled, answer.name) = {answer}
    BY DEF NamesIdentify
  <2>1. PICK name : name = Object_Name(db, id[1], id[2])
    OBVIOUS
  <2>2. \A answers : Send_I_Have(dcc_enabled, answers) = answers
    BY DEF Send_I_Have, dcc_enabled
  <2>3. answer = IHave(db, id, name)
    BY <2>1, <2>2 DEF match_object
  <2>4. answer.name = name
    BY <2>3 DEF IHave
  <2>5. NamedObjects(db, name) # {} /\ FirstNamed(db, name) = id
    BY <2>1, FoundByName DEF BaseInv, DatabaseInv
  <2>6. match_name(db, dcc_enabled, name) = {IHave(db, id, name)}
    BY <2>2, <2>5 DEF match_name
  <2>. QED  BY <2>3, <2>4, <2>6
<1>. QED  BY <1>1, BaseCorrect, PTL

(***************************************************************************)
(* Every property an object lists is read.  The lists and the switches are *)
(* compared type by type.                                                  *)
(***************************************************************************)

\* Lists of properties in X, of which the required are not empty.
Listable(lists, X) ==
  /\ lists.required \in Seq(X) /\ lists.optional \in Seq(X) /\ lists.proprietary \in Seq(X)
  /\ lists.required # << >>

\* ReadPropertyMultiple of ALL goes by the three lists, one after the other.
LEMMA AllOfLists ==
  ASSUME NEW type, NEW X, Listable(Property_Lists(type), X)
  PROVE  LET all == RPM_Object_Properties(type, "ALL")
         IN  all \in Seq(X) /\ all # << >>
<1>1. PICK a, b, c :
        /\ a = Property_Lists(type).required /\ b = Property_Lists(type).optional
        /\ c = Property_Lists(type).proprietary
  OBVIOUS
<1>2. RPM_Object_Properties(type, "ALL") = Join(Join(a, b), c)
  BY <1>1, Zenon DEF RPM_Object_Properties, Join
<1>3. a \in Seq(X) /\ b \in Seq(X) /\ c \in Seq(X) /\ a # << >>
  BY <1>1 DEF Listable
<1>4. \A x, y \in Seq(X) : x # << >> => Join(x, y) \in Seq(X) /\ Join(x, y) # << >>
  BY DEF Join
<1>. QED  BY <1>2, <1>3, <1>4

\* The cases every switch but those of the device, the schedule and the port has.
CommonNames ==
  {"OBJECT_IDENTIFIER", "OBJECT_NAME", "DESCRIPTION", "OBJECT_TYPE", "STATUS_FLAGS",
   "EVENT_STATE", "OUT_OF_SERVICE"}

\* The lists of the types whose objects have what all have.
LEMMA CommonLists ==
  ASSUME NEW X, CommonNames \cup {"PRESENT_VALUE"} \subseteq X
  PROVE  \A more, optional, proprietary \in Seq(X) :
           /\ Listable(Lists(CommonRequired \o more, optional, proprietary), X)
           /\ Listable(Lists(CommonRequired, optional, proprietary), X)
<1>. SUFFICES ASSUME NEW more \in Seq(X), NEW optional \in Seq(X), NEW proprietary \in Seq(X)
              PROVE  /\ Listable(Lists(CommonRequired \o more, optional, proprietary), X)
                     /\ Listable(Lists(CommonRequired, optional, proprietary), X)
  OBVIOUS
<1>1. PICK a, b : a = CommonRequired /\ b = a \o more
  OBVIOUS
<1>2. a \in Seq(X) /\ a # << >>
  BY <1>1 DEF CommonRequired, CommonNames
<1>3. b \in Seq(X) /\ b # << >>
  BY <1>1, <1>2
<1>. QED  BY <1>1, <1>2, <1>3, Zenon DEF Listable, Lists

\* A property that is one value is shown whole as that value.
LEMMA WholeOfOne ==
  ASSUME NEW v
  PROVE  Whole(One(v)) = <<v>>
<1>1. PICK seqs : seqs = << <<v>> >>
  OBVIOUS
<1>2. Len(seqs) = 1 /\ seqs[1] = <<v>>
  BY <1>1
<1>3. FlattenSeq(seqs) = seqs[1]
  <2>1. PICK L : L = Len(seqs)
    OBVIOUS
  <2>2. L \in Nat /\ L > 0
    BY <1>2, <2>1
  <2>. QED  BY <1>2, <2>1, <2>2, FlattenTurns
<1>. QED  BY <1>1, <1>2, <1>3 DEF Whole, One

\* Every property a switch has a case for is read, and one value as that value.
LEMMA Switch ==
  ASSUME NEW cases
  PROVE  /\ \A p \in DOMAIN cases : Read(cases, p, ARRAY_ALL).ok
         /\ \A p \in DOMAIN cases : \A v :
              cases[p] = One(v) => Read(cases, p, ARRAY_ALL) = Answer(<<v>>)
<1>1. \A p \in DOMAIN cases : Read(cases, p, ARRAY_ALL) = Answer(Whole(cases[p]))
  BY DEF Read
<1>2. \A v : Whole(One(v)) = <<v>>
  BY WholeOfOne
<1>3. \A data : Answer(data).ok
  BY DEF Answer
<1>. QED  BY <1>1, <1>2, <1>3

\* Every property an object lists is read.
Listed(d, type, i) ==
  LET all == RPM_Object_Properties(type, "ALL")
  IN  /\ all # << >>
      /\ \A n \in DOMAIN all :
           all[n] # "LOG_BUFFER" => Device_Read_Property(d, type, i, all[n], ARRAY_ALL).ok

\* An object shows a value as its property.
Shown(d, type, i, p, v) ==
  Device_Read_Property(d, type, i, p, ARRAY_ALL).data = <<v>>

\* A switch with a case for every listed property reads every listed property, and a
\* property that is one value is read as that value.
LEMMA ListedBy ==
  ASSUME NEW d, NEW type, NEW i, NEW cases, NEW beside,
         Listable(Property_Lists(type), DOMAIN cases \cup beside),
         \A p \in beside : p = "LOG_BUFFER" \/ Device_Read_Property(d, type, i, p, ARRAY_ALL).ok,
         \A p \in DOMAIN cases :
           Device_Read_Property(d, type, i, p, ARRAY_ALL) = Read(cases, p, ARRAY_ALL)
  PROVE  /\ Listed(d, type, i)
         /\ \A p \in DOMAIN cases : \A v : cases[p] = One(v) => Shown(d, type, i, p, v)
<1>1. PICK all, X : all = RPM_Object_Properties(type, "ALL") /\ X = DOMAIN cases \cup beside
  OBVIOUS
<1>2. all \in Seq(X) /\ all # << >>
  BY <1>1, AllOfLists
<1>3. \A n \in DOMAIN all : all[n] \in X
  BY <1>2
<1>4. Listed(d, type, i)
  BY <1>1, <1>2, <1>3, Switch DEF Listed
<1>5. \A v : Answer(v).data = v
  BY DEF Answer
<1>6. ASSUME NEW p \in DOMAIN cases, NEW v, cases[p] = One(v)
      PROVE  Shown(d, type, i, p, v)
  <2>1. Read(cases, p, ARRAY_ALL) = Answer(<<v>>)
    BY <1>6, Switch
  <2>. QED  BY <1>5, <2>1 DEF Shown
<1>. QED  BY <1>4, <1>6

\* The same of the objects that have what all have, and cases of their own.
ReadBy(d, type, i, flag, own) ==
  \A p \in CommonNames \cup DOMAIN own :
    Device_Read_Property(d, type, i, p, ARRAY_ALL)
      = Read(ObjectProperties(type, i, flag, own), p, ARRAY_ALL)

\* The switch and the lists agree; beside are the listed properties it treats apart.
Basis(d, type, i, flag, own, beside) ==
  /\ ReadBy(d, type, i, flag, own) /\ "OUT_OF_SERVICE" \notin DOMAIN own
  /\ Listable(Property_Lists(type), CommonNames \cup DOMAIN own \cup beside)
  /\ \A p \in beside : p = "LOG_BUFFER" \/ Device_Read_Property(d, type, i, p, ARRAY_ALL).ok

\* What follows of them.
Shows(d, type, i, flag, own) ==
  /\ Listed(d, type, i)
  /\ Shown(d, type, i, "OUT_OF_SERVICE", Boolean(flag))
  /\ \A p \in DOMAIN own : \A v : own[p] = One(v) => Shown(d, type, i, p, v)

\* Agreement is enough.
LEMMA Standard ==
  ASSUME NEW d, NEW type, NEW i, NEW flag, NEW own, NEW beside,
         Basis(d, type, i, flag, own, beside)
  PROVE  Shows(d, type, i, flag, own)
<1>1. PICK cases : cases = ObjectProperties(type, i, flag, own)
  OBVIOUS
<1>2. /\ DOMAIN cases = CommonNames \cup DOMAIN own
      /\ \A p \in DOMAIN own : cases[p] = own[p]
      /\ "OUT_OF_SERVICE" \notin DOMAIN own => cases["OUT_OF_SERVICE"] = One(Boolean(flag))
  BY <1>1 DEF ObjectProperties, CommonNames
<1>3. /\ \A p \in DOMAIN cases :
           Device_Read_Property(d, type, i, p, ARRAY_ALL) = Read(cases, p, ARRAY_ALL)
      /\ Listable(Property_Lists(type), DOMAIN cases \cup beside)
      /\ \A p \in beside : p = "LOG_BUFFER" \/ Device_Read_Property(d, type, i, p, ARRAY_ALL).ok
  BY <1>1, <1>2 DEF Basis, ReadBy
<1>4. /\ Listed(d, type, i)
      /\ \A p \in DOMAIN cases : \A v : cases[p] = One(v) => Shown(d, type, i, p, v)
  BY <1>3, ListedBy
<1>5. Shown(d, type, i, "OUT_OF_SERVICE", Boolean(flag))
  BY <1>2, <1>4 DEF CommonNames, Basis
<1>. QED  BY <1>2, <1>4, <1>5 DEF Shows

\* Reading goes to the switch of the type, and the lists are those of the type.
LEMMA ReadByType ==
  ASSUME NEW d, NEW i \in Instances, NEW p
  PROVE  /\ Device_Read_Property(d, "ANALOG_INPUT", i, p, ARRAY_ALL)
              = AI_Read_Property(d.ANALOG_INPUT, i, p, ARRAY_ALL)
         /\ Device_Read_Property(d, "BINARY_INPUT", i, p, ARRAY_ALL)
              = BI_Read_Property(d.BINARY_INPUT, i, p, ARRAY_ALL)
         /\ Device_Read_Property(d, "MULTI_STATE_INPUT", i, p, ARRAY_ALL)
              = MSI_Read_Property(d.MULTI_STATE_INPUT, i, p, ARRAY_ALL)
         /\ Device_Read_Property(d, "ACCUMULATOR", i, p, ARRAY_ALL)
              = ACC_Read_Property(d.ACCUMULATOR, i, p, ARRAY_ALL)
         /\ Device_Read_Property(d, "ANALOG_VALUE", i, p, ARRAY_ALL)
              = AV_Read_Property(d.ANALOG_VALUE, i, p, ARRAY_ALL)
         /\ Device_Read_Property(d, "INTEGER_VALUE", i, p, ARRAY_ALL)
              = IV_Read_Property(d.INTEGER_VALUE, i, p, ARRAY_ALL)
         /\ Device_Read_Property(d, "POSITIVE_INTEGER_VALUE", i, p, ARRAY_ALL)
              = PIV_Read_Property(d.POSITIVE_INTEGER_VALUE, i, p, ARRAY_ALL)
         /\ Device_Read_Property(d, "LARGE_ANALOG_VALUE", i, p, ARRAY_ALL)
              = LAV_Read_Property(d.LARGE_ANALOG_VALUE, i, p, ARRAY_ALL)
         /\ Device_Read_Property(d, "CHARACTERSTRING_VALUE", i, p, ARRAY_ALL)
              = CSV_Read_Property(d.CHARACTERSTRING_VALUE, i, p, ARRAY_ALL)
         /\ Device_Read_Property(d, "ANALOG_OUTPUT", i, p, ARRAY_ALL)
              = AO_Read_Property(d.ANALOG_OUTPUT, i, p, ARRAY_ALL)
         /\ Device_Read_Property(d, "BINARY_VALUE", i, p, ARRAY_ALL)
              = BV_Read_Property(d.BINARY_VALUE, i, p, ARRAY_ALL)
         /\ Device_Read_Property(d, "BINARY_OUTPUT", i, p, ARRAY_ALL)
              = BO_Read_Property(d.BINARY_OUTPUT, i, p, ARRAY_ALL)
         /\ Device_Read_Property(d, "MULTI_STATE_OUTPUT", i, p, ARRAY_ALL)
              = MSO_Read_Property(d.MULTI_STATE_OUTPUT, i, p, ARRAY_ALL)
         /\ Device_Read_Property(d, "MULTI_STATE_VALUE", i, p, ARRAY_ALL)
              = MSV_Read_Property(d.MULTI_STATE_VALUE, i, p, ARRAY_ALL)
         /\ Device_Read_Property(d, "TREND_LOG", i, p, ARRAY_ALL)
              = TL_Read_Property(d.TREND_LOG, i, p, ARRAY_ALL)
<1>1. \A type \in {"ANALOG_INPUT", "BINARY_INPUT", "MULTI_STATE_INPUT", "ACCUMULATOR",
              "ANALOG_VALUE", "INTEGER_VALUE", "POSITIVE_INTEGER_VALUE", "LARGE_ANALOG_VALUE",
              "CHARACTERSTRING_VALUE", "ANALOG_OUTPUT", "BINARY_VALUE", "BINARY_OUTPUT",
              "MULTI_STATE_OUTPUT", "MULTI_STATE_VALUE", "TREND_LOG"} :
        Valid_Object_Id(d, type, i)
  BY SMT DEF Valid_Object_Id, Valid_Instances, AI_Instances, BI_Instances, MSI_Instances,
     ACC_Instances, AV_Instances, IV_Instances, PIV_Instances, LAV_Instances, CSV_Instances,
     AO_Instances, BV_Instances, BO_Instances, MSO_Instances, MSV_Instances, TL_Instances
<1>. QED  BY <1>1, SMT DEF Device_Read_Property

\* Device_Objects_Property_List gives each type its own lists.
LEMMA ListsByType ==
  /\ Property_Lists("ANALOG_INPUT") = AI_Property_Lists
  /\ Property_Lists("BINARY_INPUT") = BI_Property_Lists
  /\ Property_Lists("MULTI_STATE_INPUT") = MSI_Property_Lists
  /\ Property_Lists("ACCUMULATOR") = ACC_Property_Lists
  /\ Property_Lists("ANALOG_VALUE") = AV_Property_Lists
  /\ Property_Lists("INTEGER_VALUE") = IV_Property_Lists
  /\ Property_Lists("POSITIVE_INTEGER_VALUE") = PIV_Property_Lists
  /\ Property_Lists("LARGE_ANALOG_VALUE") = LAV_Property_Lists
  /\ Property_Lists("CHARACTERSTRING_VALUE") = CSV_Property_Lists
  /\ Property_Lists("ANALOG_OUTPUT") = AO_Property_Lists
  /\ Property_Lists("BINARY_VALUE") = BV_Property_Lists
  /\ Property_Lists("BINARY_OUTPUT") = BO_Property_Lists
  /\ Property_Lists("MULTI_STATE_OUTPUT") = MSO_Property_Lists
  /\ Property_Lists("MULTI_STATE_VALUE") = MSV_Property_Lists
  /\ Property_Lists("TREND_LOG") = TL_Property_Lists
BY SMT DEF Property_Lists

\* ai.c reads every property it lists, and shows what it keeps.
LEMMA AnalogInput ==
  ASSUME NEW d, NEW i \in Instances
  PROVE  LET object == d.ANALOG_INPUT[i]
         IN  /\ Listed(d, "ANALOG_INPUT", i)
             /\ Shown(d, "ANALOG_INPUT", i, "OUT_OF_SERVICE", Boolean(object.Out_Of_Service))
             /\ Shown(d, "ANALOG_INPUT", i, "PRESENT_VALUE", Real(object.Present_Value))
             /\ Shown(d, "ANALOG_INPUT", i, "UNITS", Enumerated(object.Units))
             /\ Shown(d, "ANALOG_INPUT", i, "COV_INCREMENT", Real(object.COV_Increment))
<1>1. PICK object, table : object = d.ANALOG_INPUT[i] /\ table = d.ANALOG_INPUT
  OBVIOUS
<1>2. PICK flag, own :
        /\ \A p : AI_Read_Property(table, i, p, ARRAY_ALL)
                    = Read(ObjectProperties("ANALOG_INPUT", i, flag, own), p, ARRAY_ALL)
        /\ DOMAIN own = {"PRESENT_VALUE", "RELIABILITY", "UNITS", "COV_INCREMENT",
                         "PROPRIETARY_9997", "PROPRIETARY_9998", "PROPRIETARY_9999"}
        /\ flag = object.Out_Of_Service
        /\ own.PRESENT_VALUE = One(Real(object.Present_Value))
        /\ own.UNITS = One(Enumerated(object.Units))
        /\ own.COV_INCREMENT = One(Real(object.COV_Increment))
  BY <1>1, SMT DEF AI_Read_Property
<1>3. ReadBy(d, "ANALOG_INPUT", i, flag, own)
  BY <1>1, <1>2, ReadByType DEF ReadBy
<1>4. Listable(Property_Lists("ANALOG_INPUT"), CommonNames \cup DOMAIN own \cup {})
  <2>1. PICK X : X = CommonNames \cup DOMAIN own \cup {}
    OBVIOUS
  <2>2. /\ <<"UNITS">> \in Seq(X)
        /\ <<"DESCRIPTION", "RELIABILITY", "COV_INCREMENT">> \in Seq(X)
        /\ <<"PROPRIETARY_9997", "PROPRIETARY_9998", "PROPRIETARY_9999">> \in Seq(X)
        /\ CommonNames \cup {"PRESENT_VALUE"} \subseteq X
    BY <1>2, <2>1 DEF CommonNames
  <2>3. Listable(AI_Property_Lists, X)
    BY <2>2, CommonLists, Zenon DEF AI_Property_Lists
  <2>. QED  BY <2>1, <2>3, ListsByType
<1>5. Basis(d, "ANALOG_INPUT", i, flag, own, {})
  BY <1>2, <1>3, <1>4 DEF Basis
<1>6. Shows(d, "ANALOG_INPUT", i, flag, own)
  BY <1>5, Standard
<1>. QED  BY <1>1, <1>2, <1>6 DEF Shows

\* bi.c reads every property it lists, and shows what it keeps.
LEMMA BinaryInput ==
  ASSUME NEW d, NEW i \in Instances
  PROVE  LET object == d.BINARY_INPUT[i]
         IN  /\ Listed(d, "BINARY_INPUT", i)
             /\ Shown(d, "BINARY_INPUT", i, "OUT_OF_SERVICE", Boolean(object.Out_Of_Service))
             /\ Shown(d, "BINARY_INPUT", i, "PRESENT_VALUE",
                      Enumerated(BI_Present_Value(d.BINARY_INPUT, i)))
             /\ Shown(d, "BINARY_INPUT", i, "POLARITY", Enumerated(object.Polarity))
<1>1. PICK object, table : object = d.BINARY_INPUT[i] /\ table = d.BINARY_INPUT
  OBVIOUS
<1>2. PICK flag, own :
        /\ \A p : BI_Read_Property(table, i, p, ARRAY_ALL)
                    = Read(ObjectProperties("BINARY_INPUT", i, flag, own), p, ARRAY_ALL)
        /\ DOMAIN own = {"PRESENT_VALUE", "POLARITY"}
        /\ flag = object.Out_Of_Service
        /\ own.PRESENT_VALUE = One(Enumerated(BI_Present_Value(table, i)))
        /\ own.POLARITY = One(Enumerated(object.Polarity))
  BY <1>1, SMT DEF BI_Read_Property
<1>3. ReadBy(d, "BINARY_INPUT", i, flag, own)
  BY <1>1, <1>2, ReadByType DEF ReadBy
<1>4. Listable(Property_Lists("BINARY_INPUT"), CommonNames \cup DOMAIN own \cup {})
  <2>1. PICK X : X = CommonNames \cup DOMAIN own \cup {}
    OBVIOUS
  <2>2. /\ <<"POLARITY">> \in Seq(X)
        /\ <<"DESCRIPTION">> \in Seq(X)
        /\ << >> \in Seq(X)
        /\ CommonNames \cup {"PRESENT_VALUE"} \subseteq X
    BY <1>2, <2>1 DEF CommonNames
  <2>3. Listable(BI_Property_Lists, X)
    BY <2>2, CommonLists, Zenon DEF BI_Property_Lists
  <2>. QED  BY <2>1, <2>3, ListsByType
<1>5. Basis(d, "BINARY_INPUT", i, flag, own, {})
  BY <1>2, <1>3, <1>4 DEF Basis
<1>6. Shows(d, "BINARY_INPUT", i, flag, own)
  BY <1>5, Standard
<1>. QED  BY <1>1, <1>2, <1>6 DEF Shows

\* msi.c reads every property it lists, and shows what it keeps.
LEMMA MultiStateInput ==
  ASSUME NEW d, NEW i \in Instances
  PROVE  LET object == d.MULTI_STATE_INPUT[i]
         IN  /\ Listed(d, "MULTI_STATE_INPUT", i)
             /\ Shown(d, "MULTI_STATE_INPUT", i, "OUT_OF_SERVICE", Boolean(object.Out_Of_Service))
             /\ Shown(d, "MULTI_STATE_INPUT", i, "PRESENT_VALUE", Unsigned(object.Present_Value))
<1>1. PICK object, table : object = d.MULTI_STATE_INPUT[i] /\ table = d.MULTI_STATE_INPUT
  OBVIOUS
<1>2. PICK flag, own :
        /\ \A p : MSI_Read_Property(table, i, p, ARRAY_ALL)
                    = Read(ObjectProperties("MULTI_STATE_INPUT", i, flag, own), p, ARRAY_ALL)
        /\ DOMAIN own = {"PRESENT_VALUE", "NUMBER_OF_STATES"}
        /\ flag = object.Out_Of_Service
        /\ own.PRESENT_VALUE = One(Unsigned(object.Present_Value))
  BY <1>1, SMT DEF MSI_Read_Property
<1>3. ReadBy(d, "MULTI_STATE_INPUT", i, flag, own)
  BY <1>1, <1>2, ReadByType DEF ReadBy
<1>4. Listable(Property_Lists("MULTI_STATE_INPUT"), CommonNames \cup DOMAIN own \cup {})
  <2>1. PICK X : X = CommonNames \cup DOMAIN own \cup {}
    OBVIOUS
  <2>2. /\ <<"NUMBER_OF_STATES">> \in Seq(X)
        /\ <<"DESCRIPTION">> \in Seq(X)
        /\ << >> \in Seq(X)
        /\ CommonNames \cup {"PRESENT_VALUE"} \subseteq X
    BY <1>2, <2>1 DEF CommonNames
  <2>3. Listable(MSI_Property_Lists, X)
    BY <2>2, CommonLists, Zenon DEF MSI_Property_Lists
  <2>. QED  BY <2>1, <2>3, ListsByType
<1>5. Basis(d, "MULTI_STATE_INPUT", i, flag, own, {})
  BY <1>2, <1>3, <1>4 DEF Basis
<1>6. Shows(d, "MULTI_STATE_INPUT", i, flag, own)
  BY <1>5, Standard
<1>. QED  BY <1>1, <1>2, <1>6 DEF Shows

\* acc.c reads every property it lists, and shows what it keeps.
LEMMA Accumulator ==
  ASSUME NEW d, NEW i \in Instances
  PROVE  LET object == d.ACCUMULATOR[i]
         IN  /\ Listed(d, "ACCUMULATOR", i)
             /\ Shown(d, "ACCUMULATOR", i, "OUT_OF_SERVICE", Boolean(object.Out_Of_Service))
             /\ Shown(d, "ACCUMULATOR", i, "UNITS", Enumerated(object.Units))
<1>1. PICK object, table : object = d.ACCUMULATOR[i] /\ table = d.ACCUMULATOR
  OBVIOUS
<1>2. PICK flag, own :
        /\ \A p : p # "PRESCALE" => ACC_Read_Property(table, i, p, ARRAY_ALL)
                    = Read(ObjectProperties("ACCUMULATOR", i, flag, own), p, ARRAY_ALL)
        /\ DOMAIN own = {"PRESENT_VALUE", "UNITS", "SCALE", "MAX_PRES_VALUE",
                         "VALUE_CHANGE_TIME"}
        /\ flag = object.Out_Of_Service
        /\ own.UNITS = One(Enumerated(object.Units))
  BY <1>1, SMT DEF ACC_Read_Property
<1>3. ReadBy(d, "ACCUMULATOR", i, flag, own)
  BY <1>1, <1>2, ReadByType DEF ReadBy, CommonNames
<1>4. Listable(Property_Lists("ACCUMULATOR"), CommonNames \cup DOMAIN own \cup {"PRESCALE"})
  <2>1. PICK X : X = CommonNames \cup DOMAIN own \cup {"PRESCALE"}
    OBVIOUS
  <2>2. /\ <<"SCALE", "UNITS", "MAX_PRES_VALUE", "VALUE_CHANGE_TIME">> \in Seq(X)
        /\ <<"DESCRIPTION", "PRESCALE">> \in Seq(X)
        /\ << >> \in Seq(X)
        /\ CommonNames \cup {"PRESENT_VALUE"} \subseteq X
    BY <1>2, <2>1 DEF CommonNames
  <2>3. Listable(ACC_Property_Lists, X)
    BY <2>2, CommonLists, Zenon DEF ACC_Property_Lists
  <2>. QED  BY <2>1, <2>3, ListsByType
<1>5. Device_Read_Property(d, "ACCUMULATOR", i, "PRESCALE", ARRAY_ALL).ok
  <2>1. ACC_Read_Property(table, i, "PRESCALE", ARRAY_ALL).ok
    BY SMT DEF ACC_Read_Property, Answer
  <2>. QED  BY <1>1, <2>1, ReadByType
<1>6. Basis(d, "ACCUMULATOR", i, flag, own, {"PRESCALE"})
  BY <1>2, <1>3, <1>4, <1>5 DEF Basis
<1>7. Shows(d, "ACCUMULATOR", i, flag, own)
  BY <1>6, Standard
<1>. QED  BY <1>1, <1>2, <1>7 DEF Shows

\* av.c reads every property it lists, and shows what it keeps.
LEMMA AnalogValue ==
  ASSUME NEW d, NEW i \in Instances
  PROVE  LET object == d.ANALOG_VALUE[i]
         IN  /\ Listed(d, "ANALOG_VALUE", i)
             /\ Shown(d, "ANALOG_VALUE", i, "OUT_OF_SERVICE", Boolean(object.Out_Of_Service))
             /\ Shown(d, "ANALOG_VALUE", i, "PRESENT_VALUE", Real(object.Present_Value))
             /\ Shown(d, "ANALOG_VALUE", i, "UNITS", Enumerated(object.Units))
<1>1. PICK object, table : object = d.ANALOG_VALUE[i] /\ table = d.ANALOG_VALUE
  OBVIOUS
<1>2. PICK flag, own :
        /\ \A p : AV_Read_Property(table, i, p, ARRAY_ALL)
                    = Read(ObjectProperties("ANALOG_VALUE", i, flag, own), p, ARRAY_ALL)
        /\ DOMAIN own = {"PRESENT_VALUE", "UNITS"}
        /\ flag = object.Out_Of_Service
        /\ own.PRESENT_VALUE = One(Real(object.Present_Value))
        /\ own.UNITS = One(Enumerated(object.Units))
  BY <1>1, SMT DEF AV_Read_Property
<1>3. ReadBy(d, "ANALOG_VALUE", i, flag, own)
  BY <1>1, <1>2, ReadByType DEF ReadBy
<1>4. Listable(Property_Lists("ANALOG_VALUE"), CommonNames \cup DOMAIN own \cup {})
  <2>1. PICK X : X = CommonNames \cup DOMAIN own \cup {}
    OBVIOUS
  <2>2. /\ <<"UNITS">> \in Seq(X)
        /\ <<"DESCRIPTION">> \in Seq(X)
        /\ << >> \in Seq(X)
        /\ CommonNames \cup {"PRESENT_VALUE"} \subseteq X
    BY <1>2, <2>1 DEF CommonNames
  <2>3. Listable(AV_Property_Lists, X)
    BY <2>2, CommonLists, Zenon DEF AV_Property_Lists
  <2>. QED  BY <2>1, <2>3, ListsByType
<1>5. Basis(d, "ANALOG_VALUE", i, flag, own, {})
  BY <1>2, <1>3, <1>4 DEF Basis
<1>6. Shows(d, "ANALOG_VALUE", i, flag, own)
  BY <1>5, Standard
<1>. QED  BY <1>1, <1>2, <1>6 DEF Shows

\* iv.c reads every property it lists, and shows what it keeps.
LEMMA IntegerValue ==
  ASSUME NEW d, NEW i \in Instances
  PROVE  LET object == d.INTEGER_VALUE[i]
         IN  /\ Listed(d, "INTEGER_VALUE", i)
             /\ Shown(d, "INTEGER_VALUE", i, "OUT_OF_SERVICE", Boolean(object.Out_Of_Service))
             /\ Shown(d, "INTEGER_VALUE", i, "PRESENT_VALUE", Signed(object.Present_Value))
             /\ Shown(d, "INTEGER_VALUE", i, "UNITS", Enumerated(object.Units))
<1>1. PICK object, table : object = d.INTEGER_VALUE[i] /\ table = d.INTEGER_VALUE
  OBVIOUS
<1>2. PICK flag, own :
        /\ \A p : IV_Read_Property(table, i, p, ARRAY_ALL)
                    = Read(ObjectProperties("INTEGER_VALUE", i, flag, own), p, ARRAY_ALL)
        /\ DOMAIN own = {"PRESENT_VALUE", "UNITS"}
        /\ flag = object.Out_Of_Service
        /\ own.PRESENT_VALUE = One(Signed(object.Present_Value))
        /\ own.UNITS = One(Enumerated(object.Units))
  BY <1>1, SMT DEF IV_Read_Property, NumberProperties
<1>3. ReadBy(d, "INTEGER_VALUE", i, flag, own)
  BY <1>1, <1>2, ReadByType DEF ReadBy
<1>4. Listable(Property_Lists("INTEGER_VALUE"), CommonNames \cup DOMAIN own \cup {})
  <2>1. PICK X : X = CommonNames \cup DOMAIN own \cup {}
    OBVIOUS
  <2>2. /\ <<"DESCRIPTION", "UNITS">> \in Seq(X)
        /\ << >> \in Seq(X)
        /\ CommonNames \cup {"PRESENT_VALUE"} \subseteq X
    BY <1>2, <2>1 DEF CommonNames
  <2>3. Listable(IV_Property_Lists, X)
    BY <2>2, CommonLists, Zenon DEF IV_Property_Lists
  <2>. QED  BY <2>1, <2>3, ListsByType
<1>5. Basis(d, "INTEGER_VALUE", i, flag, own, {})
  BY <1>2, <1>3, <1>4 DEF Basis
<1>6. Shows(d, "INTEGER_VALUE", i, flag, own)
  BY <1>5, Standard
<1>. QED  BY <1>1, <1>2, <1>6 DEF Shows

\* piv.c reads every property it lists, and shows what it keeps.
LEMMA PositiveIntegerValue ==
  ASSUME NEW d, NEW i \in Instances
  PROVE  LET object == d.POSITIVE_INTEGER_VALUE[i]
         IN  /\ Listed(d, "POSITIVE_INTEGER_VALUE", i)
             /\ Shown(d, "POSITIVE_INTEGER_VALUE", i, "OUT_OF_SERVICE",
                      Boolean(object.Out_Of_Service))
             /\ Shown(d, "POSITIVE_INTEGER_VALUE", i, "PRESENT_VALUE",
                      Unsigned(object.Present_Value))
             /\ Shown(d, "POSITIVE_INTEGER_VALUE", i, "UNITS", Enumerated(object.Units))
<1>1. PICK object, table : object = d.POSITIVE_INTEGER_VALUE[i] /\ table = d.POSITIVE_INTEGER_VALUE
  OBVIOUS
<1>2. PICK flag, own :
        /\ \A p : PIV_Read_Property(table, i, p, ARRAY_ALL)
                    = Read(ObjectProperties("POSITIVE_INTEGER_VALUE", i, flag, own), p, ARRAY_ALL)
        /\ DOMAIN own = {"PRESENT_VALUE", "UNITS"}
        /\ flag = object.Out_Of_Service
        /\ own.PRESENT_VALUE = One(Unsigned(object.Present_Value))
        /\ own.UNITS = One(Enumerated(object.Units))
  BY <1>1, SMT DEF PIV_Read_Property, NumberProperties
<1>3. ReadBy(d, "POSITIVE_INTEGER_VALUE", i, flag, own)
  BY <1>1, <1>2, ReadByType DEF ReadBy
<1>4. Listable(Property_Lists("POSITIVE_INTEGER_VALUE"), CommonNames \cup DOMAIN own \cup {})
  <2>1. PICK X : X = CommonNames \cup DOMAIN own \cup {}
    OBVIOUS
  <2>2. /\ <<"DESCRIPTION", "UNITS">> \in Seq(X)
        /\ << >> \in Seq(X)
        /\ CommonNames \cup {"PRESENT_VALUE"} \subseteq X
    BY <1>2, <2>1 DEF CommonNames
  <2>3. Listable(PIV_Property_Lists, X)
    BY <2>2, CommonLists, Zenon DEF PIV_Property_Lists
  <2>. QED  BY <2>1, <2>3, ListsByType
<1>5. Basis(d, "POSITIVE_INTEGER_VALUE", i, flag, own, {})
  BY <1>2, <1>3, <1>4 DEF Basis
<1>6. Shows(d, "POSITIVE_INTEGER_VALUE", i, flag, own)
  BY <1>5, Standard
<1>. QED  BY <1>1, <1>2, <1>6 DEF Shows

\* lav.c reads every property it lists, and shows what it keeps.
LEMMA LargeAnalogValue ==
  ASSUME NEW d, NEW i \in Instances
  PROVE  LET object == d.LARGE_ANALOG_VALUE[i]
         IN  /\ Listed(d, "LARGE_ANALOG_VALUE", i)
             /\ Shown(d, "LARGE_ANALOG_VALUE", i, "OUT_OF_SERVICE", Boolean(object.Out_Of_Service))
             /\ Shown(d, "LARGE_ANALOG_VALUE", i, "PRESENT_VALUE", Double(object.Present_Value))
             /\ Shown(d, "LARGE_ANALOG_VALUE", i, "UNITS", Enumerated(object.Units))
<1>1. PICK object, table : object = d.LARGE_ANALOG_VALUE[i] /\ table = d.LARGE_ANALOG_VALUE
  OBVIOUS
<1>2. PICK flag, own :
        /\ \A p : LAV_Read_Property(table, i, p, ARRAY_ALL)
                    = Read(ObjectProperties("LARGE_ANALOG_VALUE", i, flag, own), p, ARRAY_ALL)
        /\ DOMAIN own = {"PRESENT_VALUE", "UNITS"}
        /\ flag = object.Out_Of_Service
        /\ own.PRESENT_VALUE = One(Double(object.Present_Value))
        /\ own.UNITS = One(Enumerated(object.Units))
  BY <1>1, SMT DEF LAV_Read_Property, NumberProperties
<1>3. ReadBy(d, "LARGE_ANALOG_VALUE", i, flag, own)
  BY <1>1, <1>2, ReadByType DEF ReadBy
<1>4. Listable(Property_Lists("LARGE_ANALOG_VALUE"), CommonNames \cup DOMAIN own \cup {})
  <2>1. PICK X : X = CommonNames \cup DOMAIN own \cup {}
    OBVIOUS
  <2>2. /\ <<"UNITS">> \in Seq(X)
        /\ <<"DESCRIPTION">> \in Seq(X)
        /\ << >> \in Seq(X)
        /\ CommonNames \cup {"PRESENT_VALUE"} \subseteq X
    BY <1>2, <2>1 DEF CommonNames
  <2>3. Listable(LAV_Property_Lists, X)
    BY <2>2, CommonLists, Zenon DEF LAV_Property_Lists
  <2>. QED  BY <2>1, <2>3, ListsByType
<1>5. Basis(d, "LARGE_ANALOG_VALUE", i, flag, own, {})
  BY <1>2, <1>3, <1>4 DEF Basis
<1>6. Shows(d, "LARGE_ANALOG_VALUE", i, flag, own)
  BY <1>5, Standard
<1>. QED  BY <1>1, <1>2, <1>6 DEF Shows

\* csv.c reads every property it lists, and shows what it keeps.
LEMMA CharacterStringValue ==
  ASSUME NEW d, NEW i \in Instances
  PROVE  LET object == d.CHARACTERSTRING_VALUE[i]
         IN  /\ Listed(d, "CHARACTERSTRING_VALUE", i)
             /\ Shown(d, "CHARACTERSTRING_VALUE", i, "OUT_OF_SERVICE",
                      Boolean(object.Out_Of_Service))
<1>1. PICK object, table : object = d.CHARACTERSTRING_VALUE[i] /\ table = d.CHARACTERSTRING_VALUE
  OBVIOUS
<1>2. PICK flag, own :
        /\ \A p : CSV_Read_Property(table, i, p, ARRAY_ALL)
                    = Read(ObjectProperties("CHARACTERSTRING_VALUE", i, flag, own), p, ARRAY_ALL)
        /\ DOMAIN own = {"PRESENT_VALUE"}
        /\ flag = object.Out_Of_Service
  BY <1>1, SMT DEF CSV_Read_Property
<1>3. ReadBy(d, "CHARACTERSTRING_VALUE", i, flag, own)
  BY <1>1, <1>2, ReadByType DEF ReadBy
<1>4. Listable(Property_Lists("CHARACTERSTRING_VALUE"), CommonNames \cup DOMAIN own \cup {})
  <2>1. PICK X : X = CommonNames \cup DOMAIN own \cup {}
    OBVIOUS
  <2>2. /\ <<"DESCRIPTION">> \in Seq(X)
        /\ << >> \in Seq(X)
        /\ CommonNames \cup {"PRESENT_VALUE"} \subseteq X
    BY <1>2, <2>1 DEF CommonNames
  <2>3. Listable(CSV_Property_Lists, X)
    BY <2>2, CommonLists, Zenon DEF CSV_Property_Lists
  <2>. QED  BY <2>1, <2>3, ListsByType
<1>5. Basis(d, "CHARACTERSTRING_VALUE", i, flag, own, {})
  BY <1>2, <1>3, <1>4 DEF Basis
<1>6. Shows(d, "CHARACTERSTRING_VALUE", i, flag, own)
  BY <1>5, Standard
<1>. QED  BY <1>1, <1>2, <1>6 DEF Shows

\* ao.c reads every property it lists, and shows what it keeps.
LEMMA AnalogOutput ==
  ASSUME NEW d, NEW i \in Instances
  PROVE  LET object == d.ANALOG_OUTPUT[i]
         IN  /\ Listed(d, "ANALOG_OUTPUT", i)
             /\ Shown(d, "ANALOG_OUTPUT", i, "OUT_OF_SERVICE", Boolean(object.Out_Of_Service))
<1>1. PICK object, table : object = d.ANALOG_OUTPUT[i] /\ table = d.ANALOG_OUTPUT
  OBVIOUS
<1>2. PICK flag, own :
        /\ \A p : AO_Read_Property(table, i, p, ARRAY_ALL)
                    = Read(ObjectProperties("ANALOG_OUTPUT", i, flag, own), p, ARRAY_ALL)
        /\ DOMAIN own = {"PRESENT_VALUE", "UNITS", "PRIORITY_ARRAY", "RELINQUISH_DEFAULT"}
        /\ flag = object.Out_Of_Service
  <2>1. PICK flag, own :
        /\ flag = object.Out_Of_Service
        /\ own = [PRESENT_VALUE |-> One(Real(2 * AO_Present_Value(table, i))),
                  UNITS |-> One(Enumerated(PERCENT)),
                  PRIORITY_ARRAY |-> Array(LevelElements(table[i].Level, LAMBDA x : Real(2 * x))),
                  RELINQUISH_DEFAULT |-> One(Real(2 * AO_RELINQUISH_DEFAULT))]
    OBVIOUS
  <2>2. \A p : AO_Read_Property(table, i, p, ARRAY_ALL)
               = Read(ObjectProperties("ANALOG_OUTPUT", i, flag, own), p, ARRAY_ALL)
    BY <1>1, <2>1 DEF AO_Read_Property
  <2>3. DOMAIN own = {"PRESENT_VALUE", "UNITS", "PRIORITY_ARRAY", "RELINQUISH_DEFAULT"}
    BY <2>1
  <2>. QED  BY <2>1, <2>2, <2>3
<1>3. ReadBy(d, "ANALOG_OUTPUT", i, flag, own)
  BY <1>1, <1>2, ReadByType DEF ReadBy
<1>4. Listable(Property_Lists("ANALOG_OUTPUT"), CommonNames \cup DOMAIN own \cup {})
  <2>1. PICK X : X = CommonNames \cup DOMAIN own \cup {}
    OBVIOUS
  <2>2. /\ <<"UNITS", "PRIORITY_ARRAY", "RELINQUISH_DEFAULT">> \in Seq(X)
        /\ << >> \in Seq(X)
        /\ CommonNames \cup {"PRESENT_VALUE"} \subseteq X
    BY <1>2, <2>1 DEF CommonNames
  <2>3. Listable(AO_Property_Lists, X)
    BY <2>2, CommonLists, Zenon DEF AO_Property_Lists
  <2>. QED  BY <2>1, <2>3, ListsByType
<1>5. Basis(d, "ANALOG_OUTPUT", i, flag, own, {})
  BY <1>2, <1>3, <1>4 DEF Basis
<1>6. Shows(d, "ANALOG_OUTPUT", i, flag, own)
  BY <1>5, Standard
<1>. QED  BY <1>1, <1>2, <1>6 DEF Shows

\* bv.c reads every property it lists, and shows what it keeps.
LEMMA BinaryValue ==
  ASSUME NEW d, NEW i \in Instances
  PROVE  LET object == d.BINARY_VALUE[i]
         IN  /\ Listed(d, "BINARY_VALUE", i)
             /\ Shown(d, "BINARY_VALUE", i, "OUT_OF_SERVICE", Boolean(object.Out_Of_Service))
<1>1. PICK object, table : object = d.BINARY_VALUE[i] /\ table = d.BINARY_VALUE
  OBVIOUS
<1>2. PICK flag, own :
        /\ \A p : BV_Read_Property(table, i, p, ARRAY_ALL)
                    = Read(ObjectProperties("BINARY_VALUE", i, flag, own), p, ARRAY_ALL)
        /\ DOMAIN own = {"PRESENT_VALUE", "PRIORITY_ARRAY", "RELINQUISH_DEFAULT"}
        /\ flag = object.Out_Of_Service
  BY <1>1, SMT DEF BV_Read_Property, Priorities, ARRAY_ALL
<1>3. ReadBy(d, "BINARY_VALUE", i, flag, own)
  BY <1>1, <1>2, ReadByType DEF ReadBy
<1>4. Listable(Property_Lists("BINARY_VALUE"), CommonNames \cup DOMAIN own \cup {})
  <2>1. PICK X : X = CommonNames \cup DOMAIN own \cup {}
    OBVIOUS
  <2>2. /\ <<"DESCRIPTION", "PRIORITY_ARRAY", "RELINQUISH_DEFAULT">> \in Seq(X)
        /\ << >> \in Seq(X)
        /\ CommonNames \cup {"PRESENT_VALUE"} \subseteq X
    BY <1>2, <2>1 DEF CommonNames
  <2>3. Listable(BV_Property_Lists, X)
    BY <2>2, CommonLists, Zenon DEF BV_Property_Lists
  <2>. QED  BY <2>1, <2>3, ListsByType
<1>5. Basis(d, "BINARY_VALUE", i, flag, own, {})
  BY <1>2, <1>3, <1>4 DEF Basis
<1>6. Shows(d, "BINARY_VALUE", i, flag, own)
  BY <1>5, Standard
<1>. QED  BY <1>1, <1>2, <1>6 DEF Shows

\* bo.c reads every property it lists, and shows what it keeps.
LEMMA BinaryOutput ==
  ASSUME NEW d, NEW i \in Instances
  PROVE  LET object == d.BINARY_OUTPUT[i]
         IN  /\ Listed(d, "BINARY_OUTPUT", i)
             /\ Shown(d, "BINARY_OUTPUT", i, "OUT_OF_SERVICE", Boolean(object.Out_Of_Service))
<1>1. PICK object, table : object = d.BINARY_OUTPUT[i] /\ table = d.BINARY_OUTPUT
  OBVIOUS
<1>2. PICK flag, own :
        /\ \A p : BO_Read_Property(table, i, p, ARRAY_ALL)
                    = Read(ObjectProperties("BINARY_OUTPUT", i, flag, own), p, ARRAY_ALL)
        /\ DOMAIN own = {"STATUS_FLAGS", "PRESENT_VALUE", "POLARITY", "ACTIVE_TEXT",
                         "INACTIVE_TEXT", "PRIORITY_ARRAY", "RELINQUISH_DEFAULT"}
        /\ flag = object.Out_Of_Service
  BY <1>1, SMT DEF BO_Read_Property
<1>3. ReadBy(d, "BINARY_OUTPUT", i, flag, own)
  BY <1>1, <1>2, ReadByType DEF ReadBy
<1>4. Listable(Property_Lists("BINARY_OUTPUT"), CommonNames \cup DOMAIN own \cup {})
  <2>1. PICK X : X = CommonNames \cup DOMAIN own \cup {}
    OBVIOUS
  <2>2. /\ <<"POLARITY", "PRIORITY_ARRAY", "RELINQUISH_DEFAULT">> \in Seq(X)
        /\ <<"DESCRIPTION", "ACTIVE_TEXT", "INACTIVE_TEXT">> \in Seq(X)
        /\ << >> \in Seq(X)
        /\ CommonNames \cup {"PRESENT_VALUE"} \subseteq X
    BY <1>2, <2>1 DEF CommonNames
  <2>3. Listable(BO_Property_Lists, X)
    BY <2>2, CommonLists, Zenon DEF BO_Property_Lists
  <2>. QED  BY <2>1, <2>3, ListsByType
<1>5. Basis(d, "BINARY_OUTPUT", i, flag, own, {})
  BY <1>2, <1>3, <1>4 DEF Basis
<1>6. Shows(d, "BINARY_OUTPUT", i, flag, own)
  BY <1>5, Standard
<1>. QED  BY <1>1, <1>2, <1>6 DEF Shows

\* mso.c reads every property it lists, and shows what it keeps.
LEMMA MultiStateOutput ==
  ASSUME NEW d, NEW i \in Instances
  PROVE  LET object == d.MULTI_STATE_OUTPUT[i]
         IN  /\ Listed(d, "MULTI_STATE_OUTPUT", i)
             /\ Shown(d, "MULTI_STATE_OUTPUT", i, "OUT_OF_SERVICE", Boolean(object.Out_Of_Service))
<1>1. PICK object, table : object = d.MULTI_STATE_OUTPUT[i] /\ table = d.MULTI_STATE_OUTPUT
  OBVIOUS
<1>2. PICK flag, own :
        /\ \A p : MSO_Read_Property(table, i, p, ARRAY_ALL)
                    = Read(ObjectProperties("MULTI_STATE_OUTPUT", i, flag, own), p, ARRAY_ALL)
        /\ DOMAIN own = {"PRESENT_VALUE", "NUMBER_OF_STATES", "PRIORITY_ARRAY",
                         "RELINQUISH_DEFAULT"}
        /\ flag = object.Out_Of_Service
  BY <1>1, SMT DEF MSO_Read_Property, MultiState
<1>3. ReadBy(d, "MULTI_STATE_OUTPUT", i, flag, own)
  BY <1>1, <1>2, ReadByType DEF ReadBy
<1>4. Listable(Property_Lists("MULTI_STATE_OUTPUT"), CommonNames \cup DOMAIN own \cup {})
  <2>1. PICK X : X = CommonNames \cup DOMAIN own \cup {}
    OBVIOUS
  <2>2. /\ <<"NUMBER_OF_STATES", "PRIORITY_ARRAY", "RELINQUISH_DEFAULT">> \in Seq(X)
        /\ <<"DESCRIPTION">> \in Seq(X)
        /\ << >> \in Seq(X)
        /\ CommonNames \cup {"PRESENT_VALUE"} \subseteq X
    BY <1>2, <2>1 DEF CommonNames
  <2>3. Listable(MSO_Property_Lists, X)
    BY <2>2, CommonLists, Zenon DEF MSO_Property_Lists
  <2>. QED  BY <2>1, <2>3, ListsByType
<1>5. Basis(d, "MULTI_STATE_OUTPUT", i, flag, own, {})
  BY <1>2, <1>3, <1>4 DEF Basis
<1>6. Shows(d, "MULTI_STATE_OUTPUT", i, flag, own)
  BY <1>5, Standard
<1>. QED  BY <1>1, <1>2, <1>6 DEF Shows

\* msv.c reads every property it lists, and shows what it keeps.
LEMMA MultiStateValue ==
  ASSUME NEW d, NEW i \in Instances
  PROVE  LET object == d.MULTI_STATE_VALUE[i]
         IN  /\ Listed(d, "MULTI_STATE_VALUE", i)
             /\ Shown(d, "MULTI_STATE_VALUE", i, "OUT_OF_SERVICE", Boolean(object.Out_Of_Service))
<1>1. PICK object, table : object = d.MULTI_STATE_VALUE[i] /\ table = d.MULTI_STATE_VALUE
  OBVIOUS
<1>2. PICK flag, own :
        /\ \A p : MSV_Read_Property(table, i, p, ARRAY_ALL)
                    = Read(ObjectProperties("MULTI_STATE_VALUE", i, flag, own), p, ARRAY_ALL)
        /\ DOMAIN own = {"PRESENT_VALUE", "NUMBER_OF_STATES", "PRIORITY_ARRAY",
                         "RELINQUISH_DEFAULT"}
        /\ flag = object.Out_Of_Service
  BY <1>1, SMT DEF MSV_Read_Property, MultiState
<1>3. ReadBy(d, "MULTI_STATE_VALUE", i, flag, own)
  BY <1>1, <1>2, ReadByType DEF ReadBy
<1>4. Listable(Property_Lists("MULTI_STATE_VALUE"), CommonNames \cup DOMAIN own \cup {})
  <2>1. PICK X : X = CommonNames \cup DOMAIN own \cup {}
    OBVIOUS
  <2>2. /\ <<"NUMBER_OF_STATES">> \in Seq(X)
        /\ <<"DESCRIPTION", "PRIORITY_ARRAY", "RELINQUISH_DEFAULT">> \in Seq(X)
        /\ << >> \in Seq(X)
        /\ CommonNames \cup {"PRESENT_VALUE"} \subseteq X
    BY <1>2, <2>1 DEF CommonNames
  <2>3. Listable(MSV_Property_Lists, X)
    BY <2>2, CommonLists, Zenon DEF MSV_Property_Lists
  <2>. QED  BY <2>1, <2>3, ListsByType
<1>5. Basis(d, "MULTI_STATE_VALUE", i, flag, own, {})
  BY <1>2, <1>3, <1>4 DEF Basis
<1>6. Shows(d, "MULTI_STATE_VALUE", i, flag, own)
  BY <1>5, Standard
<1>. QED  BY <1>1, <1>2, <1>6 DEF Shows

\* tl.c reads every property it lists, and shows what it keeps.
LEMMA TrendLog ==
  ASSUME NEW d, NEW i \in Instances
  PROVE  LET object == d.TREND_LOG[i]
         IN  /\ Listed(d, "TREND_LOG", i)
             /\ Shown(d, "TREND_LOG", i, "ENABLE", Boolean(object.Enable))
             /\ Shown(d, "TREND_LOG", i, "RECORD_COUNT", Unsigned(object.Record_Count))
             /\ Shown(d, "TREND_LOG", i, "LOG_INTERVAL", Unsigned(object.Log_Interval))
<1>1. PICK object, table : object = d.TREND_LOG[i] /\ table = d.TREND_LOG
  OBVIOUS
<1>2. PICK flag, own :
        /\ \A p : p # "LOG_BUFFER" => TL_Read_Property(table, i, p, ARRAY_ALL)
                    = Read(ObjectProperties("TREND_LOG", i, flag, own), p, ARRAY_ALL)
        /\ DOMAIN own = {"ENABLE", "BUFFER_SIZE", "RECORD_COUNT", "TOTAL_RECORD_COUNT",
                         "LOG_INTERVAL", "START_TIME", "STOP_TIME"}
        /\ own.ENABLE = One(Boolean(object.Enable))
        /\ own.RECORD_COUNT = One(Unsigned(object.Record_Count))
        /\ own.LOG_INTERVAL = One(Unsigned(object.Log_Interval))
  <2>1. PICK flag, own :
        /\ flag = FALSE
        /\ own = [ENABLE             |-> One(Boolean(object.Enable)),
                  BUFFER_SIZE        |-> One(Unsigned(BufferSize)),
                  RECORD_COUNT       |-> One(Unsigned(object.Record_Count)),
                  TOTAL_RECORD_COUNT |-> One(Unsigned(object.Total_Record_Count)),
                  LOG_INTERVAL       |-> One(Unsigned(object.Log_Interval)),
                  START_TIME         |-> List(Forever),
                  STOP_TIME          |-> List(Forever)]
    OBVIOUS
  <2>2. \A p : p # "LOG_BUFFER" => TL_Read_Property(table, i, p, ARRAY_ALL)
                 = Read(ObjectProperties("TREND_LOG", i, flag, own), p, ARRAY_ALL)
    BY <1>1, <2>1, Zenon DEF TL_Read_Property
  <2>. QED  BY <2>1, <2>2
<1>3. ReadBy(d, "TREND_LOG", i, flag, own)
  <2>1. Valid_Object_Id(d, "TREND_LOG", i)
    BY SMT DEF Valid_Object_Id, Valid_Instances, TL_Instances
  <2>2. \A p : Device_Read_Property(d, "TREND_LOG", i, p, ARRAY_ALL)
                = TL_Read_Property(table, i, p, ARRAY_ALL)
    BY <1>1, <2>1, SMT DEF Device_Read_Property
  <2>. QED  BY <1>2, <2>2 DEF ReadBy, CommonNames
<1>4. Listable(Property_Lists("TREND_LOG"), CommonNames \cup DOMAIN own \cup {"LOG_BUFFER"})
  <2>1. PICK X : X = CommonNames \cup DOMAIN own \cup {"LOG_BUFFER"}
    OBVIOUS
  <2>2. Listable(TL_Property_Lists, X)
    BY <1>2, <2>1 DEF TL_Property_Lists, Lists, Listable, CommonNames
  <2>3. Property_Lists("TREND_LOG") = TL_Property_Lists
    BY SMT DEF Property_Lists
  <2>. QED  BY <2>1, <2>2, <2>3
<1>5. Shows(d, "TREND_LOG", i, flag, own)
  <2>1. Basis(d, "TREND_LOG", i, flag, own, {"LOG_BUFFER"})
    BY <1>2, <1>3, <1>4 DEF Basis
  <2>. QED  BY <2>1, Standard
<1>. QED  BY <1>1, <1>2, <1>5 DEF Shows

\* np.c reads every property it lists, and shows what it keeps.
LEMMA NetworkPort ==
  ASSUME NEW d, NEW i \in NP_Instances
  PROVE  LET object == d.NETWORK_PORT[i]
         IN  /\ Listed(d, "NETWORK_PORT", i)
             /\ Shown(d, "NETWORK_PORT", i, "NETWORK_NUMBER", Unsigned(object.Network_Number))
             /\ Shown(d, "NETWORK_PORT", i, "BACNET_IP_UDP_PORT", Unsigned(object.UDP_Port))
<1>1. PICK object, table, type :
        object = d.NETWORK_PORT[i] /\ table = d.NETWORK_PORT /\ type = "NETWORK_PORT"
  OBVIOUS
<1>2. PICK cases :
        /\ \A p : NP_Read_Property(table, i, p, ARRAY_ALL) = Read(cases, p, ARRAY_ALL)
        /\ DOMAIN cases =
             {"OBJECT_IDENTIFIER", "OBJECT_NAME", "DESCRIPTION", "OBJECT_TYPE",
              "STATUS_FLAGS", "RELIABILITY", "OUT_OF_SERVICE", "NETWORK_NUMBER",
              "CHANGES_PENDING", "APDU_LENGTH", "LINK_SPEED", "MAC_ADDRESS",
              "IP_ADDRESS", "IP_DEFAULT_GATEWAY", "IP_SUBNET_MASK", "IP_DNS_SERVER",
              "BACNET_IP_UDP_PORT"}
        /\ cases.NETWORK_NUMBER = One(Unsigned(object.Network_Number))
        /\ cases.BACNET_IP_UDP_PORT = One(Unsigned(object.UDP_Port))
  BY <1>1, SMT DEF NP_Read_Property
<1>3. \A p \in DOMAIN cases :
        Device_Read_Property(d, type, i, p, ARRAY_ALL) = Read(cases, p, ARRAY_ALL)
  <2>1. Valid_Object_Id(d, type, i)
    BY <1>1, SMT DEF Valid_Object_Id, Valid_Instances
  <2>2. \A p : Device_Read_Property(d, type, i, p, ARRAY_ALL)
                = NP_Read_Property(table, i, p, ARRAY_ALL)
    BY <1>1, <2>1, SMT DEF Device_Read_Property
  <2>. QED  BY <1>2, <2>2
<1>4. Listable(Property_Lists(type), DOMAIN cases \cup {})
  <2>1. PICK X : X = DOMAIN cases \cup {}
    OBVIOUS
  <2>2. Listable(NP_Property_Lists, X)
    BY <1>2, <2>1 DEF NP_Property_Lists, Lists, Listable
  <2>3. Property_Lists(type) = NP_Property_Lists
    BY <1>1, SMT DEF Property_Lists
  <2>. QED  BY <2>1, <2>2, <2>3
<1>5. PICK beside : beside = {}
  OBVIOUS
<1>6. /\ Listed(d, type, i)
      /\ \A p \in DOMAIN cases : \A v : cases[p] = One(v) => Shown(d, type, i, p, v)
  <2>1. Listable(Property_Lists(type), DOMAIN cases \cup beside)
    BY <1>4, <1>5
  <2>2. \A p \in beside : p = "LOG_BUFFER" \/ Device_Read_Property(d, type, i, p, ARRAY_ALL).ok
    BY <1>5
  <2>. QED  BY <1>3, <2>1, <2>2, ListedBy
<1>. QED  BY <1>1, <1>2, <1>6

\* schedule.c reads every property it lists, and shows what it keeps.
LEMMA ScheduleObject ==
  ASSUME NEW d, NEW i \in SCH_Instances
  PROVE  LET object == d.SCHEDULE[i]
         IN  /\ Listed(d, "SCHEDULE", i)
             /\ Shown(d, "SCHEDULE", i, "PRESENT_VALUE", object.Present_Value)
             /\ Shown(d, "SCHEDULE", i, "OUT_OF_SERVICE", Boolean(object.Out_Of_Service))
<1>1. PICK object, table, type : object = d.SCHEDULE[i] /\ table = d.SCHEDULE /\ type = "SCHEDULE"
  OBVIOUS
<1>2. PICK cases :
        /\ \A p : SCH_Read_Property(table, i, p, ARRAY_ALL) = Read(cases, p, ARRAY_ALL)
        /\ DOMAIN cases =
             {"OBJECT_IDENTIFIER", "OBJECT_NAME", "OBJECT_TYPE", "PRESENT_VALUE",
              "EFFECTIVE_PERIOD", "SCHEDULE_DEFAULT",
              "LIST_OF_OBJECT_PROPERTY_REFERENCES", "PRIORITY_FOR_WRITING",
              "STATUS_FLAGS", "RELIABILITY", "OUT_OF_SERVICE", "WEEKLY_SCHEDULE"}
        /\ cases.PRESENT_VALUE = One(object.Present_Value)
        /\ cases.OUT_OF_SERVICE = One(Boolean(object.Out_Of_Service))
  <2>1. PICK days : days = [day \in 1..7 |-> SCH_Weekly_Schedule_Encode(i, day)]
    OBVIOUS
  <2>2. PICK cases : cases =
          [OBJECT_IDENTIFIER |-> One(ObjectId("SCHEDULE", i)),
           OBJECT_NAME       |-> One(Characters(SCH_Object_Name(i))),
           OBJECT_TYPE       |-> One(Enumerated("SCHEDULE")),
           PRESENT_VALUE     |-> One(object.Present_Value),
           EFFECTIVE_PERIOD  |-> List(<<DateValue("JANUARY_1"), DateValue("DECEMBER_31")>>),
           SCHEDULE_DEFAULT  |-> One(Schedule_Default),
           LIST_OF_OBJECT_PROPERTY_REFERENCES |-> List(<< >>),
           PRIORITY_FOR_WRITING |-> One(Unsigned(16)),
           STATUS_FLAGS      |-> One(Flags(object.Out_Of_Service)),
           RELIABILITY       |-> One(Enumerated("NO_FAULT_DETECTED")),
           OUT_OF_SERVICE    |-> One(Boolean(object.Out_Of_Service)),
           WEEKLY_SCHEDULE   |-> Array(days)]
    OBVIOUS
  <2>3. \A p : SCH_Read_Property(table, i, p, ARRAY_ALL) = Read(cases, p, ARRAY_ALL)
    BY <1>1, <2>1, <2>2, Zenon DEF SCH_Read_Property
  <2>. QED  BY <2>2, <2>3
<1>3. \A p \in DOMAIN cases :
        Device_Read_Property(d, type, i, p, ARRAY_ALL) = Read(cases, p, ARRAY_ALL)
  <2>1. Valid_Object_Id(d, type, i)
    BY <1>1, SMT DEF Valid_Object_Id, Valid_Instances
  <2>2. \A p : Device_Read_Property(d, type, i, p, ARRAY_ALL)
                = SCH_Read_Property(table, i, p, ARRAY_ALL)
    BY <1>1, <2>1, SMT DEF Device_Read_Property
  <2>. QED  BY <1>2, <2>2
<1>4. Listable(Property_Lists(type), DOMAIN cases \cup {})
  <2>1. PICK X : X = DOMAIN cases \cup {}
    OBVIOUS
  <2>2. Listable(SCH_Property_Lists, X)
    BY <1>2, <2>1 DEF SCH_Property_Lists, Lists, Listable
  <2>3. Property_Lists(type) = SCH_Property_Lists
    BY <1>1, SMT DEF Property_Lists
  <2>. QED  BY <2>1, <2>2, <2>3
<1>5. PICK beside : beside = {}
  OBVIOUS
<1>6. /\ Listed(d, type, i)
      /\ \A p \in DOMAIN cases : \A v : cases[p] = One(v) => Shown(d, type, i, p, v)
  <2>1. Listable(Property_Lists(type), DOMAIN cases \cup beside)
    BY <1>4, <1>5
  <2>2. \A p \in beside : p = "LOG_BUFFER" \/ Device_Read_Property(d, type, i, p, ARRAY_ALL).ok
    BY <1>5
  <2>. QED  BY <1>3, <2>1, <2>2, ListedBy
<1>. QED  BY <1>1, <1>2, <1>6

\* device.c reads every property it lists, and shows what it keeps.
LEMMA DeviceObject ==
  ASSUME NEW d, NEW i, i = d.DEVICE.Object_Instance_Number
  PROVE  LET device == d.DEVICE
         IN  /\ Listed(d, "DEVICE", i)
             /\ Shown(d, "DEVICE", i, "OBJECT_IDENTIFIER",
                      ObjectId("DEVICE", device.Object_Instance_Number))
             /\ Shown(d, "DEVICE", i, "OBJECT_NAME", Characters(device.My_Object_Name))
             /\ Shown(d, "DEVICE", i, "DESCRIPTION", Characters(device.Description))
             /\ Shown(d, "DEVICE", i, "SYSTEM_STATUS", Enumerated(device.System_Status))
             /\ Shown(d, "DEVICE", i, "VENDOR_IDENTIFIER", Unsigned(device.Vendor_Identifier))
             /\ Shown(d, "DEVICE", i, "MODEL_NAME", Characters(device.Model_Name))
             /\ Shown(d, "DEVICE", i, "LOCATION", Characters(device.Location))
             /\ Shown(d, "DEVICE", i, "UTC_OFFSET", Signed(0))
             /\ Shown(d, "DEVICE", i, "APDU_TIMEOUT", Unsigned(device.Apdu_Timeout))
             /\ Shown(d, "DEVICE", i, "NUMBER_OF_APDU_RETRIES", Unsigned(device.Apdu_Retries))
<1>1. PICK device, type : device = d.DEVICE /\ type = "DEVICE"
  OBVIOUS
<1>2. PICK cases :
        /\ \A p : Device_Read_Property_Local(d, p, ARRAY_ALL) = Read(cases, p, ARRAY_ALL)
        /\ DOMAIN cases =
             {"OBJECT_IDENTIFIER", "OBJECT_NAME", "OBJECT_TYPE", "DESCRIPTION",
              "SYSTEM_STATUS", "VENDOR_NAME", "VENDOR_IDENTIFIER", "MODEL_NAME",
              "FIRMWARE_REVISION", "APPLICATION_SOFTWARE_VERSION", "LOCATION",
              "LOCAL_TIME", "UTC_OFFSET", "LOCAL_DATE", "DAYLIGHT_SAVINGS_STATUS",
              "PROTOCOL_VERSION", "PROTOCOL_REVISION", "PROTOCOL_SERVICES_SUPPORTED",
              "PROTOCOL_OBJECT_TYPES_SUPPORTED", "OBJECT_LIST",
              "MAX_APDU_LENGTH_ACCEPTED", "SEGMENTATION_SUPPORTED", "APDU_TIMEOUT",
              "NUMBER_OF_APDU_RETRIES", "DEVICE_ADDRESS_BINDING", "DATABASE_REVISION",
              "ACTIVE_COV_SUBSCRIPTIONS"}
        /\ cases.OBJECT_IDENTIFIER = One(ObjectId("DEVICE", device.Object_Instance_Number))
        /\ cases.OBJECT_NAME = One(Characters(device.My_Object_Name))
        /\ cases.DESCRIPTION = One(Characters(device.Description))
        /\ cases.SYSTEM_STATUS = One(Enumerated(device.System_Status))
        /\ cases.VENDOR_IDENTIFIER = One(Unsigned(device.Vendor_Identifier))
        /\ cases.MODEL_NAME = One(Characters(device.Model_Name))
        /\ cases.LOCATION = One(Characters(device.Location))
        /\ cases.UTC_OFFSET = One(Signed(0))
        /\ cases.APDU_TIMEOUT = One(Unsigned(device.Apdu_Timeout))
        /\ cases.NUMBER_OF_APDU_RETRIES = One(Unsigned(device.Apdu_Retries))
  <2>1. PICK cases : cases = Device_Properties(d)
    OBVIOUS
  <2>2. \A p : Device_Read_Property_Local(d, p, ARRAY_ALL) = Read(cases, p, ARRAY_ALL)
    BY <2>1, Zenon DEF Device_Read_Property_Local
  <2>3. DOMAIN cases =
          {"OBJECT_IDENTIFIER", "OBJECT_NAME", "OBJECT_TYPE", "DESCRIPTION",
           "SYSTEM_STATUS", "VENDOR_NAME", "VENDOR_IDENTIFIER", "MODEL_NAME",
           "FIRMWARE_REVISION", "APPLICATION_SOFTWARE_VERSION", "LOCATION",
           "LOCAL_TIME", "UTC_OFFSET", "LOCAL_DATE", "DAYLIGHT_SAVINGS_STATUS",
           "PROTOCOL_VERSION", "PROTOCOL_REVISION", "PROTOCOL_SERVICES_SUPPORTED",
           "PROTOCOL_OBJECT_TYPES_SUPPORTED", "OBJECT_LIST",
           "MAX_APDU_LENGTH_ACCEPTED", "SEGMENTATION_SUPPORTED", "APDU_TIMEOUT",
           "NUMBER_OF_APDU_RETRIES", "DEVICE_ADDRESS_BINDING", "DATABASE_REVISION",
           "ACTIVE_COV_SUBSCRIPTIONS"}
    BY <2>1 DEF Device_Properties
  <2>4. /\ cases.OBJECT_IDENTIFIER = One(ObjectId("DEVICE", device.Object_Instance_Number))
        /\ cases.OBJECT_NAME = One(Characters(device.My_Object_Name))
        /\ cases.DESCRIPTION = One(Characters(device.Description))
        /\ cases.SYSTEM_STATUS = One(Enumerated(device.System_Status))
        /\ cases.VENDOR_IDENTIFIER = One(Unsigned(device.Vendor_Identifier))
        /\ cases.MODEL_NAME = One(Characters(device.Model_Name))
        /\ cases.LOCATION = One(Characters(device.Location))
        /\ cases.UTC_OFFSET = One(Signed(0))
        /\ cases.APDU_TIMEOUT = One(Unsigned(device.Apdu_Timeout))
        /\ cases.NUMBER_OF_APDU_RETRIES = One(Unsigned(device.Apdu_Retries))
    BY <1>1, <2>1 DEF Device_Properties
  <2>. QED  BY <2>2, <2>3, <2>4
<1>3. \A p \in DOMAIN cases :
        Device_Read_Property(d, type, i, p, ARRAY_ALL) = Read(cases, p, ARRAY_ALL)
  <2>1. Valid_Object_Id(d, type, i)
    BY <1>1, i = d.DEVICE.Object_Instance_Number, SMT DEF Valid_Object_Id, Valid_Instances
  <2>2. \A p : Device_Read_Property(d, type, i, p, ARRAY_ALL)
                = Device_Read_Property_Local(d, p, ARRAY_ALL)
    BY <1>1, <2>1, SMT DEF Device_Read_Property
  <2>. QED  BY <1>2, <2>2
<1>4. Listable(Property_Lists(type), DOMAIN cases \cup {})
  <2>1. PICK X : X = DOMAIN cases \cup {}
    OBVIOUS
  <2>2. Listable(Device_Property_Lists, X)
    BY <1>2, <2>1 DEF Device_Property_Lists, Lists, Listable
  <2>3. Property_Lists(type) = Device_Property_Lists
    BY <1>1, SMT DEF Property_Lists
  <2>. QED  BY <2>1, <2>2, <2>3
<1>5. PICK beside : beside = {}
  OBVIOUS
<1>6. /\ Listed(d, type, i)
      /\ \A p \in DOMAIN cases : \A v : cases[p] = One(v) => Shown(d, type, i, p, v)
  <2>1. Listable(Property_Lists(type), DOMAIN cases \cup beside)
    BY <1>4, <1>5
  <2>2. \A p \in beside : p = "LOG_BUFFER" \/ Device_Read_Property(d, type, i, p, ARRAY_ALL).ok
    BY <1>5
  <2>. QED  BY <1>3, <2>1, <2>2, ListedBy
<1>. QED  BY <1>1, <1>2, <1>6

\* Every object of a shaped database can be read as it lists itself.
LEMMA AllListed ==
  ASSUME NEW d, Shaped(d), NEW type \in OtherTypes, NEW i \in DOMAIN d[type]
  PROVE  Listed(d, type, i)
<1>1. DOMAIN StartedDatabase[type] = IF type = "NETWORK_PORT" THEN NP_Instances ELSE Instances
  <2>1. PICK device : device = Started
    OBVIOUS
  <2>2. PICK port : port = NP_Started
    OBVIOUS
  <2>3. DOMAIN port = NP_Instances
    BY <2>2 DEF NP_Started, NP_Instances
  <2>. QED
    BY <2>1, <2>2, <2>3, TypesAre, SMT DEF OtherTypes, StartedDatabase, AI_Init, AO_Init, AV_Init,
       BI_Init, BO_Init, BV_Init, MSI_Init, MSO_Init, MSV_Init, IV_Init, PIV_Init, LAV_Init,
       TL_Init, ACC_Init, SCH_Init, CSV_Init, NumberInit
<1>2. i \in IF type = "NETWORK_PORT" THEN NP_Instances ELSE Instances
  BY <1>1 DEF Shaped, SameShape
<1>3. SCH_Instances = Instances
  BY DEF SCH_Instances
<1>. QED
  BY <1>2, <1>3, TypesAre, AnalogInput, BinaryInput, MultiStateInput, Accumulator, AnalogValue,
     IntegerValue, PositiveIntegerValue, LargeAnalogValue, CharacterStringValue, AnalogOutput,
     BinaryValue, BinaryOutput, MultiStateOutput, MultiStateValue, TrendLog, NetworkPort,
     ScheduleObject DEF OtherTypes

\* Every property that an object lists for ReadPropertyMultiple (rpm.c, the *_Property_Lists of
\* the objects) is read without an error by its Read_Property function, in every state.
THEOREM ListedIsRead == Spec => []EveryListedPropertyReads
<1>1. BaseInv => EveryListedPropertyReads
  <2>. SUFFICES ASSUME BaseInv PROVE EveryListedPropertyReads
    OBVIOUS
  <2>1. ASSUME NEW i \in IF under = "DEVICE" THEN {db.DEVICE.Object_Instance_Number}
                         ELSE DOMAIN db[under]
        PROVE  Listed(db, under, i)
    <3>1. CASE under = "DEVICE"
      BY <2>1, <3>1, DeviceObject
    <3>2. CASE under # "DEVICE"
      BY <2>1, <3>2, AllListed, ServerAssumption DEF BaseInv, DatabaseInv, OtherTypes
    <3>. QED  BY <3>1, <3>2
  <2>2. ASSUME NEW i \in IF under = "DEVICE" THEN {db.DEVICE.Object_Instance_Number}
                         ELSE DOMAIN db[under],
               NEW all, all = [type |-> under, instance |-> i, property |-> "ALL",
                               index |-> ARRAY_ALL, decodes |-> TRUE],
               NEW results, results = RPM_Results(db, all)
        PROVE  /\ results # << >>
               /\ \A n \in DOMAIN results :
                    results[n].property # "LOG_BUFFER" => results[n].result.ok
    <3>1. Addressed(db, under, i) = i
      BY <2>2 DEF Addressed
    <3>2. PICK properties : properties = RPM_Object_Properties(under, "ALL")
      OBVIOUS
    <3>3. results = [n \in DOMAIN properties |->
                       RPM_Encode_Property(db, under, i, properties[n], ARRAY_ALL)]
      BY <2>2, <3>1, <3>2, SMT DEF RPM_Results
    <3>4. /\ properties # << >>
          /\ \A n \in DOMAIN properties : properties[n] # "LOG_BUFFER" =>
               Device_Read_Property(db, under, i, properties[n], ARRAY_ALL).ok
      BY <2>1, <2>2, <3>2 DEF Listed
    <3>. QED  BY <3>3, <3>4 DEF RPM_Encode_Property
  <2>. QED  BY <2>2 DEF EveryListedPropertyReads
<1>. QED  BY <1>1, BaseCorrect, PTL

-----------------------------------------------------------------------------
(***************************************************************************)
(* What was acknowledged is read next.  What a write stores is looked at   *)
(* type by type, and what is read of it is known from above.               *)
(***************************************************************************)
\* A write was one of this property and type, and is what the field now is.
Becomes(new, i, w, p, tag, field) ==
  w.property = p /\ w.value.tag = tag /\ new[i][field] = w.value.datum

\* A decoded value is its type and its datum.
LEMMA WellTagged ==
  ASSUME NEW w, WellFormed(w)
  PROVE  /\ w.value.tag = "REAL" => w.value = Real(w.value.datum)
         /\ w.value.tag = "DOUBLE" => w.value = Double(w.value.datum)
         /\ w.value.tag = "BOOLEAN" => w.value = Boolean(w.value.datum)
         /\ w.value.tag = "ENUMERATED" => w.value = Enumerated(w.value.datum)
         /\ w.value.tag = "UNSIGNED_INT" => w.value = Unsigned(w.value.datum)
         /\ w.value.tag = "SIGNED_INT" => w.value = Signed(w.value.datum)
         /\ w.value.tag = "CHARACTER_STRING" => w.value = Characters(w.value.datum)
BY DEF WellFormed, Real, Double, Boolean, Enumerated, Unsigned, Signed, Characters

\* An acknowledged write of ai.c stores what was written.
LEMMA AnalogInputStores ==
  ASSUME NEW table, NEW i, NEW w, WellFormed(w), Fits("ANALOG_INPUT", w), i \in DOMAIN table,
         {"Present_Value", "Out_Of_Service", "Units", "COV_Increment"} \subseteq DOMAIN table[i],
         AI_Write_Property(table, i, w).ok
  PROVE  LET new == AI_Write_Property(table, i, w).table
         IN  \/ Becomes(new, i, w, "OUT_OF_SERVICE", "BOOLEAN", "Out_Of_Service")
             \/ Becomes(new, i, w, "UNITS", "ENUMERATED", "Units")
             \/ Becomes(new, i, w, "PRESENT_VALUE", "REAL", "Present_Value")
             \/ Becomes(new, i, w, "COV_INCREMENT", "REAL", "COV_Increment")
<1>2. \A value : AI_Present_Value_Set(table, i, value)[i].Present_Value = value
  BY DEF AI_Present_Value_Set, AI_COV_Detect
<1>3. \A value : AI_COV_Increment_Set(table, i, value)[i].COV_Increment = value
  BY DEF AI_COV_Increment_Set, AI_COV_Detect
<1>4. \A value : AI_Out_Of_Service_Set(table, i, value)[i].Out_Of_Service = value
  BY DEF AI_Out_Of_Service_Set
<1>5. \A value : [table EXCEPT ![i].Units = value][i].Units = value
  OBVIOUS
<1>9. w.property = "UNITS" /\ w.value.tag = "ENUMERATED" => w.value.datum % UINT8_ROOM = w.value.datum
  BY DEF WellFormed, Fits, Room, UINT8_ROOM, UINT16_ROOM
<1>. QED
  BY <1>9, <1>2, <1>3, <1>4, <1>5, SMT DEF Becomes, AI_Write_Property, WriteUnits, Write,
     ValidateArgType, Written, WrongType, Denied, AccessDenied, OutOfRange, UnknownProperty

\* An acknowledged write of bi.c stores what was written.
LEMMA BinaryInputStores ==
  ASSUME NEW table, NEW i, NEW w, i \in DOMAIN table,
         {"Present_Value", "Polarity", "Out_Of_Service"} \subseteq DOMAIN table[i],
         BI_Write_Property(table, i, w).ok
  PROVE  LET new == BI_Write_Property(table, i, w).table
         IN  \/ Becomes(new, i, w, "OUT_OF_SERVICE", "BOOLEAN", "Out_Of_Service")
             \/ Becomes(new, i, w, "POLARITY", "ENUMERATED", "Polarity")
             \/ /\ w.property = "PRESENT_VALUE" /\ w.value.tag = "ENUMERATED"
                /\ BI_Present_Value(new, i) = w.value.datum
<1>1. ASSUME NEW value \in {0, 1}
      PROVE  BI_Present_Value(BI_Present_Value_Set(table, i, value), i) = value
  <2>1. PICK stored : stored = BI_Polarised(table[i], value)
    OBVIOUS
  <2>2. PICK new : new = BI_Present_Value_Set(table, i, value)
    OBVIOUS
  <2>3. new = [table EXCEPT ![i].Present_Value = stored,
                            ![i].Change_Of_Value = @ \/ table[i].Present_Value # stored]
    BY <2>1, <2>2, Zenon DEF BI_Present_Value_Set
  <2>4. new[i].Present_Value = stored
    BY <2>3
  <2>5. new[i].Polarity = table[i].Polarity
    BY <2>3
  <2>6. stored = (IF table[i].Polarity # 0 THEN 1 - value ELSE value)
    BY <2>1 DEF BI_Polarised
  <2>7. BI_Present_Value(new, i) = (IF table[i].Polarity # 0 THEN 1 - stored ELSE stored)
    BY <2>4, <2>5 DEF BI_Polarised, BI_Present_Value
  <2>. QED  BY <2>2, <2>6, <2>7
<1>2. \A value : BI_Polarity_Set(table, i, value)[i].Polarity = value
  BY DEF BI_Polarity_Set
<1>3. \A value : BI_Out_Of_Service_Set(table, i, value)[i].Out_Of_Service = value
  BY DEF BI_Out_Of_Service_Set
<1>4. PICK new : new = BI_Write_Property(table, i, w).table
  OBVIOUS
<1>5. \/ /\ w.property = "PRESENT_VALUE" /\ w.value.tag = "ENUMERATED"
         /\ w.value.datum \in {0, 1} /\ new = BI_Present_Value_Set(table, i, w.value.datum)
      \/ /\ w.property = "OUT_OF_SERVICE" /\ w.value.tag = "BOOLEAN"
         /\ new = BI_Out_Of_Service_Set(table, i, w.value.datum)
      \/ /\ w.property = "POLARITY" /\ w.value.tag = "ENUMERATED"
         /\ new = BI_Polarity_Set(table, i, w.value.datum)
  BY <1>4, SMT DEF BI_Write_Property, Write,
     ValidateArgType, Written, WrongType, Denied, AccessDenied, OutOfRange, UnknownProperty
<1>. QED  BY <1>1, <1>2, <1>3, <1>4, <1>5 DEF Becomes

\* An acknowledged write of msi.c stores what was written.
LEMMA MultiStateInputStores ==
  ASSUME NEW table, NEW i, NEW w, i \in DOMAIN table,
         {"Out_Of_Service", "Present_Value"} \subseteq DOMAIN table[i],
         MSI_Write_Property(table, i, w).ok
  PROVE  LET new == MSI_Write_Property(table, i, w).table
         IN  \/ Becomes(new, i, w, "OUT_OF_SERVICE", "BOOLEAN", "Out_Of_Service")
             \/ Becomes(new, i, w, "PRESENT_VALUE", "UNSIGNED_INT", "Present_Value")
<1>1. \A value : /\ [table EXCEPT ![i].Out_Of_Service = value][i].Out_Of_Service = value
                  /\ [table EXCEPT ![i].Present_Value = value][i].Present_Value = value
  OBVIOUS
<1>. QED
  BY <1>1, SMT DEF Becomes, MSI_Write_Property, WriteOutOfService, WriteUnits, Set,
     Write, ValidateArgType, Written, WrongType, Denied, AccessDenied, OutOfRange,
     UnknownProperty

\* An acknowledged write of acc.c stores what was written.
LEMMA AccumulatorStores ==
  ASSUME NEW table, NEW i, NEW w, WellFormed(w), Fits("ACCUMULATOR", w), i \in DOMAIN table,
         {"Out_Of_Service", "Units"} \subseteq DOMAIN table[i],
         ACC_Write_Property(table, i, w).ok
  PROVE  LET new == ACC_Write_Property(table, i, w).table
         IN  \/ Becomes(new, i, w, "OUT_OF_SERVICE", "BOOLEAN", "Out_Of_Service")
             \/ Becomes(new, i, w, "UNITS", "ENUMERATED", "Units")
<1>1. \A value : /\ [table EXCEPT ![i].Out_Of_Service = value][i].Out_Of_Service = value
                  /\ [table EXCEPT ![i].Units = value][i].Units = value
  OBVIOUS
<1>9. w.property = "UNITS" /\ w.value.tag = "ENUMERATED" => w.value.datum % UINT16_ROOM = w.value.datum
  BY DEF WellFormed, Fits, Room, UINT8_ROOM, UINT16_ROOM
<1>. QED
  BY <1>9, <1>1, SMT DEF Becomes, ACC_Write_Property, WriteOutOfService, WriteUnits, Set,
     Write, ValidateArgType, Written, WrongType, Denied, AccessDenied, OutOfRange,
     UnknownProperty

\* An acknowledged write of av.c stores what was written.
LEMMA AnalogValueStores ==
  ASSUME NEW table, NEW i, NEW w, WellFormed(w), Fits("ANALOG_VALUE", w), i \in DOMAIN table,
         {"Out_Of_Service", "Units", "Present_Value"} \subseteq DOMAIN table[i],
         AV_Write_Property(table, i, w).ok
  PROVE  LET new == AV_Write_Property(table, i, w).table
         IN  \/ Becomes(new, i, w, "OUT_OF_SERVICE", "BOOLEAN", "Out_Of_Service")
             \/ Becomes(new, i, w, "UNITS", "ENUMERATED", "Units")
             \/ Becomes(new, i, w, "PRESENT_VALUE", "REAL", "Present_Value")
<1>1. \A value : /\ [table EXCEPT ![i].Out_Of_Service = value][i].Out_Of_Service = value
                  /\ [table EXCEPT ![i].Units = value][i].Units = value
                  /\ [table EXCEPT ![i].Present_Value = value][i].Present_Value = value
  OBVIOUS
<1>9. w.property = "UNITS" /\ w.value.tag = "ENUMERATED" => w.value.datum % UINT16_ROOM = w.value.datum
  BY DEF WellFormed, Fits, Room, UINT8_ROOM, UINT16_ROOM
<1>. QED
  BY <1>9, <1>1, SMT DEF Becomes, AV_Write_Property, WriteOutOfService, WriteUnits, Set,
     Write, ValidateArgType, Written, WrongType, Denied, AccessDenied, OutOfRange,
     UnknownProperty

\* An acknowledged write of iv.c stores what was written.
LEMMA IntegerValueStores ==
  ASSUME NEW table, NEW i, NEW w, WellFormed(w), Fits("INTEGER_VALUE", w), i \in DOMAIN table,
         {"Out_Of_Service", "Units", "Present_Value"} \subseteq DOMAIN table[i],
         IV_Write_Property(table, i, w).ok
  PROVE  LET new == IV_Write_Property(table, i, w).table
         IN  \/ Becomes(new, i, w, "OUT_OF_SERVICE", "BOOLEAN", "Out_Of_Service")
             \/ Becomes(new, i, w, "UNITS", "ENUMERATED", "Units")
             \/ Becomes(new, i, w, "PRESENT_VALUE", "SIGNED_INT", "Present_Value")
<1>1. \A value : /\ [table EXCEPT ![i].Out_Of_Service = value][i].Out_Of_Service = value
                  /\ [table EXCEPT ![i].Units = value][i].Units = value
                  /\ [table EXCEPT ![i].Present_Value = value][i].Present_Value = value
  OBVIOUS
<1>9. w.property = "UNITS" /\ w.value.tag = "ENUMERATED" => w.value.datum % UINT16_ROOM = w.value.datum
  BY DEF WellFormed, Fits, Room, UINT8_ROOM, UINT16_ROOM
<1>. QED
  BY <1>9, <1>1, SMT DEF Becomes, IV_Write_Property, WriteOutOfService, WriteUnits, Set,
     Write, ValidateArgType, Written, WrongType, Denied, AccessDenied, OutOfRange,
     UnknownProperty, WriteNumber

\* An acknowledged write of piv.c stores what was written.
LEMMA PositiveIntegerValueStores ==
  ASSUME NEW table, NEW i, NEW w, WellFormed(w), Fits("POSITIVE_INTEGER_VALUE", w), i \in DOMAIN table,
         {"Out_Of_Service", "Units", "Present_Value"} \subseteq DOMAIN table[i],
         PIV_Write_Property(table, i, w).ok
  PROVE  LET new == PIV_Write_Property(table, i, w).table
         IN  \/ Becomes(new, i, w, "OUT_OF_SERVICE", "BOOLEAN", "Out_Of_Service")
             \/ Becomes(new, i, w, "UNITS", "ENUMERATED", "Units")
             \/ Becomes(new, i, w, "PRESENT_VALUE", "UNSIGNED_INT", "Present_Value")
<1>1. \A value : /\ [table EXCEPT ![i].Out_Of_Service = value][i].Out_Of_Service = value
                  /\ [table EXCEPT ![i].Units = value][i].Units = value
                  /\ [table EXCEPT ![i].Present_Value = value][i].Present_Value = value
  OBVIOUS
<1>9. w.property = "UNITS" /\ w.value.tag = "ENUMERATED" => w.value.datum % UINT16_ROOM = w.value.datum
  BY DEF WellFormed, Fits, Room, UINT8_ROOM, UINT16_ROOM
<1>. QED
  BY <1>9, <1>1, SMT DEF Becomes, PIV_Write_Property, WriteOutOfService, WriteUnits, Set,
     Write, ValidateArgType, Written, WrongType, Denied, AccessDenied, OutOfRange,
     UnknownProperty, WriteNumber

\* An acknowledged write of lav.c stores what was written.
LEMMA LargeAnalogValueStores ==
  ASSUME NEW table, NEW i, NEW w, WellFormed(w), Fits("LARGE_ANALOG_VALUE", w), i \in DOMAIN table,
         {"Out_Of_Service", "Units", "Present_Value"} \subseteq DOMAIN table[i],
         LAV_Write_Property(table, i, w).ok
  PROVE  LET new == LAV_Write_Property(table, i, w).table
         IN  \/ Becomes(new, i, w, "OUT_OF_SERVICE", "BOOLEAN", "Out_Of_Service")
             \/ Becomes(new, i, w, "UNITS", "ENUMERATED", "Units")
             \/ Becomes(new, i, w, "PRESENT_VALUE", "DOUBLE", "Present_Value")
<1>1. \A value : /\ [table EXCEPT ![i].Out_Of_Service = value][i].Out_Of_Service = value
                  /\ [table EXCEPT ![i].Units = value][i].Units = value
                  /\ [table EXCEPT ![i].Present_Value = value][i].Present_Value = value
  OBVIOUS
<1>9. w.property = "UNITS" /\ w.value.tag = "ENUMERATED" => w.value.datum % UINT16_ROOM = w.value.datum
  BY DEF WellFormed, Fits, Room, UINT8_ROOM, UINT16_ROOM
<1>. QED
  BY <1>9, <1>1, SMT DEF Becomes, LAV_Write_Property, WriteOutOfService, WriteUnits, Set,
     Write, ValidateArgType, Written, WrongType, Denied, AccessDenied, OutOfRange,
     UnknownProperty, WriteNumber

\* An acknowledged write of ao.c stores what was written.
LEMMA AnalogOutputStores ==
  ASSUME NEW table, NEW i, NEW w, i \in DOMAIN table,
         {"Out_Of_Service"} \subseteq DOMAIN table[i],
         w.property # "PRESENT_VALUE",
         AO_Write_Property(table, i, w).ok
  PROVE  LET new == AO_Write_Property(table, i, w).table
         IN  \/ Becomes(new, i, w, "OUT_OF_SERVICE", "BOOLEAN", "Out_Of_Service")
<1>1. \A value : /\ [table EXCEPT ![i].Out_Of_Service = value][i].Out_Of_Service = value
  OBVIOUS
<1>. QED
  BY <1>1, SMT DEF Becomes, AO_Write_Property, WriteOutOfService, WriteUnits, Set,
     Write, ValidateArgType, Written, WrongType, Denied, AccessDenied, OutOfRange,
     UnknownProperty

\* An acknowledged write of bv.c stores what was written.
LEMMA BinaryValueStores ==
  ASSUME NEW table, NEW i, NEW w, i \in DOMAIN table,
         {"Out_Of_Service"} \subseteq DOMAIN table[i],
         w.property # "PRESENT_VALUE",
         BV_Write_Property(table, i, w).ok
  PROVE  LET new == BV_Write_Property(table, i, w).table
         IN  \/ Becomes(new, i, w, "OUT_OF_SERVICE", "BOOLEAN", "Out_Of_Service")
<1>1. \A value : /\ [table EXCEPT ![i].Out_Of_Service = value][i].Out_Of_Service = value
  OBVIOUS
<1>. QED
  BY <1>1, SMT DEF Becomes, BV_Write_Property, WriteOutOfService, WriteUnits, Set,
     Write, ValidateArgType, Written, WrongType, Denied, AccessDenied, OutOfRange,
     UnknownProperty

\* An acknowledged write of bo.c stores what was written.
LEMMA BinaryOutputStores ==
  ASSUME NEW table, NEW i, NEW w, i \in DOMAIN table,
         {"Out_Of_Service"} \subseteq DOMAIN table[i],
         w.property # "PRESENT_VALUE",
         BO_Write_Property(table, i, w).ok
  PROVE  LET new == BO_Write_Property(table, i, w).table
         IN  \/ Becomes(new, i, w, "OUT_OF_SERVICE", "BOOLEAN", "Out_Of_Service")
<1>1. \A value : /\ [table EXCEPT ![i].Out_Of_Service = value][i].Out_Of_Service = value
  OBVIOUS
<1>. QED
  BY <1>1, SMT DEF Becomes, BO_Write_Property, WriteOutOfService, WriteUnits, Set,
     Write, ValidateArgType, Written, WrongType, Denied, AccessDenied, OutOfRange,
     UnknownProperty

\* An acknowledged write of mso.c stores what was written.
LEMMA MultiStateOutputStores ==
  ASSUME NEW table, NEW i, NEW w, i \in DOMAIN table,
         {"Out_Of_Service"} \subseteq DOMAIN table[i],
         w.property # "PRESENT_VALUE",
         MSO_Write_Property(table, i, w).ok
  PROVE  LET new == MSO_Write_Property(table, i, w).table
         IN  \/ Becomes(new, i, w, "OUT_OF_SERVICE", "BOOLEAN", "Out_Of_Service")
<1>1. \A value : /\ [table EXCEPT ![i].Out_Of_Service = value][i].Out_Of_Service = value
  OBVIOUS
<1>. QED
  BY <1>1, SMT DEF Becomes, MSO_Write_Property, WriteOutOfService, WriteUnits, Set,
     Write, ValidateArgType, Written, WrongType, Denied, AccessDenied, OutOfRange,
     UnknownProperty, WriteMultiState

\* An acknowledged write of msv.c stores what was written.
LEMMA MultiStateValueStores ==
  ASSUME NEW table, NEW i, NEW w, i \in DOMAIN table,
         {"Out_Of_Service"} \subseteq DOMAIN table[i],
         w.property # "PRESENT_VALUE",
         MSV_Write_Property(table, i, w).ok
  PROVE  LET new == MSV_Write_Property(table, i, w).table
         IN  \/ Becomes(new, i, w, "OUT_OF_SERVICE", "BOOLEAN", "Out_Of_Service")
<1>1. \A value : /\ [table EXCEPT ![i].Out_Of_Service = value][i].Out_Of_Service = value
  OBVIOUS
<1>. QED
  BY <1>1, SMT DEF Becomes, MSV_Write_Property, WriteOutOfService, WriteUnits, Set,
     Write, ValidateArgType, Written, WrongType, Denied, AccessDenied, OutOfRange,
     UnknownProperty, WriteMultiState

\* An acknowledged write of tl.c stores what was written.
LEMMA TrendLogStores ==
  ASSUME NEW table, NEW i, NEW w, i \in DOMAIN table,
         {"Enable", "Record_Count", "Log_Interval", "head"} \subseteq DOMAIN table[i],
         TL_Write_Property(table, i, w).ok
  PROVE  LET new == TL_Write_Property(table, i, w).table
         IN  \/ Becomes(new, i, w, "ENABLE", "BOOLEAN", "Enable")
             \/ Becomes(new, i, w, "RECORD_COUNT", "UNSIGNED_INT", "Record_Count")
             \/ Becomes(new, i, w, "LOG_INTERVAL", "UNSIGNED_INT", "Log_Interval")
<1>1. /\ \A value : [table EXCEPT ![i].Enable = value][i].Enable = value
      /\ \A value : [table EXCEPT ![i].Log_Interval = value][i].Log_Interval = value
      /\ [table EXCEPT ![i].Record_Count = 0, ![i].head = 0][i].Record_Count = 0
  OBVIOUS
<1>. QED
  BY <1>1, SMT DEF Becomes, TL_Write_Property, Write, ValidateArgType, Written, WrongType,
     Denied, AccessDenied, OutOfRange

\* An acknowledged write of schedule.c stores what was written.
LEMMA ScheduleStores ==
  ASSUME NEW table, NEW i, NEW w, i \in DOMAIN table,
         {"Present_Value", "Out_Of_Service"} \subseteq DOMAIN table[i],
         SCH_Write_Property(table, i, w).ok
  PROVE  LET new == SCH_Write_Property(table, i, w).table
         IN  \/ Becomes(new, i, w, "OUT_OF_SERVICE", "BOOLEAN", "Out_Of_Service")
             \/ /\ w.property = "PRESENT_VALUE" /\ w.value = new[i].Present_Value
                /\ new[i].Out_Of_Service
<1>1. /\ \A value : /\ [table EXCEPT ![i].Present_Value = value][i].Present_Value = value
                     /\ [table EXCEPT ![i].Present_Value = value][i].Out_Of_Service
                          = table[i].Out_Of_Service
      /\ \A value : [table EXCEPT ![i].Out_Of_Service = value][i].Out_Of_Service = value
  OBVIOUS
<1>. QED
  BY <1>1, SMT DEF Becomes, SCH_Write_Property, WriteOutOfService, ValidateArgType, Written,
     WrongType, Denied, AccessDenied, UnknownProperty

\* An acknowledged write of np.c stores what was written, cut to 16 bits.
LEMMA NetworkPortStores ==
  ASSUME NEW table, NEW i, NEW w, i \in DOMAIN table,
         {"UDP_Port", "Network_Number", "Changes_Pending"} \subseteq DOMAIN table[i],
         NP_Write_Property(table, i, w).ok
  PROVE  LET new == NP_Write_Property(table, i, w).table
         IN  /\ w.value.tag = "UNSIGNED_INT"
             /\ \/ /\ w.property = "BACNET_IP_UDP_PORT"
                   /\ new[i].UDP_Port = w.value.datum % 65536
                \/ /\ w.property = "NETWORK_NUMBER"
                   /\ new[i].Network_Number = w.value.datum % 65536
<1>1. PICK n : n = w.value.datum % 65536
  OBVIOUS
<1>3. PICK port : port = [[table EXCEPT ![i].UDP_Port = n] EXCEPT ![i].Changes_Pending = TRUE]
  OBVIOUS
<1>4. PICK number :
        number = [[table EXCEPT ![i].Network_Number = n] EXCEPT ![i].Changes_Pending = TRUE]
  OBVIOUS
<1>5. port[i].UDP_Port = n /\ number[i].Network_Number = n
  BY <1>3, <1>4
<1>6. PICK result : result = NP_Write_Property(table, i, w)
  OBVIOUS
<1>7. \/ w.property = "BACNET_IP_UDP_PORT" /\ w.value.tag = "UNSIGNED_INT" /\ result.table = port
      \/ w.property = "NETWORK_NUMBER" /\ w.value.tag = "UNSIGNED_INT" /\ result.table = number
  BY <1>1, <1>3, <1>4, <1>6, SMT DEF NP_Write_Property, Write, AccessDenied, OutOfRange,
     WrongType, Denied, Written, ValidateArgType
<1>. QED  BY <1>1, <1>5, <1>6, <1>7

\* The fields the objects are started with, of which the writes are about.
LEMMA StartedFields ==
  \A i \in Instances :
    /\ i \in DOMAIN StartedDatabase.ANALOG_INPUT
    /\ {"Present_Value", "Out_Of_Service", "Units", "COV_Increment"}
         \subseteq DOMAIN StartedDatabase.ANALOG_INPUT[i]
    /\ i \in DOMAIN StartedDatabase.BINARY_INPUT
    /\ {"Present_Value", "Polarity", "Out_Of_Service"}
         \subseteq DOMAIN StartedDatabase.BINARY_INPUT[i]
    /\ i \in DOMAIN StartedDatabase.MULTI_STATE_INPUT
    /\ {"Out_Of_Service", "Present_Value"} \subseteq DOMAIN StartedDatabase.MULTI_STATE_INPUT[i]
    /\ i \in DOMAIN StartedDatabase.ACCUMULATOR
    /\ {"Out_Of_Service", "Units"} \subseteq DOMAIN StartedDatabase.ACCUMULATOR[i]
    /\ i \in DOMAIN StartedDatabase.ANALOG_VALUE
    /\ {"Out_Of_Service", "Units", "Present_Value"} \subseteq DOMAIN StartedDatabase.ANALOG_VALUE[i]
    /\ i \in DOMAIN StartedDatabase.INTEGER_VALUE
    /\ {"Out_Of_Service", "Units", "Present_Value"}
         \subseteq DOMAIN StartedDatabase.INTEGER_VALUE[i]
    /\ i \in DOMAIN StartedDatabase.POSITIVE_INTEGER_VALUE
    /\ {"Out_Of_Service", "Units", "Present_Value"}
         \subseteq DOMAIN StartedDatabase.POSITIVE_INTEGER_VALUE[i]
    /\ i \in DOMAIN StartedDatabase.LARGE_ANALOG_VALUE
    /\ {"Out_Of_Service", "Units", "Present_Value"}
         \subseteq DOMAIN StartedDatabase.LARGE_ANALOG_VALUE[i]
    /\ i \in DOMAIN StartedDatabase.ANALOG_OUTPUT
    /\ {"Out_Of_Service"} \subseteq DOMAIN StartedDatabase.ANALOG_OUTPUT[i]
    /\ i \in DOMAIN StartedDatabase.BINARY_VALUE
    /\ {"Out_Of_Service"} \subseteq DOMAIN StartedDatabase.BINARY_VALUE[i]
    /\ i \in DOMAIN StartedDatabase.BINARY_OUTPUT
    /\ {"Out_Of_Service"} \subseteq DOMAIN StartedDatabase.BINARY_OUTPUT[i]
    /\ i \in DOMAIN StartedDatabase.MULTI_STATE_OUTPUT
    /\ {"Out_Of_Service"} \subseteq DOMAIN StartedDatabase.MULTI_STATE_OUTPUT[i]
    /\ i \in DOMAIN StartedDatabase.MULTI_STATE_VALUE
    /\ {"Out_Of_Service"} \subseteq DOMAIN StartedDatabase.MULTI_STATE_VALUE[i]
    /\ i \in DOMAIN StartedDatabase.TREND_LOG
    /\ {"Enable", "Record_Count", "Log_Interval", "head"}
         \subseteq DOMAIN StartedDatabase.TREND_LOG[i]
    /\ i \in DOMAIN StartedDatabase.SCHEDULE
    /\ {"Present_Value", "Out_Of_Service"} \subseteq DOMAIN StartedDatabase.SCHEDULE[i]
<1>1. PICK device, port : device = Started /\ port = NP_Started
  OBVIOUS
<1>2. /\ StartedDatabase.ANALOG_INPUT = AI_Init
      /\ StartedDatabase.BINARY_INPUT = BI_Init
      /\ StartedDatabase.MULTI_STATE_INPUT = MSI_Init
      /\ StartedDatabase.ACCUMULATOR = ACC_Init
      /\ StartedDatabase.ANALOG_VALUE = AV_Init
      /\ StartedDatabase.INTEGER_VALUE = IV_Init
      /\ StartedDatabase.POSITIVE_INTEGER_VALUE = PIV_Init
      /\ StartedDatabase.LARGE_ANALOG_VALUE = LAV_Init
      /\ StartedDatabase.ANALOG_OUTPUT = AO_Init
      /\ StartedDatabase.BINARY_VALUE = BV_Init
      /\ StartedDatabase.BINARY_OUTPUT = BO_Init
      /\ StartedDatabase.MULTI_STATE_OUTPUT = MSO_Init
      /\ StartedDatabase.MULTI_STATE_VALUE = MSV_Init
      /\ StartedDatabase.TREND_LOG = TL_Init
      /\ StartedDatabase.SCHEDULE = SCH_Init
  BY <1>1 DEF StartedDatabase
<1>3. \A i \in Instances :
        /\ i \in DOMAIN AI_Init
        /\ {"Present_Value", "Out_Of_Service", "Units", "COV_Increment"} \subseteq DOMAIN AI_Init[i]
  BY DEF AI_Init
<1>4. \A i \in Instances :
        /\ i \in DOMAIN BI_Init
        /\ {"Present_Value", "Polarity", "Out_Of_Service"} \subseteq DOMAIN BI_Init[i]
  BY DEF BI_Init
<1>5. \A i \in Instances :
        /\ i \in DOMAIN MSI_Init
        /\ {"Out_Of_Service", "Present_Value"} \subseteq DOMAIN MSI_Init[i]
  BY DEF MSI_Init
<1>6. \A i \in Instances :
        /\ i \in DOMAIN ACC_Init
        /\ {"Out_Of_Service", "Units"} \subseteq DOMAIN ACC_Init[i]
  BY DEF ACC_Init
<1>7. \A i \in Instances :
        /\ i \in DOMAIN AV_Init
        /\ {"Out_Of_Service", "Units", "Present_Value"} \subseteq DOMAIN AV_Init[i]
  BY DEF AV_Init
<1>8. \A i \in Instances :
        /\ i \in DOMAIN IV_Init
        /\ {"Out_Of_Service", "Units", "Present_Value"} \subseteq DOMAIN IV_Init[i]
  BY DEF IV_Init, NumberInit
<1>9. \A i \in Instances :
        /\ i \in DOMAIN PIV_Init
        /\ {"Out_Of_Service", "Units", "Present_Value"} \subseteq DOMAIN PIV_Init[i]
  BY DEF PIV_Init, NumberInit
<1>10. \A i \in Instances :
        /\ i \in DOMAIN LAV_Init
        /\ {"Out_Of_Service", "Units", "Present_Value"} \subseteq DOMAIN LAV_Init[i]
  BY DEF LAV_Init, NumberInit
<1>11. \A i \in Instances :
        /\ i \in DOMAIN AO_Init
        /\ {"Out_Of_Service"} \subseteq DOMAIN AO_Init[i]
  BY DEF AO_Init
<1>12. \A i \in Instances :
        /\ i \in DOMAIN BV_Init
        /\ {"Out_Of_Service"} \subseteq DOMAIN BV_Init[i]
  BY DEF BV_Init
<1>13. \A i \in Instances :
        /\ i \in DOMAIN BO_Init
        /\ {"Out_Of_Service"} \subseteq DOMAIN BO_Init[i]
  BY DEF BO_Init
<1>14. \A i \in Instances :
        /\ i \in DOMAIN MSO_Init
        /\ {"Out_Of_Service"} \subseteq DOMAIN MSO_Init[i]
  BY DEF MSO_Init
<1>15. \A i \in Instances :
        /\ i \in DOMAIN MSV_Init
        /\ {"Out_Of_Service"} \subseteq DOMAIN MSV_Init[i]
  BY DEF MSV_Init
<1>16. \A i \in Instances :
        /\ i \in DOMAIN TL_Init
        /\ {"Enable", "Record_Count", "Log_Interval", "head"} \subseteq DOMAIN TL_Init[i]
  BY DEF TL_Init
<1>17. \A i \in Instances :
        /\ i \in DOMAIN SCH_Init
        /\ {"Present_Value", "Out_Of_Service"} \subseteq DOMAIN SCH_Init[i]
  BY DEF SCH_Init
<1>. QED  BY <1>2, <1>3, <1>4, <1>5, <1>6, <1>7, <1>8, <1>9, <1>10, <1>11, <1>12, <1>13, <1>14,
    <1>15, <1>16, <1>17

\* An acknowledged write is one to an object there is, by the function of its type.
LEMMA WrittenTo ==
  ASSUME NEW d, Shaped(d), NEW type \in OtherTypes, NEW i, NEW w,
         Device_Write_Property(d, type, i, w).ok
  PROVE  /\ i \in IF type = "NETWORK_PORT" THEN NP_Instances ELSE Instances
         /\ WriteByType(d, type, i, w).ok
         /\ Device_Write_Property(d, type, i, w).db[type] = WriteByType(d, type, i, w).table
         /\ DOMAIN d[type] = DOMAIN StartedDatabase[type]
         /\ i \in DOMAIN d[type] => DOMAIN d[type][i] = DOMAIN StartedDatabase[type][i]
<1>1. Valid_Object_Id(d, type, i)
  BY DEF Device_Write_Property
<1>2. i \in IF type = "NETWORK_PORT" THEN NP_Instances ELSE Instances
  <2>1. i \in Valid_Instances[type]
    BY <1>1, ValidTypes DEF OtherTypes
  <2>. QED
    BY <2>1, TypesAre, SMT DEF OtherTypes, Valid_Instances, AI_Instances, BI_Instances,
       MSI_Instances, ACC_Instances, AV_Instances, IV_Instances, PIV_Instances, LAV_Instances,
       CSV_Instances, AO_Instances, BV_Instances, BO_Instances, MSO_Instances, MSV_Instances,
       TL_Instances, SCH_Instances
<1>3. PICK r : r = WriteByType(d, type, i, w)
  OBVIOUS
<1>4. Device_Write_Property(d, type, i, w)
        = [ok |-> r.ok, db |-> [d EXCEPT ![type] = r.table], error |-> r.error]
  BY <1>1, <1>3 DEF Device_Write_Property
<1>5. type \in DOMAIN d
  BY DEF Shaped
<1>6. /\ r.ok
      /\ Device_Write_Property(d, type, i, w).db[type] = r.table
  BY <1>4, <1>5
<1>. QED  BY <1>2, <1>3, <1>6 DEF Shaped, SameShape

\* And so what was written is read, of ai.c.
LEMMA AnalogInputKept ==
  ASSUME NEW d, Shaped(d), NEW i, NEW w, WellFormed(w), Fits("ANALOG_INPUT", w),
         Device_Write_Property(d, "ANALOG_INPUT", i, w).ok
  PROVE  Shown(Device_Write_Property(d, "ANALOG_INPUT", i, w).db, "ANALOG_INPUT", i,
               w.property, w.value)
<1>1. PICK type, table, new :
        /\ type = "ANALOG_INPUT" /\ table = d.ANALOG_INPUT
        /\ new = Device_Write_Property(d, type, i, w).db
  OBVIOUS
<1>2. type \in OtherTypes
  BY <1>1, TypesAre DEF OtherTypes
<1>3. WriteByType(d, type, i, w) = AI_Write_Property(table, i, w)
  BY <1>1, SMT DEF WriteByType
<1>4. /\ i \in Instances /\ i \in DOMAIN table /\ AI_Write_Property(table, i, w).ok
      /\ {"Present_Value", "Out_Of_Service", "Units", "COV_Increment"} \subseteq DOMAIN table[i]
      /\ new.ANALOG_INPUT = AI_Write_Property(table, i, w).table
  BY <1>1, <1>2, <1>3, WrittenTo, StartedFields
<1>. QED  BY <1>1, <1>4, AnalogInputStores, AnalogInput, WellTagged DEF Becomes

\* And so what was written is read, of bi.c.
LEMMA BinaryInputKept ==
  ASSUME NEW d, Shaped(d), NEW i, NEW w, WellFormed(w),
         Device_Write_Property(d, "BINARY_INPUT", i, w).ok
  PROVE  Shown(Device_Write_Property(d, "BINARY_INPUT", i, w).db, "BINARY_INPUT", i,
               w.property, w.value)
<1>1. PICK type, table, new :
        /\ type = "BINARY_INPUT" /\ table = d.BINARY_INPUT
        /\ new = Device_Write_Property(d, type, i, w).db
  OBVIOUS
<1>2. type \in OtherTypes
  BY <1>1, TypesAre DEF OtherTypes
<1>3. WriteByType(d, type, i, w) = BI_Write_Property(table, i, w)
  BY <1>1, SMT DEF WriteByType
<1>4. /\ i \in Instances /\ i \in DOMAIN table /\ BI_Write_Property(table, i, w).ok
      /\ {"Present_Value", "Polarity", "Out_Of_Service"} \subseteq DOMAIN table[i]
      /\ new.BINARY_INPUT = BI_Write_Property(table, i, w).table
  BY <1>1, <1>2, <1>3, WrittenTo, StartedFields
<1>. QED  BY <1>1, <1>4, BinaryInputStores, BinaryInput, WellTagged DEF Becomes

\* And so what was written is read, of msi.c.
LEMMA MultiStateInputKept ==
  ASSUME NEW d, Shaped(d), NEW i, NEW w, WellFormed(w),
         Device_Write_Property(d, "MULTI_STATE_INPUT", i, w).ok
  PROVE  Shown(Device_Write_Property(d, "MULTI_STATE_INPUT", i, w).db, "MULTI_STATE_INPUT", i,
               w.property, w.value)
<1>1. PICK type, table, new :
        /\ type = "MULTI_STATE_INPUT" /\ table = d.MULTI_STATE_INPUT
        /\ new = Device_Write_Property(d, type, i, w).db
  OBVIOUS
<1>2. type \in OtherTypes
  BY <1>1, TypesAre DEF OtherTypes
<1>3. WriteByType(d, type, i, w) = MSI_Write_Property(table, i, w)
  BY <1>1, SMT DEF WriteByType
<1>4. /\ i \in Instances /\ i \in DOMAIN table /\ MSI_Write_Property(table, i, w).ok
      /\ {"Out_Of_Service", "Present_Value"} \subseteq DOMAIN table[i]
      /\ new.MULTI_STATE_INPUT = MSI_Write_Property(table, i, w).table
  BY <1>1, <1>2, <1>3, WrittenTo, StartedFields
<1>. QED  BY <1>1, <1>4, MultiStateInputStores, MultiStateInput, WellTagged DEF Becomes

\* And so what was written is read, of acc.c.
LEMMA AccumulatorKept ==
  ASSUME NEW d, Shaped(d), NEW i, NEW w, WellFormed(w), Fits("ACCUMULATOR", w),
         Device_Write_Property(d, "ACCUMULATOR", i, w).ok
  PROVE  Shown(Device_Write_Property(d, "ACCUMULATOR", i, w).db, "ACCUMULATOR", i,
               w.property, w.value)
<1>1. PICK type, table, new :
        /\ type = "ACCUMULATOR" /\ table = d.ACCUMULATOR
        /\ new = Device_Write_Property(d, type, i, w).db
  OBVIOUS
<1>2. type \in OtherTypes
  BY <1>1, TypesAre DEF OtherTypes
<1>3. WriteByType(d, type, i, w) = ACC_Write_Property(table, i, w)
  BY <1>1, SMT DEF WriteByType
<1>4. /\ i \in Instances /\ i \in DOMAIN table /\ ACC_Write_Property(table, i, w).ok
      /\ {"Out_Of_Service", "Units"} \subseteq DOMAIN table[i]
      /\ new.ACCUMULATOR = ACC_Write_Property(table, i, w).table
  BY <1>1, <1>2, <1>3, WrittenTo, StartedFields
<1>. QED  BY <1>1, <1>4, AccumulatorStores, Accumulator, WellTagged DEF Becomes

\* A schedule and an analog value are known by what their fields keep, since the loop writes
\* to one of each as well.
ScheduleHolds(object, w) ==
  \/ w.property = "OUT_OF_SERVICE" /\ w.value = Boolean(object.Out_Of_Service)
  \/ w.property = "PRESENT_VALUE" /\ w.value = object.Present_Value /\ object.Out_Of_Service

ValueHolds(object, w) ==
  \/ w.property = "OUT_OF_SERVICE" /\ w.value = Boolean(object.Out_Of_Service)
  \/ w.property = "UNITS" /\ w.value = Enumerated(object.Units)
  \/ w.property = "PRESENT_VALUE" /\ w.value = Real(object.Present_Value)

\* And so what was written is kept, of av.c.
LEMMA AnalogValueKept ==
  ASSUME NEW d, Shaped(d), NEW i, NEW w, WellFormed(w), Fits("ANALOG_VALUE", w),
         Device_Write_Property(d, "ANALOG_VALUE", i, w).ok
  PROVE  /\ i \in Instances
         /\ ValueHolds(Device_Write_Property(d, "ANALOG_VALUE", i, w).db.ANALOG_VALUE[i], w)
<1>1. PICK type, table, new :
        /\ type = "ANALOG_VALUE" /\ table = d.ANALOG_VALUE
        /\ new = Device_Write_Property(d, type, i, w).db
  OBVIOUS
<1>2. type \in OtherTypes
  BY <1>1, TypesAre DEF OtherTypes
<1>3. WriteByType(d, type, i, w) = AV_Write_Property(table, i, w)
  BY <1>1, SMT DEF WriteByType
<1>4. /\ i \in Instances /\ i \in DOMAIN table /\ AV_Write_Property(table, i, w).ok
      /\ {"Out_Of_Service", "Units", "Present_Value"} \subseteq DOMAIN table[i]
      /\ new.ANALOG_VALUE = AV_Write_Property(table, i, w).table
  BY <1>1, <1>2, <1>3, WrittenTo, StartedFields
<1>5. PICK object : object = new.ANALOG_VALUE[i]
  OBVIOUS
<1>6. ValueHolds(object, w)
  BY <1>4, <1>5, AnalogValueStores, WellTagged DEF Becomes, ValueHolds
<1>. QED  BY <1>1, <1>4, <1>5, <1>6

\* And so what was written is read, of iv.c.
LEMMA IntegerValueKept ==
  ASSUME NEW d, Shaped(d), NEW i, NEW w, WellFormed(w), Fits("INTEGER_VALUE", w),
         Device_Write_Property(d, "INTEGER_VALUE", i, w).ok
  PROVE  Shown(Device_Write_Property(d, "INTEGER_VALUE", i, w).db, "INTEGER_VALUE", i,
               w.property, w.value)
<1>1. PICK type, table, new :
        /\ type = "INTEGER_VALUE" /\ table = d.INTEGER_VALUE
        /\ new = Device_Write_Property(d, type, i, w).db
  OBVIOUS
<1>2. type \in OtherTypes
  BY <1>1, TypesAre DEF OtherTypes
<1>3. WriteByType(d, type, i, w) = IV_Write_Property(table, i, w)
  BY <1>1, SMT DEF WriteByType
<1>4. /\ i \in Instances /\ i \in DOMAIN table /\ IV_Write_Property(table, i, w).ok
      /\ {"Out_Of_Service", "Units", "Present_Value"} \subseteq DOMAIN table[i]
      /\ new.INTEGER_VALUE = IV_Write_Property(table, i, w).table
  BY <1>1, <1>2, <1>3, WrittenTo, StartedFields
<1>. QED  BY <1>1, <1>4, IntegerValueStores, IntegerValue, WellTagged DEF Becomes

\* And so what was written is read, of piv.c.
LEMMA PositiveIntegerValueKept ==
  ASSUME NEW d, Shaped(d), NEW i, NEW w, WellFormed(w), Fits("POSITIVE_INTEGER_VALUE", w),
         Device_Write_Property(d, "POSITIVE_INTEGER_VALUE", i, w).ok
  PROVE  Shown(Device_Write_Property(d, "POSITIVE_INTEGER_VALUE", i, w).db,
               "POSITIVE_INTEGER_VALUE", i, w.property, w.value)
<1>1. PICK type, table, new :
        /\ type = "POSITIVE_INTEGER_VALUE" /\ table = d.POSITIVE_INTEGER_VALUE
        /\ new = Device_Write_Property(d, type, i, w).db
  OBVIOUS
<1>2. type \in OtherTypes
  BY <1>1, TypesAre DEF OtherTypes
<1>3. WriteByType(d, type, i, w) = PIV_Write_Property(table, i, w)
  BY <1>1, SMT DEF WriteByType
<1>4. /\ i \in Instances /\ i \in DOMAIN table /\ PIV_Write_Property(table, i, w).ok
      /\ {"Out_Of_Service", "Units", "Present_Value"} \subseteq DOMAIN table[i]
      /\ new.POSITIVE_INTEGER_VALUE = PIV_Write_Property(table, i, w).table
  BY <1>1, <1>2, <1>3, WrittenTo, StartedFields
<1>. QED  BY <1>1, <1>4, PositiveIntegerValueStores, PositiveIntegerValue, WellTagged DEF Becomes

\* And so what was written is read, of lav.c.
LEMMA LargeAnalogValueKept ==
  ASSUME NEW d, Shaped(d), NEW i, NEW w, WellFormed(w), Fits("LARGE_ANALOG_VALUE", w),
         Device_Write_Property(d, "LARGE_ANALOG_VALUE", i, w).ok
  PROVE  Shown(Device_Write_Property(d, "LARGE_ANALOG_VALUE", i, w).db, "LARGE_ANALOG_VALUE", i,
               w.property, w.value)
<1>1. PICK type, table, new :
        /\ type = "LARGE_ANALOG_VALUE" /\ table = d.LARGE_ANALOG_VALUE
        /\ new = Device_Write_Property(d, type, i, w).db
  OBVIOUS
<1>2. type \in OtherTypes
  BY <1>1, TypesAre DEF OtherTypes
<1>3. WriteByType(d, type, i, w) = LAV_Write_Property(table, i, w)
  BY <1>1, SMT DEF WriteByType
<1>4. /\ i \in Instances /\ i \in DOMAIN table /\ LAV_Write_Property(table, i, w).ok
      /\ {"Out_Of_Service", "Units", "Present_Value"} \subseteq DOMAIN table[i]
      /\ new.LARGE_ANALOG_VALUE = LAV_Write_Property(table, i, w).table
  BY <1>1, <1>2, <1>3, WrittenTo, StartedFields
<1>. QED  BY <1>1, <1>4, LargeAnalogValueStores, LargeAnalogValue, WellTagged DEF Becomes

\* And so what was written is read, of ao.c.
LEMMA AnalogOutputKept ==
  ASSUME NEW d, Shaped(d), NEW i, NEW w, WellFormed(w),
         w.property # "PRESENT_VALUE",
         Device_Write_Property(d, "ANALOG_OUTPUT", i, w).ok
  PROVE  Shown(Device_Write_Property(d, "ANALOG_OUTPUT", i, w).db, "ANALOG_OUTPUT", i,
               w.property, w.value)
<1>1. PICK type, table, new :
        /\ type = "ANALOG_OUTPUT" /\ table = d.ANALOG_OUTPUT
        /\ new = Device_Write_Property(d, type, i, w).db
  OBVIOUS
<1>2. type \in OtherTypes
  BY <1>1, TypesAre DEF OtherTypes
<1>3. WriteByType(d, type, i, w) = AO_Write_Property(table, i, w)
  BY <1>1, SMT DEF WriteByType
<1>4. /\ i \in Instances /\ i \in DOMAIN table /\ AO_Write_Property(table, i, w).ok
      /\ {"Out_Of_Service"} \subseteq DOMAIN table[i]
      /\ new.ANALOG_OUTPUT = AO_Write_Property(table, i, w).table
  BY <1>1, <1>2, <1>3, WrittenTo, StartedFields
<1>. QED  BY <1>1, <1>4, AnalogOutputStores, AnalogOutput, WellTagged DEF Becomes

\* And so what was written is read, of bv.c.
LEMMA BinaryValueKept ==
  ASSUME NEW d, Shaped(d), NEW i, NEW w, WellFormed(w),
         w.property # "PRESENT_VALUE",
         Device_Write_Property(d, "BINARY_VALUE", i, w).ok
  PROVE  Shown(Device_Write_Property(d, "BINARY_VALUE", i, w).db, "BINARY_VALUE", i,
               w.property, w.value)
<1>1. PICK type, table, new :
        /\ type = "BINARY_VALUE" /\ table = d.BINARY_VALUE
        /\ new = Device_Write_Property(d, type, i, w).db
  OBVIOUS
<1>2. type \in OtherTypes
  BY <1>1, TypesAre DEF OtherTypes
<1>3. WriteByType(d, type, i, w) = BV_Write_Property(table, i, w)
  BY <1>1, SMT DEF WriteByType
<1>4. /\ i \in Instances /\ i \in DOMAIN table /\ BV_Write_Property(table, i, w).ok
      /\ {"Out_Of_Service"} \subseteq DOMAIN table[i]
      /\ new.BINARY_VALUE = BV_Write_Property(table, i, w).table
  BY <1>1, <1>2, <1>3, WrittenTo, StartedFields
<1>. QED  BY <1>1, <1>4, BinaryValueStores, BinaryValue, WellTagged DEF Becomes

\* And so what was written is read, of bo.c.
LEMMA BinaryOutputKept ==
  ASSUME NEW d, Shaped(d), NEW i, NEW w, WellFormed(w),
         w.property # "PRESENT_VALUE",
         Device_Write_Property(d, "BINARY_OUTPUT", i, w).ok
  PROVE  Shown(Device_Write_Property(d, "BINARY_OUTPUT", i, w).db, "BINARY_OUTPUT", i,
               w.property, w.value)
<1>1. PICK type, table, new :
        /\ type = "BINARY_OUTPUT" /\ table = d.BINARY_OUTPUT
        /\ new = Device_Write_Property(d, type, i, w).db
  OBVIOUS
<1>2. type \in OtherTypes
  BY <1>1, TypesAre DEF OtherTypes
<1>3. WriteByType(d, type, i, w) = BO_Write_Property(table, i, w)
  BY <1>1, SMT DEF WriteByType
<1>4. /\ i \in Instances /\ i \in DOMAIN table /\ BO_Write_Property(table, i, w).ok
      /\ {"Out_Of_Service"} \subseteq DOMAIN table[i]
      /\ new.BINARY_OUTPUT = BO_Write_Property(table, i, w).table
  BY <1>1, <1>2, <1>3, WrittenTo, StartedFields
<1>. QED  BY <1>1, <1>4, BinaryOutputStores, BinaryOutput, WellTagged DEF Becomes

\* And so what was written is read, of mso.c.
LEMMA MultiStateOutputKept ==
  ASSUME NEW d, Shaped(d), NEW i, NEW w, WellFormed(w),
         w.property # "PRESENT_VALUE",
         Device_Write_Property(d, "MULTI_STATE_OUTPUT", i, w).ok
  PROVE  Shown(Device_Write_Property(d, "MULTI_STATE_OUTPUT", i, w).db, "MULTI_STATE_OUTPUT", i,
               w.property, w.value)
<1>1. PICK type, table, new :
        /\ type = "MULTI_STATE_OUTPUT" /\ table = d.MULTI_STATE_OUTPUT
        /\ new = Device_Write_Property(d, type, i, w).db
  OBVIOUS
<1>2. type \in OtherTypes
  BY <1>1, TypesAre DEF OtherTypes
<1>3. WriteByType(d, type, i, w) = MSO_Write_Property(table, i, w)
  BY <1>1, SMT DEF WriteByType
<1>4. /\ i \in Instances /\ i \in DOMAIN table /\ MSO_Write_Property(table, i, w).ok
      /\ {"Out_Of_Service"} \subseteq DOMAIN table[i]
      /\ new.MULTI_STATE_OUTPUT = MSO_Write_Property(table, i, w).table
  BY <1>1, <1>2, <1>3, WrittenTo, StartedFields
<1>. QED  BY <1>1, <1>4, MultiStateOutputStores, MultiStateOutput, WellTagged DEF Becomes

\* And so what was written is read, of msv.c.
LEMMA MultiStateValueKept ==
  ASSUME NEW d, Shaped(d), NEW i, NEW w, WellFormed(w),
         w.property # "PRESENT_VALUE",
         Device_Write_Property(d, "MULTI_STATE_VALUE", i, w).ok
  PROVE  Shown(Device_Write_Property(d, "MULTI_STATE_VALUE", i, w).db, "MULTI_STATE_VALUE", i,
               w.property, w.value)
<1>1. PICK type, table, new :
        /\ type = "MULTI_STATE_VALUE" /\ table = d.MULTI_STATE_VALUE
        /\ new = Device_Write_Property(d, type, i, w).db
  OBVIOUS
<1>2. type \in OtherTypes
  BY <1>1, TypesAre DEF OtherTypes
<1>3. WriteByType(d, type, i, w) = MSV_Write_Property(table, i, w)
  BY <1>1, SMT DEF WriteByType
<1>4. /\ i \in Instances /\ i \in DOMAIN table /\ MSV_Write_Property(table, i, w).ok
      /\ {"Out_Of_Service"} \subseteq DOMAIN table[i]
      /\ new.MULTI_STATE_VALUE = MSV_Write_Property(table, i, w).table
  BY <1>1, <1>2, <1>3, WrittenTo, StartedFields
<1>. QED  BY <1>1, <1>4, MultiStateValueStores, MultiStateValue, WellTagged DEF Becomes

\* And so what was written is read, of tl.c.
LEMMA TrendLogKept ==
  ASSUME NEW d, Shaped(d), NEW i, NEW w, WellFormed(w),
         Device_Write_Property(d, "TREND_LOG", i, w).ok
  PROVE  Shown(Device_Write_Property(d, "TREND_LOG", i, w).db, "TREND_LOG", i, w.property, w.value)
<1>1. PICK type, table, new :
        /\ type = "TREND_LOG" /\ table = d.TREND_LOG
        /\ new = Device_Write_Property(d, type, i, w).db
  OBVIOUS
<1>2. type \in OtherTypes
  BY <1>1, TypesAre DEF OtherTypes
<1>3. WriteByType(d, type, i, w) = TL_Write_Property(table, i, w)
  BY <1>1, SMT DEF WriteByType
<1>4. /\ i \in Instances /\ i \in DOMAIN table /\ TL_Write_Property(table, i, w).ok
      /\ {"Enable", "Record_Count", "Log_Interval", "head"} \subseteq DOMAIN table[i]
      /\ new.TREND_LOG = TL_Write_Property(table, i, w).table
  BY <1>1, <1>2, <1>3, WrittenTo, StartedFields
<1>. QED  BY <1>1, <1>4, TrendLogStores, TrendLog, WellTagged DEF Becomes

\* And so what was written is kept, of schedule.c.
LEMMA ScheduleObjectKept ==
  ASSUME NEW d, Shaped(d), NEW i, NEW w, WellFormed(w),
         Device_Write_Property(d, "SCHEDULE", i, w).ok
  PROVE  /\ i \in Instances
         /\ ScheduleHolds(Device_Write_Property(d, "SCHEDULE", i, w).db.SCHEDULE[i], w)
<1>1. PICK type, table, new :
        /\ type = "SCHEDULE" /\ table = d.SCHEDULE
        /\ new = Device_Write_Property(d, type, i, w).db
  OBVIOUS
<1>2. type \in OtherTypes
  BY <1>1, TypesAre DEF OtherTypes
<1>3. WriteByType(d, type, i, w) = SCH_Write_Property(table, i, w)
  BY <1>1, SMT DEF WriteByType
<1>4. /\ i \in Instances /\ i \in DOMAIN table /\ SCH_Write_Property(table, i, w).ok
      /\ {"Present_Value", "Out_Of_Service"} \subseteq DOMAIN table[i]
      /\ new.SCHEDULE = SCH_Write_Property(table, i, w).table
  BY <1>1, <1>2, <1>3, WrittenTo, StartedFields
<1>5. PICK object : object = new.SCHEDULE[i]
  OBVIOUS
<1>6. ScheduleHolds(object, w)
  BY <1>4, <1>5, ScheduleStores, WellTagged DEF Becomes, ScheduleHolds
<1>. QED  BY <1>1, <1>4, <1>5, <1>6

\* And so what was written is read, of np.c, unless it is too large for its C type.
LEMMA NetworkPortKept ==
  ASSUME NEW d, Shaped(d), NEW i, NEW w, WellFormed(w), Fits("NETWORK_PORT", w),
         Device_Write_Property(d, "NETWORK_PORT", i, w).ok
  PROVE  Shown(Device_Write_Property(d, "NETWORK_PORT", i, w).db, "NETWORK_PORT", i,
               w.property, w.value)
<1>1. PICK type, table, new :
        /\ type = "NETWORK_PORT" /\ table = d.NETWORK_PORT
        /\ new = Device_Write_Property(d, type, i, w).db
  OBVIOUS
<1>2. type \in OtherTypes
  BY <1>1, TypesAre DEF OtherTypes
<1>3. WriteByType(d, type, i, w) = NP_Write_Property(table, i, w)
  BY <1>1, SMT DEF WriteByType
<1>4. /\ \A j \in NP_Instances : j \in DOMAIN StartedDatabase.NETWORK_PORT
      /\ \A j \in NP_Instances : {"UDP_Port", "Network_Number", "Changes_Pending"}
                                  \subseteq DOMAIN StartedDatabase.NETWORK_PORT[j]
  <2>1. PICK device, port : device = Started /\ port = NP_Started
    OBVIOUS
  <2>2. StartedDatabase.NETWORK_PORT = port
    BY <2>1 DEF StartedDatabase
  <2>3. DOMAIN port = {0}
    BY <2>1 DEF NP_Started
  <2>4. \A np, address, mask, gateway, p :
          DOMAIN NP_IP_Set(np, address, mask, gateway, p) = DOMAIN np
    BY Zenon DEF NP_IP_Set
  <2>5. DOMAIN port[0] = DOMAIN NP_Init[0]
    <3>1. port[0] = NP_IP_Set(NP_Init[0], "address", "mask", "gateway", 47808)
      BY <2>1 DEF NP_Started
    <3>. QED  BY <2>4, <3>1
  <2>6. {"UDP_Port", "Network_Number", "Changes_Pending"} \subseteq DOMAIN NP_Init[0]
    BY DEF NP_Init
  <2>. QED  BY <2>2, <2>3, <2>5, <2>6 DEF NP_Instances
<1>5. /\ i \in NP_Instances /\ i \in DOMAIN table /\ NP_Write_Property(table, i, w).ok
      /\ {"UDP_Port", "Network_Number", "Changes_Pending"} \subseteq DOMAIN table[i]
      /\ new.NETWORK_PORT = NP_Write_Property(table, i, w).table
  BY <1>1, <1>2, <1>3, <1>4, WrittenTo
<1>6. PICK n, cut : n = w.value.datum /\ cut = w.value.datum % 65536
  OBVIOUS
<1>7. /\ w.value = Unsigned(n)
      /\ \/ w.property = "BACNET_IP_UDP_PORT" /\ new.NETWORK_PORT[i].UDP_Port = cut
         \/ w.property = "NETWORK_NUMBER" /\ new.NETWORK_PORT[i].Network_Number = cut
  BY <1>5, <1>6, NetworkPortStores, WellTagged
<1>8. cut = n
  <2>1. n \in Nat /\ n < 65536
    BY <1>6, <1>7 DEF WellFormed, Fits, Room, Unsigned
  <2>. QED  BY <1>6, <2>1
<1>. QED  BY <1>1, <1>5, <1>7, <1>8, NetworkPort

\* A name found in the device is that of the object found first.
LEMMA FirstHasName ==
  ASSUME NEW d, NEW name, NamedObjects(d, name) # {}
  PROVE  LET id == FirstNamed(d, name) IN Object_Name(d, id[1], id[2]) = name
<1>1. PICK list, places : list = Object_List(d) /\ places = NamedObjects(d, name)
  OBVIOUS
<1>2. places = {n \in DOMAIN list : Object_Name(d, list[n][1], list[n][2]) = name}
  BY <1>1 DEF NamedObjects
<1>3. DOMAIN list \in SUBSET Nat
  <2>1. \E X : list \in Seq(X)
    BY <1>1, ListHolds
  <2>. QED  BY <2>1
<1>4. Min(places) \in places
  <2>1. \E x \in places : \A y \in places : x <= y
    BY <1>1, <1>2, <1>3, LeastOfNat
  <2>. QED  BY <2>1 DEF Min
<1>. QED  BY <1>1, <1>2, <1>4 DEF FirstNamed

\* An acknowledged write of the device is what the device then keeps.
LEMMA DeviceStores ==
  ASSUME NEW d, Typed(d.DEVICE), NEW w, WellFormed(w), Fits("DEVICE", w),
         w.property \notin {"LOCAL_DATE", "LOCAL_TIME"},
         Device_Write_Property_Local(d, w).ok
  PROVE  LET new == Device_Write_Property_Local(d, w).table
         IN  \/ /\ w.property = "OBJECT_IDENTIFIER"
                /\ w.value = ObjectId("DEVICE", new.Object_Instance_Number)
             \/ w.property = "OBJECT_NAME" /\ w.value = Characters(new.My_Object_Name)
             \/ w.property = "SYSTEM_STATUS" /\ w.value = Enumerated(new.System_Status)
             \/ w.property = "LOCATION" /\ w.value = Characters(new.Location)
             \/ w.property = "DESCRIPTION" /\ w.value = Characters(new.Description)
             \/ w.property = "MODEL_NAME" /\ w.value = Characters(new.Model_Name)
             \/ w.property = "APDU_TIMEOUT" /\ w.value = Unsigned(new.Apdu_Timeout)
             \/ w.property = "NUMBER_OF_APDU_RETRIES" /\ w.value = Unsigned(new.Apdu_Retries)
             \/ w.property = "VENDOR_IDENTIFIER" /\ w.value = Unsigned(new.Vendor_Identifier)
<1>. DEFINE device == d.DEVICE
            arrays == {"OBJECT_LIST"}
            number(tag, result) == ValidateArgType(device, w.value, tag, result)
            outcome == Device_Write_Property_Local(d, w)
<1>1. outcome.ok
  OBVIOUS
<1>2. \A result : Write(device, w, arrays, result).ok =>
                    Write(device, w, arrays, result) = result /\ result.ok
  BY DEF Write, Denied, AccessDenied, OutOfRange
<1>3. \A tag, result : number(tag, result).ok =>
                         w.value.tag = tag /\ number(tag, result) = result /\ result.ok
  BY DEF ValidateArgType, WrongType, Denied
<1>4. \A table : Written(table).table = table
  BY DEF Written
<1>5. CASE w.property = "OBJECT_IDENTIFIER"
  <2>1. PICK result :
          result = IF w.value.datum[1] = "DEVICE" /\ w.value.datum[2] <= BACNET_MAX_INSTANCE
                   THEN Written(Set_Object_Instance_Number(device, w.value.datum[2]))
                   ELSE OutOfRange(device)
    OBVIOUS
  <2>2. outcome = Write(device, w, arrays, number("OBJECT_ID", result))
    BY <2>1, <1>5, SMT DEF Device_Write_Property_Local
  <2>. HIDE DEF outcome
  <2>3. w.value.tag = "OBJECT_ID" /\ outcome = result /\ result.ok
    BY <2>2, <1>2, <1>3, <1>1
  <2>4. /\ w.value.datum[1] = "DEVICE"
        /\ result.table = Set_Object_Instance_Number(device, w.value.datum[2])
    BY <2>1, <2>3, <1>4 DEF OutOfRange, Denied
  <2>5. \A n : Set_Object_Instance_Number(device, n).Object_Instance_Number = n
    BY DEF Set_Object_Instance_Number, Revised, Typed
  <2>6. w.value = ObjectId("DEVICE", w.value.datum[2])
    BY <2>3, <2>4 DEF WellFormed, ObjectId
  <2>. QED  BY <2>3, <2>4, <2>5, <2>6, <1>5 DEF outcome
<1>6. CASE w.property \in {"NUMBER_OF_APDU_RETRIES", "APDU_TIMEOUT", "VENDOR_IDENTIFIER"}
  <2>. DEFINE set(field, x) ==
                Write(device, w, arrays,
                      number("UNSIGNED_INT", Written([device EXCEPT ![field] = x])))
  <2>1. PICK n, octet, word : /\ n = w.value.datum /\ octet = w.value.datum % 256
                              /\ word = w.value.datum % 65536
    OBVIOUS
  <2>2. \/ w.property = "NUMBER_OF_APDU_RETRIES" /\ outcome = set("Apdu_Retries", octet)
        \/ w.property = "APDU_TIMEOUT" /\ outcome = set("Apdu_Timeout", word)
        \/ w.property = "VENDOR_IDENTIFIER" /\ outcome = set("Vendor_Identifier", word)
    BY <1>6, <2>1, SMT DEF Device_Write_Property_Local
  <2>3. \A field, x : set(field, x).ok =>
          w.value.tag = "UNSIGNED_INT" /\ set(field, x).table = [device EXCEPT ![field] = x]
    BY <1>2, <1>3, <1>4
  <2>4. ASSUME NEW x
        PROVE  /\ [device EXCEPT !["Apdu_Retries"] = x].Apdu_Retries = x
               /\ [device EXCEPT !["Apdu_Timeout"] = x].Apdu_Timeout = x
               /\ [device EXCEPT !["Vendor_Identifier"] = x].Vendor_Identifier = x
    BY DEF Typed
  <2>. HIDE DEF outcome, set
  <2>5. /\ w.value.tag = "UNSIGNED_INT"
        /\ \/ w.property = "NUMBER_OF_APDU_RETRIES" /\ outcome.table.Apdu_Retries = octet
           \/ w.property = "APDU_TIMEOUT" /\ outcome.table.Apdu_Timeout = word
           \/ w.property = "VENDOR_IDENTIFIER" /\ outcome.table.Vendor_Identifier = word
    <3>1. ASSUME NEW field \in {"Apdu_Retries", "Apdu_Timeout", "Vendor_Identifier"}, NEW x,
                 outcome = set(field, x)
          PROVE  w.value.tag = "UNSIGNED_INT" /\ outcome.table = [device EXCEPT ![field] = x]
      BY <2>3, <3>1, <1>1
    <3>2. CASE w.property = "NUMBER_OF_APDU_RETRIES" /\ outcome = set("Apdu_Retries", octet)
      BY <2>4, <3>1, <3>2
    <3>3. CASE w.property = "APDU_TIMEOUT" /\ outcome = set("Apdu_Timeout", word)
      BY <2>4, <3>1, <3>3
    <3>4. CASE w.property = "VENDOR_IDENTIFIER" /\ outcome = set("Vendor_Identifier", word)
      BY <2>4, <3>1, <3>4
    <3>. QED  BY <2>2, <3>2, <3>3, <3>4
  <2>6. w.value = Unsigned(n)
    BY <2>1, <2>5, WellTagged
  <2>7. /\ w.property = "NUMBER_OF_APDU_RETRIES" => octet = n
        /\ w.property \in {"APDU_TIMEOUT", "VENDOR_IDENTIFIER"} => word = n
    <3>1. /\ n \in Nat
          /\ w.property = "NUMBER_OF_APDU_RETRIES" => n < 256
          /\ w.property \in {"APDU_TIMEOUT", "VENDOR_IDENTIFIER"} => n < 65536
      BY <2>1, <2>5 DEF WellFormed, Fits, Room
    <3>. QED  BY <2>1, <3>1
  <2>. QED  BY <1>6, <2>5, <2>6, <2>7 DEF outcome
<1>7. CASE w.property = "SYSTEM_STATUS"
  <2>1. outcome = Write(device, w, arrays,
                        number("ENUMERATED", SetSystemStatus(device, w.value.datum)))
    BY <1>7, SMT DEF Device_Write_Property_Local
  <2>2. PICK status, result : status = w.value.datum /\ result = SetSystemStatus(device, status)
    OBVIOUS
  <2>3. result.ok => result.table = [device EXCEPT !.System_Status = status]
    BY <2>2, <1>4, SMT DEF SetSystemStatus, Denied, OutOfRange
  <2>. HIDE DEF outcome
  <2>4. w.value.tag = "ENUMERATED" /\ outcome = result /\ result.ok
    BY <2>1, <2>2, <1>2, <1>3, <1>1
  <2>5. [device EXCEPT !.System_Status = status].System_Status = status
    BY DEF Typed
  <2>6. w.value = Enumerated(status)
    BY <2>2, <2>4, WellTagged
  <2>. QED  BY <2>3, <2>4, <2>5, <2>6, <1>7 DEF outcome
<1>8. CASE w.property = "OBJECT_NAME"
  <2>1. PICK name : name = w.value.datum
    OBVIOUS
  <2>2. PICK result :
          result = IF NamedObjects(d, name) = {} THEN Written(Set_Object_Name(device, name))
                   ELSE IF FirstNamed(d, name) = <<"DEVICE", device.Object_Instance_Number>>
                   THEN Written(device)
                   ELSE Denied(device, "PROPERTY", "DUPLICATE_NAME")
    OBVIOUS
  <2>3. PICK room : room = 1470
    OBVIOUS
  <2>4. WriteObjectName(d, w) = ValidateString(device, w.value, room, FALSE, result)
    BY <2>1, <2>2, <2>3, SMT DEF WriteObjectName
  <2>5. outcome = Write(device, w, arrays, WriteObjectName(d, w))
    BY <1>8, SMT DEF Device_Write_Property_Local
  <2>. HIDE DEF outcome
  <2>6. w.value.tag = "CHARACTER_STRING" /\ outcome = result /\ result.ok
    <3>1. ValidateString(device, w.value, room, FALSE, result).ok /\ outcome = WriteObjectName(d, w)
      BY <2>4, <2>5, <1>2, <1>1
    <3>2. /\ w.value.tag = "CHARACTER_STRING"
          /\ ValidateString(device, w.value, room, FALSE, result) = result
      BY <3>1, SMT DEF ValidateString, Denied, OutOfRange, WrongType
    <3>. QED  BY <3>1, <3>2, <2>4
  <2>7. outcome.table.My_Object_Name = name
    <3>1. CASE NamedObjects(d, name) = {}
      BY <2>2, <2>6, <3>1, <1>4, NameAfter
    <3>2. CASE NamedObjects(d, name) # {}
      <4>1. FirstNamed(d, name) = <<"DEVICE", device.Object_Instance_Number>>
        BY <2>2, <2>6, <3>2 DEF Denied
      <4>2. Object_Name(d, "DEVICE", device.Object_Instance_Number) = name
        BY <3>2, <4>1, FirstHasName
      <4>3. device.My_Object_Name = name
        BY <4>2, SMT DEF Object_Name
      <4>. QED  BY <2>2, <2>6, <3>2, <4>1, <4>3, <1>4
    <3>. QED  BY <3>1, <3>2
  <2>8. w.value = Characters(name)
    BY <2>1, <2>6, WellTagged
  <2>. QED  BY <2>7, <2>8, <1>8 DEF outcome
<1>9. CASE w.property \in {"LOCATION", "DESCRIPTION", "MODEL_NAME"}
  <2>1. PICK text : text = w.value.datum
    OBVIOUS
  <2>2. ASSUME NEW field \in {"Location", "Description", "Model_Name"}, NEW maximum,
               Write(device, w, arrays, WriteText(device, w, field, maximum)).ok
        PROVE  /\ w.value = Characters(text)
               /\ Write(device, w, arrays, WriteText(device, w, field, maximum)).table[field] = text
    <3>1. PICK kept : kept = [text EXCEPT !.encoding = "ANSI_X34"]
      OBVIOUS
    <3>2. PICK table : table = [device EXCEPT ![field] = kept]
      OBVIOUS
    <3>3. WriteText(device, w, field, maximum)
            = ValidateString(device, w.value, maximum, TRUE, Written(table))
      BY <2>1, <3>1, <3>2, SMT DEF WriteText
    <3>4. /\ ValidateString(device, w.value, maximum, TRUE, Written(table)).ok
          /\ Write(device, w, arrays, WriteText(device, w, field, maximum))
               = ValidateString(device, w.value, maximum, TRUE, Written(table))
      BY <2>2, <3>3, <1>2
    <3>5. /\ w.value.tag = "CHARACTER_STRING" /\ text.encoding = "ANSI_X34"
          /\ ValidateString(device, w.value, maximum, TRUE, Written(table)) = Written(table)
      BY <2>1, <3>4, SMT DEF ValidateString, Denied, OutOfRange, WrongType
    <3>6. kept = text
      BY <2>1, <3>1, <3>5 DEF WellFormed
    <3>7. table[field] = kept
      BY <3>2 DEF Typed
    <3>8. w.value = Characters(text)
      BY <2>1, <3>5, WellTagged
    <3>. QED  BY <3>4, <3>5, <3>6, <3>7, <3>8, <1>4
  <2>3. \/ w.property = "LOCATION"
             /\ outcome = Write(device, w, arrays, WriteText(device, w, "Location", 64))
        \/ w.property = "DESCRIPTION"
             /\ outcome = Write(device, w, arrays, WriteText(device, w, "Description", 64))
        \/ w.property = "MODEL_NAME"
             /\ outcome = Write(device, w, arrays, WriteText(device, w, "Model_Name", 32))
    BY <1>9, SMT DEF Device_Write_Property_Local
  <2>. HIDE DEF outcome
  <2>4. \/ w.property = "LOCATION" /\ w.value = Characters(outcome.table.Location)
        \/ w.property = "DESCRIPTION" /\ w.value = Characters(outcome.table.Description)
        \/ w.property = "MODEL_NAME" /\ w.value = Characters(outcome.table.Model_Name)
    BY <2>2, <2>3, <1>1
  <2>. QED  BY <2>4 DEF outcome
<1>10. CASE w.property \notin {"OBJECT_IDENTIFIER", "NUMBER_OF_APDU_RETRIES", "APDU_TIMEOUT",
             "VENDOR_IDENTIFIER", "SYSTEM_STATUS", "OBJECT_NAME", "LOCATION", "DESCRIPTION",
             "MODEL_NAME"}
  <2>1. \/ outcome = Write(device, w, arrays, AccessDenied(device))
        \/ outcome = Write(device, w, arrays, UnknownProperty(device))
    BY <1>10, SMT DEF Device_Write_Property_Local
  <2>2. ~ AccessDenied(device).ok /\ ~ UnknownProperty(device).ok
    BY DEF AccessDenied, UnknownProperty, Denied
  <2>. QED  BY <2>1, <2>2, <1>2
<1>. QED  BY <1>5, <1>6, <1>7, <1>8, <1>9, <1>10

\* What an acknowledged write to the device was, is read of it next.
LEMMA DeviceKept ==
  ASSUME NEW d, DatabaseInv(d), NEW i, NEW w, WellFormed(w), Fits("DEVICE", w),
         w.property \notin {"LOCAL_DATE", "LOCAL_TIME"},
         Device_Write_Property(d, "DEVICE", i, w).ok
  PROVE  LET new == Device_Write_Property(d, "DEVICE", i, w).db
         IN  Shown(new, "DEVICE", new.DEVICE.Object_Instance_Number, w.property, w.value)
<1>1. PICK type, new : type = "DEVICE" /\ new = Device_Write_Property(d, type, i, w).db
  OBVIOUS
<1>2. PICK r : r = Device_Write_Property_Local(d, w)
  OBVIOUS
<1>3. Device_Write_Property(d, type, i, w)
        = [ok |-> r.ok, db |-> [d EXCEPT ![type] = r.table], error |-> r.error]
  <2>1. Valid_Object_Id(d, type, i)
    BY <1>1 DEF Device_Write_Property
  <2>2. WriteByType(d, type, i, w) = r
    BY <1>1, <1>2, SMT DEF WriteByType
  <2>. QED  BY <2>1, <2>2 DEF Device_Write_Property
<1>4. r.ok /\ new.DEVICE = r.table
  BY <1>1, <1>3 DEF DatabaseInv
<1>. QED  BY <1>1, <1>2, <1>4, DeviceStores, DeviceObject DEF DatabaseInv

\* What an acknowledged write to any other object was, is read of it next.
LEMMA ObjectKept ==
  ASSUME NEW d, Shaped(d), NEW type \in OtherTypes, NEW i, NEW w, WellFormed(w), Fits(type, w),
         type \notin {"CHARACTERSTRING_VALUE", "ANALOG_VALUE", "SCHEDULE"},
         ~(type \in Commandable /\ w.property = "PRESENT_VALUE"),
         Device_Write_Property(d, type, i, w).ok
  PROVE  Shown(Device_Write_Property(d, type, i, w).db, type, i, w.property, w.value)
BY TypesAre, AnalogInputKept, BinaryInputKept, MultiStateInputKept, AccumulatorKept,
   IntegerValueKept, PositiveIntegerValueKept, LargeAnalogValueKept, AnalogOutputKept,
   BinaryValueKept, BinaryOutputKept, MultiStateOutputKept, MultiStateValueKept, TrendLogKept,
   NetworkPortKept DEF OtherTypes, Commandable

\* An object that is the same in two databases is read the same.
LEMMA ReadAlike ==
  ASSUME NEW d, NEW e, e.DEVICE = d.DEVICE, NEW type, e[type] = d[type], NEW i, NEW p
  PROVE  Device_Read_Property(e, type, i, p, ARRAY_ALL)
           = Device_Read_Property(d, type, i, p, ARRAY_ALL)
<1>1. PICK valid, t : valid = Valid_Object_Id(d, type, i) /\ t = d[type]
  OBVIOUS
<1>2. Valid_Object_Id(e, type, i) = valid
  BY <1>1, SMT DEF Valid_Object_Id
<1>3. Device_Read_Property_Local(e, p, ARRAY_ALL) = Device_Read_Property_Local(d, p, ARRAY_ALL)
  <2>1. PICK device, list : device = d.DEVICE /\ list = Object_List(d)
    OBVIOUS
  <2>2. Object_List(e) = list
    BY <2>1, ListFollows
  <2>3. Device_Properties(e) = Device_Properties(d)
    BY <2>1, <2>2, SMT DEF Device_Properties
  <2>. QED  BY <2>3 DEF Device_Read_Property_Local
<1>. QED  BY <1>1, <1>2, <1>3, SMT DEF Device_Read_Property

\* What a turn's end leaves of schedules and analog values, field by field.
LEMMA LinkFields ==
  ASSUME NEW d, DatabaseInv(d), NEW e, e = Linked(d)
  PROVE  /\ \A i \in Instances :
              /\ e.SCHEDULE[i].Out_Of_Service = d.SCHEDULE[i].Out_Of_Service
              /\ d.SCHEDULE[i].Out_Of_Service => e.SCHEDULE[i] = d.SCHEDULE[i]
              /\ e.ANALOG_VALUE[i].Out_Of_Service = d.ANALOG_VALUE[i].Out_Of_Service
              /\ e.ANALOG_VALUE[i].Units = d.ANALOG_VALUE[i].Units
              /\ \/ i = 0 /\ e.SCHEDULE[0].Present_Value.tag = "REAL"
                 \/ e.ANALOG_VALUE[i].Present_Value = d.ANALOG_VALUE[i].Present_Value
         /\ e.SCHEDULE[0].Present_Value.tag = "REAL" =>
              e.ANALOG_VALUE[0].Present_Value = e.SCHEDULE[0].Present_Value.datum
         /\ d.SCHEDULE[0].Present_Value.tag = "REAL" => e.SCHEDULE[0].Present_Value.tag = "REAL"
<1>1. PICK schedules, values :
        schedules = d.SCHEDULE /\ values = d.ANALOG_VALUE
  OBVIOUS
<1>2. 0 \in Instances
  BY MaxObjectsAssumption DEF Instances
<1>3. ASSUME NEW i \in Instances
      PROVE  /\ i \in DOMAIN schedules /\ i \in DOMAIN values
             /\ {"Present_Value", "Out_Of_Service"} \subseteq DOMAIN schedules[i]
             /\ {"Out_Of_Service", "Units", "Present_Value"} \subseteq DOMAIN values[i]
  <2>1. "SCHEDULE" \in OtherTypes /\ "ANALOG_VALUE" \in OtherTypes
    BY TypesAre DEF OtherTypes
  <2>2. /\ SameShape(schedules, StartedDatabase.SCHEDULE)
        /\ SameShape(values, StartedDatabase.ANALOG_VALUE)
    BY <1>1, <2>1 DEF DatabaseInv, Shaped
  <2>. QED  BY <2>2, StartedFields DEF SameShape
<1>4. /\ e.SCHEDULE = Recalculated(schedules)
      /\ e.ANALOG_VALUE = Applied(values, e.SCHEDULE[0].Present_Value)
  BY <1>1, LinkLeaves
<1>5. Schedule_Default.tag = "REAL"
  BY DEF Schedule_Default, Real
<1>6. /\ \A i \in Instances :
           /\ e.SCHEDULE[i].Out_Of_Service = schedules[i].Out_Of_Service
           /\ schedules[i].Out_Of_Service => e.SCHEDULE[i] = schedules[i]
      /\ schedules[0].Present_Value.tag = "REAL" => e.SCHEDULE[0].Present_Value.tag = "REAL"
  BY <1>2, <1>3, <1>4, <1>5 DEF Recalculated
<1>7. PICK scheduled : scheduled = e.SCHEDULE[0].Present_Value
  OBVIOUS
<1>8. /\ \A i \in Instances :
           /\ e.ANALOG_VALUE[i].Out_Of_Service = values[i].Out_Of_Service
           /\ e.ANALOG_VALUE[i].Units = values[i].Units
           /\ \/ i = 0 /\ scheduled.tag = "REAL"
              \/ e.ANALOG_VALUE[i].Present_Value = values[i].Present_Value
      /\ scheduled.tag = "REAL" => e.ANALOG_VALUE[0].Present_Value = scheduled.datum
  BY <1>2, <1>3, <1>4, <1>7 DEF Applied
<1>. QED  BY <1>1, <1>6, <1>7, <1>8

\* What the last request's access is known to have left: just after the request what was
\* written, and from the end of the turn on the schedule's value where that was copied.
Holds(access) ==
  LET i == access.instance  w == access.write
  IN  CASE access.type = "SCHEDULE" ->
             i \in Instances /\ ScheduleHolds(db.SCHEDULE[i], w)
        [] access.type = "ANALOG_VALUE" ->
             /\ i \in Instances
             /\ IF turn = "receive" /\ Scheduled(access)
                THEN db.ANALOG_VALUE[0].Present_Value = db.SCHEDULE[0].Present_Value.datum
                ELSE ValueHolds(db.ANALOG_VALUE[i], w)
        [] OTHER -> access.type \in Range(ObjectTypes) /\ ReadNow(access) = <<w.value>>

Asked(outcome) ==
  outcome.reply = SimpleAck /\ outcome.access # NoAccess /\ Kept_As_Written(outcome.access)

HoldInv == Asked(last) => Holds(last.access)

\* Just after a request what was written is what is stored.
LEMMA RequestHolds ==
  ASSUME BaseInv, WriteProperty, Asked(last')
  PROVE  Holds(last.access)'
<1>0. turn' = "link"
  BY DEF WriteProperty, Received
<1>1. PICK access \in Accesses[under], segmented \in BOOLEAN :
        LET result == handler_write_property(db, access, segmented)
        IN  /\ db' = result.db
            /\ last' = [Outcome("WRITE_PROPERTY", segmented, result.reply)
                          EXCEPT !.access = IF result.reply = SimpleAck THEN access ELSE @]
  BY Zenon DEF WriteProperty
<1>. DEFINE result == handler_write_property(db, access, segmented)
<1>2. result.reply = SimpleAck /\ last'.access = access /\ Kept_As_Written(access)
  BY <1>1 DEF Outcome, Asked
<1>3. PICK type, i, w : type = access.type /\ i = access.instance /\ w = access.write
  OBVIOUS
<1>4. /\ type \in Range(ObjectTypes) /\ WellFormed(w)
      /\ type # "CHARACTERSTRING_VALUE" /\ w.property \notin {"LOCAL_DATE", "LOCAL_TIME"}
      /\ ~(type \in Commandable /\ w.property = "PRESENT_VALUE") /\ Fits(type, w)
  BY <1>1, <1>2, <1>3, ServerAssumption DEF BaseInv, Concerns, Kept_As_Written
<1>5. /\ db' = Device_Write_Property(db, type, i, w).db
      /\ Device_Write_Property(db, type, i, w).ok
  BY <1>1, <1>2, <1>3, SMT DEF handler_write_property, SEGMENTATION_NOT_SUPPORTED, Abort,
     Error, Reply, SimpleAck
<1>6. Shaped(db) /\ DatabaseInv(db)
  BY DEF BaseInv, DatabaseInv
<1>7. CASE type = "SCHEDULE"
  <2>1. i \in Instances /\ ScheduleHolds(db'.SCHEDULE[i], w)
    BY <1>4, <1>5, <1>6, <1>7, ScheduleObjectKept
  <2>. QED  BY <1>2, <1>3, <1>7, <2>1 DEF Holds
<1>8. CASE type = "ANALOG_VALUE"
  <2>1. i \in Instances /\ ValueHolds(db'.ANALOG_VALUE[i], w)
    BY <1>4, <1>5, <1>6, <1>8, AnalogValueKept
  <2>. QED  BY <1>0, <1>2, <1>3, <1>8, <2>1 DEF Holds
<1>9. CASE type \notin {"SCHEDULE", "ANALOG_VALUE"}
  <2>1. CASE type = "DEVICE"
    <3>1. Shown(db', type, db'.DEVICE.Object_Instance_Number, w.property, w.value)
      BY <1>4, <1>5, <1>6, <2>1, DeviceKept
    <3>. QED  BY <1>2, <1>3, <1>4, <2>1, <3>1 DEF Holds, ReadNow, Shown
  <2>2. CASE type # "DEVICE"
    <3>1. Shown(db', type, i, w.property, w.value)
      BY <1>4, <1>5, <1>6, <1>9, <2>2, ObjectKept DEF OtherTypes
    <3>. QED  BY <1>2, <1>3, <1>4, <1>9, <2>2, <3>1 DEF Holds, ReadNow, Shown
  <2>. QED  BY <2>1, <2>2
<1>. QED  BY <1>7, <1>8, <1>9

\* The end of a turn copies the schedule's value and leaves the rest.
LEMMA LinkHolds ==
  ASSUME BaseInv, Link, NEW access, Holds(access)
  PROVE  Holds(access)'
<1>1. db' = Linked(db) /\ turn' = "receive" /\ DatabaseInv(db)
  BY DEF Link, BaseInv
<1>2. PICK i, w : i = access.instance /\ w = access.write
  OBVIOUS
<1>3. CASE access.type = "SCHEDULE"
  <2>1. i \in Instances /\ ScheduleHolds(db.SCHEDULE[i], w)
    BY <1>2, <1>3 DEF Holds
  <2>2. ScheduleHolds(db'.SCHEDULE[i], w)
    BY <1>1, <2>1, LinkFields DEF ScheduleHolds
  <2>. QED  BY <1>2, <1>3, <2>1, <2>2 DEF Holds
<1>4. CASE access.type = "ANALOG_VALUE"
  <2>1. /\ i \in Instances
        /\ ~ Scheduled(access) => ValueHolds(db.ANALOG_VALUE[i], w)
        /\ w.property # "PRESENT_VALUE" \/ i # 0 => ~ Scheduled(access) /\ ~ Scheduled(access)'
    BY <1>2, <1>4 DEF Holds, Scheduled
  <2>2. CASE Scheduled(access)'
    <3>1. db'.SCHEDULE[0].Present_Value.tag = "REAL"
      BY <2>2 DEF Scheduled
    <3>2. db'.ANALOG_VALUE[0].Present_Value = db'.SCHEDULE[0].Present_Value.datum
      BY <1>1, <3>1, LinkFields
    <3>. QED  BY <1>1, <1>2, <1>4, <2>1, <2>2, <3>2 DEF Holds
  <2>3. CASE ~ Scheduled(access)'
    <3>1. ~ Scheduled(access)
      BY <1>1, <2>3, LinkFields DEF Scheduled
    <3>2. ValueHolds(db'.ANALOG_VALUE[i], w)
      <4>1. w.property = "PRESENT_VALUE" => ~(i = 0 /\ db'.SCHEDULE[0].Present_Value.tag = "REAL")
        BY <1>2, <1>4, <2>3 DEF Scheduled
      <4>. QED  BY <1>1, <2>1, <3>1, <4>1, LinkFields DEF ValueHolds
    <3>. QED  BY <1>2, <1>4, <2>1, <2>3, <3>2 DEF Holds
  <2>. QED  BY <2>2, <2>3
<1>5. CASE access.type \notin {"SCHEDULE", "ANALOG_VALUE"}
  <2>1. db'.DEVICE = db.DEVICE /\ db'[access.type] = db[access.type]
    <3>1. access.type \in DOMAIN db
      <4>1. access.type \in Range(ObjectTypes)
        BY <1>5 DEF Holds
      <4>. QED  BY <1>1, <4>1 DEF DatabaseInv, Shaped, OtherTypes
    <3>. QED  BY <1>1, <1>5, <3>1, LinkLeaves
  <2>2. ReadNow(access) = <<w.value>>
    BY <1>2, <1>5 DEF Holds
  <2>3. ReadNow(access)' = ReadNow(access)
    BY <2>1, ReadAlike DEF ReadNow
  <2>. QED  BY <1>2, <1>5, <2>2, <2>3 DEF Holds
<1>. QED  BY <1>3, <1>4, <1>5

LEMMA HoldsWhenRead ==
  ASSUME HoldInv
  PROVE  WrittenIsRead
<1>. SUFFICES ASSUME NEW access, access = last.access, turn = "receive", Holds(access)
              PROVE  ReadNow(access) = <<Expected(access)>>
  BY DEF WrittenIsRead, HoldInv, Asked
<1>1. PICK i, w : i = access.instance /\ w = access.write
  OBVIOUS
<1>2. CASE access.type = "SCHEDULE"
  <2>1. i \in Instances /\ ScheduleHolds(db.SCHEDULE[i], w)
    BY <1>1, <1>2 DEF Holds
  <2>2. Shown(db, "SCHEDULE", i, w.property, w.value)
    BY <2>1, ScheduleObject DEF ScheduleHolds, SCH_Instances
  <2>. QED  BY <1>1, <1>2, <2>2 DEF Shown, ReadNow, Expected, Scheduled
<1>3. CASE access.type = "ANALOG_VALUE"
  <2>1. CASE Scheduled(access)
    <3>1. /\ i = 0 /\ i \in Instances /\ w.property = "PRESENT_VALUE"
          /\ db.ANALOG_VALUE[0].Present_Value = db.SCHEDULE[0].Present_Value.datum
      BY <1>1, <1>3, <2>1 DEF Holds, Scheduled
    <3>2. Shown(db, "ANALOG_VALUE", i, w.property, Real(db.SCHEDULE[0].Present_Value.datum))
      BY <3>1, AnalogValue
    <3>. QED  BY <1>1, <1>3, <2>1, <3>2 DEF Shown, ReadNow, Expected
  <2>2. CASE ~ Scheduled(access)
    <3>1. i \in Instances /\ ValueHolds(db.ANALOG_VALUE[i], w)
      BY <1>1, <1>3, <2>2 DEF Holds
    <3>2. Shown(db, "ANALOG_VALUE", i, w.property, w.value)
      BY <3>1, AnalogValue DEF ValueHolds
    <3>. QED  BY <1>1, <1>3, <2>2, <3>2 DEF Shown, ReadNow, Expected
  <2>. QED  BY <2>1, <2>2
<1>4. CASE access.type \notin {"SCHEDULE", "ANALOG_VALUE"}
  BY <1>4 DEF Holds, Expected, Scheduled
<1>. QED  BY <1>2, <1>3, <1>4

\* What a WriteProperty acknowledged (h_wp.c, Device_Write_Property of device.c and the
\* Write_Property function of the type) is what ReadProperty answers in the turns that follow,
\* but for analog value 0 while the schedule has a REAL, which is the schedule's.
THEOREM WritesAreRead == Spec => []WrittenIsRead
<1>1. Init => HoldInv
  BY DEF Init, Outcome, HoldInv, Asked
<1>2. ASSUME BaseInv, [Next]_vars, HoldInv PROVE HoldInv'
  <2>1. CASE UNCHANGED vars
    BY <1>2, <2>1 DEF vars, HoldInv, Holds, ReadNow, Scheduled
  <2>2. CASE last'.access = NoAccess
    BY <2>2 DEF HoldInv, Asked
  <2>3. CASE WriteProperty
    BY <1>2, <2>3, RequestHolds DEF HoldInv
  <2>4. CASE Link
    <3>1. last' = last
      BY <2>4 DEF Link
    <3>2. PICK access : access = last.access
      OBVIOUS
    <3>3. Asked(last) => Holds(access)
      BY <1>2, <3>2 DEF HoldInv
    <3>4. Asked(last) => Holds(access)'
      BY <1>2, <2>4, <3>3, LinkHolds
    <3>. QED  BY <3>1, <3>2, <3>4 DEF HoldInv
  <2>5. CASE Next /\ ~ WriteProperty /\ ~ Link
    <3>1. \A service, segmented, reply : Outcome(service, segmented, reply).access = NoAccess
      BY DEF Outcome
    <3>2. WritePropertyMultiple \/ SegmentedWritePropertyMultiple => last'.access = NoAccess
      BY <3>1 DEF WritePropertyMultiple, SegmentedWritePropertyMultiple
    <3>3. ReadProperty \/ ReadPropertyMultiple \/ WhoHas => last'.access = NoAccess
      BY <3>1, Zenon DEF ReadProperty, ReadPropertyMultiple, WhoHas, Answered
    <3>4. DeviceCommunicationControl \/ ReinitializeDevice => last'.access = NoAccess
      <4>1. DeviceCommunicationControl =>
              \E service, segmented, reply : last' = Outcome(service, segmented, reply)
        BY Zenon DEF DeviceCommunicationControl
      <4>2. ReinitializeDevice =>
              \E service, segmented, reply : last' = Outcome(service, segmented, reply)
        BY Zenon DEF ReinitializeDevice
      <4>. QED  BY <3>1, <4>1, <4>2
    <3>5. TurnedAway => last'.access = NoAccess
      BY <3>1, Zenon DEF TurnedAway
    <3>6. Timer => last'.access = NoAccess
      BY <3>1, Zenon DEF Timer
    <3>7. Pulses => last'.access = NoAccess
      <4>1. Pulses => last' = Outcome("NONE", FALSE, NoReply)
        BY Zenon DEF Pulses
      <4>. QED  BY <3>1, <4>1
    <3>8. AddRecord => last'.access = NoAccess
      <4>1. AddRecord => last' = Outcome("NONE", FALSE, NoReply)
        BY Zenon DEF AddRecord
      <4>. QED  BY <3>1, <4>1
    <3>9. last'.access = NoAccess
      BY <2>5, <3>2, <3>3, <3>4, <3>5, <3>6, <3>7, <3>8 DEF Next
    <3>. QED  BY <2>2, <3>9
  <2>. QED  BY <1>2, <2>1, <2>3, <2>4, <2>5
<1>. QED  BY <1>1, <1>2, BaseCorrect, HoldsWhenRead, PTL DEF Spec

\* A request that a handler refuses, aborts or rejects leaves every object and the
\* communication state as they were: h_wp.c, h_dcc.c, h_rd.c and each Write_Property function.
THEOREM RefusedIsUndone == Spec => RefusalLeavesNoTrace
<1>. DEFINE A == /\ turn' = "link"
                 /\ last'.reply.pdu \in {"ERROR", "ABORT", "REJECT"}
                 /\ last'.service # "WRITE_PROP_MULTIPLE"
                 => db' = db /\ dcc' = dcc
<1>1. ASSUME BaseInv, Next, turn' = "link", last'.reply.pdu \in {"ERROR", "ABORT", "REJECT"},
             last'.service # "WRITE_PROP_MULTIPLE"
      PROVE  db' = db /\ dcc' = dcc
  <2>1. CASE WriteProperty
    <3>1. PICK access \in Accesses[under], segmented \in BOOLEAN :
            /\ db' = handler_write_property(db, access, segmented).db
            /\ last'.reply = handler_write_property(db, access, segmented).reply
            /\ dcc' = dcc
      BY <2>1 DEF WriteProperty, Outcome
    <3>2. PICK result :
            result = Device_Write_Property(db, access.type, access.instance, access.write)
      OBVIOUS
    <3>3. result.ok \in BOOLEAN /\ (~ result.ok => result.db = db)
      BY <1>1, <3>2, WriteOutcome DEF BaseInv, DatabaseInv, Kept
    <3>4. handler_write_property(db, access, segmented) =
            IF segmented THEN [db |-> db, reply |-> SEGMENTATION_NOT_SUPPORTED]
            ELSE IF ~ access.decodes THEN [db |-> db, reply |-> Abort("OTHER")]
            ELSE [db |-> result.db, reply |-> IF result.ok THEN SimpleAck ELSE Error(result.error)]
      BY <3>2, SMT DEF handler_write_property
    <3>5. SimpleAck.pdu = "SIMPLE_ACK"
      BY DEF SimpleAck, Reply
    <3>. QED  BY <1>1, <3>1, <3>3, <3>4, <3>5
  <2>2. CASE WritePropertyMultiple \/ SegmentedWritePropertyMultiple
    <3>1. \E segmented, reply : last' = Outcome("WRITE_PROP_MULTIPLE", segmented, reply)
      BY <2>2, Zenon DEF WritePropertyMultiple, SegmentedWritePropertyMultiple
    <3>. QED  BY <1>1, <3>1 DEF Outcome
  <2>3. CASE ReadProperty \/ ReadPropertyMultiple \/ WhoHas \/ TurnedAway
    BY <2>3 DEF ReadProperty, ReadPropertyMultiple, WhoHas, TurnedAway
  <2>4. CASE DeviceCommunicationControl
    <3>1. PICK request, segmented :
            LET result == handler_device_communication_control(dcc, request, segmented)
            IN  /\ db' = db /\ dcc' = result.dcc
                /\ last' = Outcome("DEVICE_COMMUNICATION_CONTROL", FALSE, result.reply)
      BY <2>4, Zenon DEF DeviceCommunicationControl
    <3>. QED
      BY <1>1, <3>1, SMT DEF handler_device_communication_control, SimpleAck, Reply, Outcome
  <2>5. CASE ReinitializeDevice
    <3>1. PICK request, segmented :
            LET result == handler_reinitialize_device(dcc, request, segmented)
            IN  /\ db' = db /\ dcc' = result.dcc
                /\ last' = Outcome("REINITIALIZE_DEVICE", FALSE, result.reply)
      BY <2>5, Zenon DEF ReinitializeDevice
    <3>. QED
      BY <1>1, <3>1, SMT DEF handler_reinitialize_device, Device_Reinitialize, SimpleAck,
         Reply, Outcome
  <2>6. CASE Timer \/ AddRecord \/ Pulses
    BY <1>1, <2>6 DEF Timer, AddRecord, Pulses, Outcome, NoReply, Reply
  <2>7. CASE Link
    BY <1>1, <2>7 DEF Link
  <2>. QED  BY <1>1, <2>1, <2>2, <2>3, <2>4, <2>5, <2>6, <2>7 DEF Next
<1>2. BaseInv /\ [Next]_vars => [A]_vars
  BY <1>1
<1>3. RefusalLeavesNoTrace <=> [][A]_vars
  BY DEF RefusalLeavesNoTrace
<1>. HIDE DEF A
<1>. QED  BY <1>2, <1>3, BaseCorrect, PTL DEF Spec
-----------------------------------------------------------------------------
(***************************************************************************)
(* The priority arrays follow what was promised.                           *)
(***************************************************************************)
Data(type) ==
  CASE type = "ANALOG_OUTPUT" -> 0 .. 200
    [] type \in {"BINARY_VALUE", "BINARY_OUTPUT"} -> {0, 1}
    [] type \in {"MULTI_STATE_OUTPUT", "MULTI_STATE_VALUE"} -> States

\* A level as it is kept: an analog output cuts halves.
Stored(type, x) == IF type = "ANALOG_OUTPUT" /\ x # NULL THEN x \div 2 ELSE x

Agree(type, table, promised) ==
  /\ promised \in [Instances -> [Priorities -> Data(type) \cup {NULL}]]
  /\ DOMAIN table = Instances
  /\ \A i \in Instances :
       /\ "Level" \in DOMAIN table[i]
       /\ table[i].Level = [p \in Priorities |-> Stored(type, promised[i][p])]

\* A command takes promise and priority array to the same level.
LEMMA CommandAgrees ==
  ASSUME NEW type, NEW table, NEW promised, Agree(type, table, promised),
         NEW i \in Instances, NEW priority \in Priorities, NEW x \in Data(type) \cup {NULL}
  PROVE  Agree(type, [table EXCEPT ![i].Level[priority] = Stored(type, x)],
                     [promised EXCEPT ![i][priority] = x])
<1>. DEFINE t == [table EXCEPT ![i].Level[priority] = Stored(type, x)]
            q == [promised EXCEPT ![i][priority] = x]
<1>1. q \in [Instances -> [Priorities -> Data(type) \cup {NULL}]]
  BY DEF Agree
<1>2. DOMAIN t = Instances
  BY DEF Agree
<1>3. ASSUME NEW j \in Instances
      PROVE  /\ "Level" \in DOMAIN t[j]
             /\ t[j].Level = [p \in Priorities |-> Stored(type, q[j][p])]
  BY ZenonT(60) DEF Agree
<1>. QED  BY <1>1, <1>2, <1>3 DEF Agree

\* Writing Out_Of_Service leaves the priority arrays alone.
LEMMA ServiceAgrees ==
  ASSUME NEW type, NEW table, NEW promised, Agree(type, table, promised),
         NEW i \in Instances, NEW x
  PROVE  Agree(type, [table EXCEPT ![i].Out_Of_Service = x], promised)
BY DEF Agree

\* What an accepted write of a commandable object does.
Commands(type, table, i, w, result) ==
  LET x == IF w.value.tag = "NULL" THEN NULL ELSE w.value.datum
  IN  /\ w.property = "PRESENT_VALUE"
      /\ w.priority \in Priorities /\ x \in Data(type) \cup {NULL}
      /\ result = Command(table, i, w.priority, Stored(type, x))

Serves(table, i, w, result) ==
  /\ w.property = "OUT_OF_SERVICE"
  /\ result = Written([table EXCEPT ![i].Out_Of_Service = w.value.datum])

\* A Write_Property function of a commandable type commands one level, or none.
LEMMA WritesOfCommandable ==
  ASSUME NEW table, NEW i, NEW w
  PROVE  LET ao  == AO_Write_Property(table, i, w)
             bv  == BV_Write_Property(table, i, w)
             bo  == BO_Write_Property(table, i, w)
             mso == MSO_Write_Property(table, i, w)
             msv == MSV_Write_Property(table, i, w)
         IN  /\ ao.ok => Commands("ANALOG_OUTPUT", table, i, w, ao) \/ Serves(table, i, w, ao)
             /\ bv.ok => Commands("BINARY_VALUE", table, i, w, bv) \/ Serves(table, i, w, bv)
             /\ bo.ok => Commands("BINARY_OUTPUT", table, i, w, bo) \/ Serves(table, i, w, bo)
             /\ mso.ok =>
                  Commands("MULTI_STATE_OUTPUT", table, i, w, mso) \/ Serves(table, i, w, mso)
             /\ msv.ok =>
                  Commands("MULTI_STATE_VALUE", table, i, w, msv) \/ Serves(table, i, w, msv)
<1>. DEFINE x == IF w.value.tag = "NULL" THEN NULL ELSE w.value.datum
<1>1. \A class, code : ~ Denied(table, class, code).ok
  BY DEF Denied
<1>2. PICK service : service = WriteOutOfService(table, i, w)
  OBVIOUS
<1>3. service.ok => service = Written([table EXCEPT ![i].Out_Of_Service = w.value.datum])
  BY <1>1, <1>2 DEF WriteOutOfService, ValidateArgType, WrongType
<1>. USE DEF Write, ValidateArgType, AccessDenied, OutOfRange, UnknownProperty, WrongType
<1>4. ASSUME NEW ao, ao = AO_Write_Property(table, i, w), ao.ok
      PROVE  Commands("ANALOG_OUTPUT", table, i, w, ao) \/ Serves(table, i, w, ao)
  <2>1. \/ /\ w.property = "PRESENT_VALUE" /\ w.value.tag = "REAL"
           /\ w.priority \in Priorities /\ w.value.datum \in 0 .. 200
           /\ ao = Command(table, i, w.priority, w.value.datum \div 2)
        \/ /\ w.property = "PRESENT_VALUE" /\ w.value.tag = "NULL"
           /\ w.priority \in Priorities
           /\ ao = Command(table, i, w.priority, NULL)
        \/ w.property = "OUT_OF_SERVICE" /\ ao = service
    BY <1>1, <1>2, <1>4, SMT DEF AO_Write_Property, AO_Present_Value_Set,
       AO_Present_Value_Relinquish
  <2>. QED  BY SMTT(40), <1>3, <1>4, <2>1 DEF Commands, Serves, Data, Stored, NULL
<1>5. ASSUME NEW b, b = BV_Write_Property(table, i, w) \/ b = BO_Write_Property(table, i, w), b.ok
      PROVE  /\ Commands("BINARY_VALUE", table, i, w, b) \/ Serves(table, i, w, b)
             /\ Commands("BINARY_OUTPUT", table, i, w, b) \/ Serves(table, i, w, b)
  <2>1. \/ w.property = "PRESENT_VALUE" /\ b = WriteBinary(table, i, w)
        \/ w.property = "OUT_OF_SERVICE" /\ b = service
    BY <1>1, <1>2, <1>5, SMT DEF BV_Write_Property, BO_Write_Property
  <2>2. b = WriteBinary(table, i, w) =>
          \/ /\ w.value.tag = "ENUMERATED"
             /\ w.priority \in Priorities /\ w.value.datum \in {0, 1}
             /\ b = Command(table, i, w.priority, w.value.datum)
          \/ /\ w.value.tag = "NULL" /\ w.priority \in Priorities
             /\ b = Command(table, i, w.priority, NULL)
    BY <1>1, <1>5, SMT DEF WriteBinary
  <2>. QED  BY <1>3, <1>5, <2>1, <2>2 DEF Commands, Serves, Data, Stored, NULL
<1>6. ASSUME NEW m, m = WriteMultiState(table, i, w), m.ok
      PROVE  /\ Commands("MULTI_STATE_OUTPUT", table, i, w, m) \/ Serves(table, i, w, m)
             /\ Commands("MULTI_STATE_VALUE", table, i, w, m) \/ Serves(table, i, w, m)
  <2>1. \/ /\ w.property = "PRESENT_VALUE" /\ w.value.tag = "UNSIGNED_INT"
           /\ w.priority \in Priorities /\ w.value.datum \in States
           /\ m = Command(table, i, w.priority, w.value.datum)
        \/ /\ w.property = "PRESENT_VALUE" /\ w.value.tag = "NULL"
           /\ w.priority \in Priorities
           /\ m = Command(table, i, w.priority, NULL)
        \/ w.property = "OUT_OF_SERVICE" /\ m = service
    BY <1>1, <1>2, <1>6, SMT DEF WriteMultiState
  <2>. QED  BY <1>3, <1>6, <2>1 DEF Commands, Serves, Data, Stored, NULL
<1>. QED  BY <1>4, <1>5, <1>6 DEF MSO_Write_Property, MSV_Write_Property

Commanded(type, d, promised) == type \in DOMAIN d /\ Agree(type, d[type], promised)

\* Promise and priority array agree after any write to a commandable object.
LEMMA WriteAgrees ==
  ASSUME NEW type \in Commandable, NEW d, IsFunction(d), NEW promised,
         Commanded(type, d, promised), NEW access, access.type = type,
         NEW result,
         result = Device_Write_Property(d, access.type, access.instance, access.write)
  PROVE  IF result.ok THEN Commanded(type, result.db, Promise(promised, access))
         ELSE result.db = d
<1>1. CASE ~ result.ok
  BY <1>1, WriteOutcome DEF Kept
<1>2. CASE result.ok
  <2>. DEFINE i == access.instance
              w == access.write
              x == IF w.value.tag = "NULL" THEN NULL ELSE w.value.datum
  <2>1. Valid_Object_Id(d, type, i)
    BY <1>2 DEF Device_Write_Property
  <2>2. i \in Instances
    BY <2>1, SMT DEF Valid_Object_Id, Valid_Instances, Commandable, AO_Instances, BV_Instances,
       BO_Instances, MSO_Instances, MSV_Instances
  <2>3. PICK r : r = WriteByType(d, type, i, w)
    OBVIOUS
  <2>4. result = [ok |-> r.ok, db |-> [d EXCEPT ![type] = r.table], error |-> r.error]
    BY <2>1, <2>3 DEF Device_Write_Property
  <2>5. Commands(type, d[type], i, w, r) \/ Serves(d[type], i, w, r)
    <3>1. r.ok
      BY <1>2, <2>4
    <3>2. PICK table : table = d[type]
      OBVIOUS
    <3>3. \/ type = "ANALOG_OUTPUT" /\ r = AO_Write_Property(table, i, w)
          \/ type = "BINARY_VALUE" /\ r = BV_Write_Property(table, i, w)
          \/ type = "BINARY_OUTPUT" /\ r = BO_Write_Property(table, i, w)
          \/ type = "MULTI_STATE_OUTPUT" /\ r = MSO_Write_Property(table, i, w)
          \/ type = "MULTI_STATE_VALUE" /\ r = MSV_Write_Property(table, i, w)
      BY <2>3, <3>2, SMT DEF WriteByType, Commandable
    <3>. QED  BY <3>1, <3>2, <3>3, WritesOfCommandable
  <2>6. Agree(type, r.table, Promise(promised, access))
    <3>1. CASE Commands(type, d[type], i, w, r)
      <4>1. Promise(promised, access) = [promised EXCEPT ![i][w.priority] = x]
        BY <3>1 DEF Promise, Commands
      <4>2. r.table = [d[type] EXCEPT ![i].Level[w.priority] = Stored(type, x)]
        BY <3>1 DEF Commands, Command, Written
      <4>3. w.priority \in Priorities /\ x \in Data(type) \cup {NULL}
        BY <3>1 DEF Commands
      <4>4. PICK table, y, priority : table = d[type] /\ y = x /\ priority = w.priority
        OBVIOUS
      <4>5. Agree(type, [table EXCEPT ![i].Level[priority] = Stored(type, y)],
                        [promised EXCEPT ![i][priority] = y])
        BY <2>2, <4>3, <4>4, CommandAgrees DEF Commanded
      <4>. QED  BY <4>1, <4>2, <4>4, <4>5
    <3>2. CASE Serves(d[type], i, w, r)
      <4>1. r.table = [d[type] EXCEPT ![i].Out_Of_Service = w.value.datum]
        BY <3>2 DEF Serves, Written
      <4>. QED  BY <2>2, <3>2, <4>1, ServiceAgrees DEF Commanded, Promise, Serves
    <3>. QED  BY <2>5, <3>1, <3>2
  <2>7. [d EXCEPT ![type] = r.table][type] = r.table
    BY DEF Commanded
  <2>. QED  BY <1>2, <2>4, <2>6, <2>7 DEF Commanded
<1>. QED  BY <1>1, <1>2

\* What a request promises is promised access by access.
LEMMA PromisedTurns ==
  ASSUME NEW accesses, NEW number \in Nat, under \in Commandable
  PROVE  \E q : /\ q[0] = commands
                /\ \A n \in 1 .. number : q[n] = Promise(q[n - 1], accesses[n])
                /\ Promised(accesses, number) = q[number]
<1>. DEFINE IsUpTo(g, n) ==
              g = [m \in 0 .. n |-> IF m = 0 THEN commands ELSE Promise(g[m - 1], accesses[m])]
            S == {n \in 0 .. number : \E g : IsUpTo(g, n)}
<1>1. 0 \in S
  <2>1. IsUpTo([m \in 0 .. 0 |-> commands], 0)
    OBVIOUS
  <2>. HIDE DEF IsUpTo
  <2>. QED  BY <2>1
<1>2. ASSUME NEW n \in S, n < number
      PROVE  n + 1 \in S
  <2>1. PICK g : IsUpTo(g, n)
    BY <1>2
  <2>2. PICK h : h = [m \in 0 .. n + 1 |->
                        IF m = n + 1 THEN Promise(g[n], accesses[n + 1]) ELSE g[m]]
    OBVIOUS
  <2>3. \A m \in 0 .. n + 1 :
          h[m] = IF m = 0 THEN commands ELSE Promise(h[m - 1], accesses[m])
    BY <2>1, <2>2
  <2>4. h = [m \in 0 .. n + 1 |-> h[m]]
    BY <2>2
  <2>5. IsUpTo(h, n + 1)
    BY <2>3, <2>4
  <2>. HIDE DEF IsUpTo
  <2>. QED  BY <1>2, <2>5
<1>3. S = 0 .. number
  <2>. HIDE DEF S
  <2>. QED  BY <1>1, <1>2, StepByStep, S \in SUBSET (0 .. number) DEF S
<1>4. \E g : IsUpTo(g, number)
  <2>1. number \in S
    BY SMTT(40), <1>3
  <2>. HIDE DEF IsUpTo
  <2>. QED  BY <2>1
<1>5. PICK q : q = CHOOSE g : IsUpTo(g, number)
  OBVIOUS
<1>6. Promised(accesses, number) = q[number]
  BY <1>5 DEF Promised
<1>7. IsUpTo(q, number)
  BY <1>4, <1>5
<1>8. /\ q[0] = commands
      /\ \A n \in 1 .. number : q[n] = Promise(q[n - 1], accesses[n])
  BY <1>7
<1>. QED  BY <1>6, <1>8

\* The turns of the loop: they come to a halt at the first access that fails.
Loop(P, d, accesses, L) ==
  /\ P[0] = [db |-> d, reply |-> SimpleAck]
  /\ \A n \in 1 .. L : P[n] = wpm_step(P[n - 1], accesses[n])

\* The first k accesses succeed and the next, if there is one, does not.
Halts(P, L, k) ==
  /\ k \in 0 .. L
  /\ \A n \in 0 .. k : P[n].reply = SimpleAck
  /\ k < L => P[k + 1].reply # SimpleAck /\ P[L] = P[k + 1]

ToldApart(accesses, L) ==
  /\ L = Len(accesses) /\ DOMAIN accesses = 1 .. L
  /\ \A m, n \in 1 .. L : Names(accesses[m]) = Names(accesses[n]) => m = n

\* Each turn of a loop yields a database and a reply.
LEMMA LoopShape ==
  ASSUME NEW L \in Nat, NEW P, NEW d, NEW accesses, Loop(P, d, accesses, L)
  PROVE  \A n \in 0 .. L : P[n] = [db |-> P[n].db, reply |-> P[n].reply]
<1>. DEFINE S == {n \in 0 .. L : P[n] = [db |-> P[n].db, reply |-> P[n].reply]}
<1>1. 0 \in S
  BY DEF Loop
<1>2. ASSUME NEW n \in S, n < L
      PROVE  n + 1 \in S
  <2>1. n + 1 \in 1 .. L /\ n + 1 \in 0 .. L /\ (n + 1) - 1 = n
    BY <1>2
  <2>2. PICK p, access, next : p = P[n] /\ access = accesses[n + 1] /\ next = P[n + 1]
    OBVIOUS
  <2>3. next = wpm_step(p, access) /\ p = [db |-> p.db, reply |-> p.reply]
    BY <2>1, <2>2 DEF Loop
  <2>4. next = [db |-> next.db, reply |-> next.reply]
    <3>1. PICK result :
            result = Device_Write_Property(p.db, access.type, access.instance, access.write)
      OBVIOUS
    <3>2. \/ next = p
          \/ next = [db |-> p.db, reply |-> Reject("INVALID_TAG")]
          \/ next = [db |-> result.db, reply |-> SimpleAck]
          \/ next = [db |-> result.db, reply |-> Error(<<result.error, Names(access)>>)]
      BY <2>3, <3>1, Turn
    <3>. QED  BY <2>3, <3>2
  <2>. QED  BY <2>1, <2>2, <2>4
<1>3. S = 0 .. L
  <2>. HIDE DEF S
  <2>. QED  BY <1>1, <1>2, StepByStep, S \in SUBSET (0 .. L) DEF S
<1>. QED  BY <1>3

\* A loop comes to its end, or to a first turn that fails, after which nothing changes.
LEMMA LoopStops ==
  ASSUME NEW L \in Nat, NEW P, NEW d, NEW accesses, Loop(P, d, accesses, L)
  PROVE  \E k : Halts(P, L, k)
<1>. DEFINE failed == {n \in 0 .. L : P[n].reply # SimpleAck}
<1>1. CASE failed = {}
  <2>1. Halts(P, L, L)
    BY <1>1 DEF Halts
  <2>. QED  BY <2>1
<1>2. CASE failed # {}
  <2>1. PICK m \in failed : \A n \in failed : m <= n
    <3>1. failed \in SUBSET Nat
      OBVIOUS
    <3>. HIDE DEF failed
    <3>. QED  BY <1>2, <3>1, LeastOfNat
  <2>2. m \in 0 .. L /\ m # 0 /\ P[m].reply # SimpleAck
    BY <2>1 DEF Loop
  <2>3. \A n \in 0 .. m - 1 : P[n].reply = SimpleAck
    BY <2>1, <2>2
  <2>. DEFINE S == {n \in 0 .. L : n >= m => P[n] = P[m]}
  <2>4. 0 \in S
    BY <2>2
  <2>5. ASSUME NEW n \in S, n < L
        PROVE  n + 1 \in S
    <3>1. n + 1 \in 1 .. L /\ n + 1 \in 0 .. L /\ (n + 1) - 1 = n
      BY <2>5
    <3>2. CASE n >= m
      <4>1. P[n + 1] = wpm_step(P[n], accesses[n + 1])
        BY <3>1 DEF Loop
      <4>2. P[n] = P[m]
        BY <3>2
      <4>3. P[n + 1] = P[n]
        BY <2>2, <4>1, <4>2 DEF wpm_step
      <4>. QED  BY <3>1, <4>2, <4>3
    <3>3. CASE ~ n >= m
      <4>1. n + 1 >= m => n + 1 = m
        BY <2>2, <3>3
      <4>. QED  BY <3>1, <4>1
    <3>. QED  BY <3>2, <3>3
  <2>6. S = 0 .. L
    <3>. HIDE DEF S
    <3>. QED  BY <2>4, <2>5, StepByStep, S \in SUBSET (0 .. L) DEF S
  <2>7. P[L] = P[m]
    BY <2>2, <2>6
  <2>8. m - 1 \in 0 .. L /\ m - 1 < L /\ (m - 1) + 1 = m
    BY <2>2
  <2>9. Halts(P, L, m - 1)
    BY <2>2, <2>3, <2>7, <2>8 DEF Halts
  <2>. QED  BY <2>9
<1>. QED  BY <1>1, <1>2

\* What a turn tells of the write it made.
LEMMA LoopTurn ==
  ASSUME NEW L \in Nat, NEW P, NEW d, NEW accesses, Loop(P, d, accesses, L),
         NEW n \in 0 .. L, n < L, P[n].reply = SimpleAck,
         NEW access, access = accesses[n + 1], NEW result,
         result = Device_Write_Property(P[n].db, access.type, access.instance, access.write)
  PROVE  \/ /\ access.decodes /\ result.ok
            /\ P[n + 1] = [db |-> result.db, reply |-> SimpleAck]
         \/ /\ ~ access.decodes
            /\ P[n + 1] = [db |-> P[n].db, reply |-> Reject("INVALID_TAG")]
         \/ /\ access.decodes /\ ~ result.ok
            /\ P[n + 1] = [db |-> result.db, reply |-> Error(<<result.error, Names(access)>>)]
<1>1. n + 1 \in 1 .. L /\ (n + 1) - 1 = n
  OBVIOUS
<1>2. PICK p, next : p = P[n] /\ next = P[n + 1]
  OBVIOUS
<1>3. next = wpm_step(p, access)
  BY <1>1, <1>2 DEF Loop
<1>4. p = [db |-> p.db, reply |-> p.reply]
  BY <1>2, LoopShape
<1>. QED  BY <1>2, <1>3, <1>4, Turn

\* A turn that goes on has written what it was asked.
LEMMA LoopGoesOn ==
  ASSUME NEW L \in Nat, NEW P, NEW d, NEW accesses, Loop(P, d, accesses, L),
         NEW n \in 0 .. L, n < L, P[n].reply = SimpleAck, P[n + 1].reply = SimpleAck,
         NEW access, access = accesses[n + 1], NEW result,
         result = Device_Write_Property(P[n].db, access.type, access.instance, access.write)
  PROVE  access.decodes /\ result.ok /\ P[n + 1].db = result.db
<1>1. Reject("INVALID_TAG") # SimpleAck /\ \A e : Error(e) # SimpleAck
  BY DEF Reject, Error, SimpleAck, Reply
<1>2. \/ /\ access.decodes /\ result.ok
         /\ P[n + 1] = [db |-> result.db, reply |-> SimpleAck]
      \/ /\ ~ access.decodes
         /\ P[n + 1] = [db |-> P[n].db, reply |-> Reject("INVALID_TAG")]
      \/ /\ access.decodes /\ ~ result.ok
         /\ P[n + 1] = [db |-> result.db, reply |-> Error(<<result.error, Names(access)>>)]
  BY LoopTurn
<1>. QED  BY <1>1, <1>2

\* A turn that ends the loop could not be decoded, or was refused.
LEMMA LoopHalts ==
  ASSUME NEW L \in Nat, NEW P, NEW d, NEW accesses, Loop(P, d, accesses, L),
         NEW n \in 0 .. L, n < L, P[n].reply = SimpleAck, P[n + 1].reply # SimpleAck,
         NEW access, access = accesses[n + 1], NEW result,
         result = Device_Write_Property(P[n].db, access.type, access.instance, access.write)
  PROVE  \/ /\ ~ access.decodes
            /\ P[n + 1] = [db |-> P[n].db, reply |-> Reject("INVALID_TAG")]
         \/ /\ ~ result.ok
            /\ P[n + 1] = [db |-> result.db, reply |-> Error(<<result.error, Names(access)>>)]
<1>1. \/ /\ access.decodes /\ result.ok
         /\ P[n + 1] = [db |-> result.db, reply |-> SimpleAck]
      \/ /\ ~ access.decodes
         /\ P[n + 1] = [db |-> P[n].db, reply |-> Reject("INVALID_TAG")]
      \/ /\ access.decodes /\ ~ result.ok
         /\ P[n + 1] = [db |-> result.db, reply |-> Error(<<result.error, Names(access)>>)]
  BY LoopTurn
<1>. QED  BY <1>1

\* What the reply says was carried out is what was.
LEMMA CarriedOut ==
  ASSUME NEW accesses, NEW L \in Nat, ToldApart(accesses, L),
         NEW P, NEW d, Loop(P, d, accesses, L), NEW k, Halts(P, L, k)
  PROVE  Carried(accesses, P[L].reply) = k
<1>. USE DEF Halts, ToldApart
<1>1. CASE k = L
  BY <1>1 DEF Carried
<1>2. CASE k < L
  <2>1. PICK access, result :
          /\ access = accesses[k + 1]
          /\ result = Device_Write_Property(P[k].db, access.type, access.instance, access.write)
    OBVIOUS
  <2>2. P[k].reply = SimpleAck /\ P[k + 1].reply # SimpleAck
    BY <1>2
  <2>3. \/ ~ access.decodes /\ P[k + 1].reply = Reject("INVALID_TAG")
        \/ P[k + 1].reply = Error(<<result.error, Names(access)>>)
    <3>1. k \in 0 .. L /\ k < L
      BY <1>2
    <3>2. \/ /\ ~ access.decodes
             /\ P[k + 1] = [db |-> P[k].db, reply |-> Reject("INVALID_TAG")]
          \/ /\ ~ result.ok
             /\ P[k + 1] = [db |-> result.db, reply |-> Error(<<result.error, Names(access)>>)]
      BY <3>1, <2>1, <2>2, LoopHalts
    <3>. QED  BY <3>2
  <2>4. \A n \in 1 .. k : accesses[n].decodes
    <3>. SUFFICES ASSUME NEW n \in 1 .. k PROVE accesses[n].decodes
      OBVIOUS
    <3>1. /\ n - 1 \in 0 .. L /\ n - 1 < L /\ (n - 1) + 1 = n
          /\ P[n - 1].reply = SimpleAck /\ P[n].reply = SimpleAck
      OBVIOUS
    <3>2. PICK m, b, w : /\ m = n - 1 /\ b = accesses[m + 1]
                         /\ w = Device_Write_Property(P[m].db, b.type, b.instance, b.write)
      OBVIOUS
    <3>3. m \in 0 .. L /\ m < L /\ P[m].reply = SimpleAck /\ P[m + 1].reply = SimpleAck
      BY <3>1, <3>2
    <3>4. b.decodes /\ w.ok /\ P[m + 1].db = w.db
      BY <3>2, <3>3, LoopGoesOn
    <3>. QED  BY <3>1, <3>2, <3>4
  <2>5. PICK reply : reply = P[L].reply
    OBVIOUS
  <2>6. CASE reply = Reject("INVALID_TAG") /\ ~ access.decodes
    <3>1. reply.pdu = "REJECT" /\ reply # SimpleAck
      BY <2>6 DEF Reject, SimpleAck, Reply
    <3>2. PICK x : x = Min({n \in DOMAIN accesses : ~ accesses[n].decodes})
      OBVIOUS
    <3>3. x = k + 1
      BY <1>2, <2>1, <2>4, <2>6, <3>2 DEF Min
    <3>4. Carried(accesses, reply) = x - 1
      BY <3>1, <3>2 DEF Carried
    <3>. QED  BY <2>5, <3>3, <3>4
  <2>7. CASE reply = Error(<<result.error, Names(access)>>)
    <3>1. reply.pdu = "ERROR" /\ reply # SimpleAck /\ reply.detail[2] = Names(access)
      BY <2>7 DEF Error, SimpleAck, Reply
    <3>2. {n \in DOMAIN accesses : Names(access) = Names(accesses[n])} = {k + 1}
      BY <1>2, <2>1
    <3>3. Carried(accesses, reply)
            = Min({n \in DOMAIN accesses : Names(access) = Names(accesses[n])}) - 1
      BY <3>1 DEF Carried
    <3>4. Min({k + 1}) = k + 1
      BY DEF Min
    <3>5. Carried(accesses, reply) = (k + 1) - 1
      BY <3>2, <3>3, <3>4
    <3>. QED  BY <2>5, <3>5
  <2>. QED  BY <1>2, <2>3, <2>5, <2>6, <2>7
<1>. QED  BY <1>1, <1>2

\* As far as the loop came without failing, promises and priority arrays agree.
LEMMA PrefixAgrees ==
  ASSUME NEW accesses, NEW L \in Nat, NEW type \in Commandable,
         \A n \in 1 .. L : accesses[n].type = type,
         NEW P, NEW d, Loop(P, d, accesses, L), NEW k, Halts(P, L, k),
         \A n \in 0 .. L : IsFunction(P[n].db),
         NEW q, \A n \in 1 .. k : q[n] = Promise(q[n - 1], accesses[n]),
         Commanded(type, d, q[0])
  PROVE  Commanded(type, P[k].db, q[k])
<1>. USE DEF Halts
<1>. DEFINE S == {n \in 0 .. k : Commanded(type, P[n].db, q[n])}
<1>1. 0 \in S
  BY DEF Loop
<1>2. ASSUME NEW n \in S, n < k
      PROVE  n + 1 \in S
  <2>1. /\ n \in 0 .. k /\ n \in 0 .. L /\ n < L /\ n + 1 \in 1 .. L
        /\ n + 1 \in 1 .. k /\ n + 1 \in 0 .. k /\ (n + 1) - 1 = n
    BY <1>2
  <2>2. PICK access, result, e :
          /\ access = accesses[n + 1] /\ e = P[n].db
          /\ result = Device_Write_Property(P[n].db, access.type, access.instance, access.write)
    OBVIOUS
  <2>3. result.ok /\ P[n + 1].db = result.db
    <3>1. P[n].reply = SimpleAck /\ P[n + 1].reply = SimpleAck
      BY <2>1
    <3>2. access.decodes /\ result.ok /\ P[n + 1].db = result.db
      BY <2>1, <2>2, <3>1, LoopGoesOn
    <3>. QED  BY <3>2
  <2>4. Commanded(type, e, q[n]) /\ IsFunction(e) /\ access.type = type
    BY <2>1, <2>2
  <2>5. Commanded(type, result.db, Promise(q[n], access))
    BY <2>2, <2>3, <2>4, WriteAgrees
  <2>6. q[n + 1] = Promise(q[n], access)
    BY <2>1, <2>2
  <2>. QED  BY <2>1, <2>3, <2>5, <2>6
<1>3. S = 0 .. k
  <2>1. k \in Nat /\ S \in SUBSET (0 .. k)
    OBVIOUS
  <2>. HIDE DEF S, Halts
  <2>. QED  BY <1>1, <1>2, <2>1, StepByStep
<1>. QED  BY <1>3

\* Promise and priority array agree after a WritePropertyMultiple, also one broken off.
LEMMA MultipleAgrees ==
  ASSUME DatabaseInv(db), under \in UnderTest, under \in Commandable,
         Commanded(under, db, commands), NEW accesses \in Pairs[under],
         NEW result, result = Progress(db, accesses)[Len(accesses)]
  PROVE  Commanded(under, result.db, Promised(accesses, Carried(accesses, result.reply)))
<1>1. PICK L, P : L = Len(accesses) /\ P = Progress(db, accesses)
  OBVIOUS
<1>2. /\ L \in Nat /\ DOMAIN accesses = 1 .. L
      /\ \A n \in 1 .. L : accesses[n].type = under
      /\ \A m, n \in 1 .. L : Names(accesses[m]) = Names(accesses[n]) => m = n
  BY <1>1, ServerAssumption DEF Concerns
<1>3. Loop(P, db, accesses, L)
  <2>1. Len(accesses) \in Nat
    BY <1>1, <1>2
  <2>2. Loop(Progress(db, accesses), db, accesses, Len(accesses))
    BY <2>1, ProgressTurns DEF Loop
  <2>. QED  BY <1>1, <2>2
<1>4. \A n \in 0 .. L : IsFunction(P[n].db)
  BY <1>1, <1>2, ProgressKeeps DEF DatabaseInv
<1>5. PICK k : Halts(P, L, k)
  BY <1>2, <1>3, LoopStops
<1>6. k \in Nat
  BY <1>2, <1>5 DEF Halts
<1>7. PICK q : /\ q[0] = commands
               /\ \A n \in 1 .. k : q[n] = Promise(q[n - 1], accesses[n])
               /\ Promised(accesses, k) = q[k]
  BY <1>6, PromisedTurns
<1>8. Commanded(under, P[k].db, q[k])
  <2>1. Commanded(under, db, q[0])
    BY <1>7
  <2>. QED  BY <1>2, <1>3, <1>4, <1>5, <1>7, <2>1, PrefixAgrees
<1>9. Carried(accesses, P[L].reply) = k
  <2>1. ToldApart(accesses, L)
    BY <1>1, <1>2 DEF ToldApart
  <2>. QED  BY <1>2, <1>3, <1>5, <2>1, CarriedOut
<1>10. P[L].db = P[k].db
  <2>1. CASE k = L
    BY <2>1
  <2>2. CASE k < L
    <3>1. PICK access, write, e :
            /\ access = accesses[k + 1] /\ e = P[k].db
            /\ write = Device_Write_Property(P[k].db, access.type, access.instance,
                                             access.write)
      OBVIOUS
    <3>2. /\ k \in 0 .. L /\ P[k].reply = SimpleAck
          /\ P[k + 1].reply # SimpleAck /\ P[L] = P[k + 1]
      BY <1>2, <1>5, <1>6, <2>2 DEF Halts
    <3>3. \/ /\ ~ access.decodes
             /\ P[k + 1] = [db |-> P[k].db, reply |-> Reject("INVALID_TAG")]
          \/ /\ ~ write.ok
             /\ P[k + 1] = [db |-> write.db,
                            reply |-> Error(<<write.error, Names(access)>>)]
      BY <1>2, <1>3, <2>2, <3>1, <3>2, LoopHalts
    <3>4. IsFunction(e)
      BY <1>4, <3>1, <3>2
    <3>5. ~ write.ok => write.db = e
      BY <3>1, <3>4, WriteOutcome DEF Kept
    <3>. QED  BY <3>1, <3>2, <3>3, <3>5
  <2>. QED  BY <1>2, <1>5, <2>1, <2>2 DEF Halts
<1>. QED  BY <1>1, <1>7, <1>8, <1>9, <1>10 DEF Commanded

\* While the objects of a commandable type are asked, promises and priority arrays agree.
CommandInv == BaseInv /\ (under \in Commandable => Commanded(under, db, commands))

LEMMA CommandInductive ==
  /\ Init => CommandInv
  /\ CommandInv /\ [Next]_vars => CommandInv'
<1>1. ASSUME Init PROVE CommandInv
  <2>1. BaseInv
    BY <1>1, BaseInductive
  <2>2. ASSUME under \in Commandable
        PROVE  /\ under \in DOMAIN db
               /\ db[under] = [i \in Instances |-> [Level |-> NoLevels, Out_Of_Service |-> FALSE]]
    <3>1. PICK table : table = [i \in Instances |-> [Level |-> NoLevels, Out_Of_Service |-> FALSE]]
      OBVIOUS
    <3>2. PICK a0, a1, a2, a3, a4, a5, a6, a7, a8, a9, b1, b2, b3 :
            db = [DEVICE |-> a0, ANALOG_INPUT |-> a1, ANALOG_OUTPUT |-> table,
                  ANALOG_VALUE |-> a2, BINARY_INPUT |-> a3, BINARY_OUTPUT |-> table,
                  BINARY_VALUE |-> table, MULTI_STATE_INPUT |-> a4,
                  MULTI_STATE_OUTPUT |-> table, MULTI_STATE_VALUE |-> table,
                  INTEGER_VALUE |-> a5, POSITIVE_INTEGER_VALUE |-> a6,
                  CHARACTERSTRING_VALUE |-> a7, LARGE_ANALOG_VALUE |-> a8,
                  TREND_LOG |-> a9, ACCUMULATOR |-> b1, NETWORK_PORT |-> b2,
                  SCHEDULE |-> b3]
      BY <1>1, <3>1, ZenonT(60) DEF Init, StartedDatabase, AO_Init, BV_Init, BO_Init, MSO_Init, MSV_Init
    <3>3. under \in DOMAIN db /\ db[under] = table
      BY <2>2, <3>2 DEF Commandable
    <3>. QED  BY <3>1, <3>3
  <2>3. commands = [i \in Instances |-> [p \in Priorities |-> NULL]]
    BY <1>1 DEF Init, NoLevels
  <2>4. ASSUME under \in Commandable PROVE Agree(under, db[under], commands)
    <3>1. \A i \in Instances :
            /\ "Level" \in DOMAIN db[under][i]
            /\ db[under][i].Level = [p \in Priorities |-> NULL]
      BY <2>2, <2>4 DEF NoLevels
    <3>2. \A i \in Instances, p \in Priorities : Stored(under, commands[i][p]) = NULL
      BY <2>3 DEF Stored
    <3>3. DOMAIN db[under] = Instances
      BY <2>2, <2>4
    <3>. QED  BY <2>3, <3>1, <3>2, <3>3 DEF Agree
  <2>. QED  BY <2>1, <2>2, <2>4 DEF CommandInv, Commanded
<1>2. ASSUME CommandInv, [Next]_vars PROVE CommandInv'
  <2>1. BaseInv' /\ under' = under
    <3>1. under' = under
      BY <1>2 DEF Next, vars, WriteProperty, WritePropertyMultiple,
         SegmentedWritePropertyMultiple, ReadProperty, ReadPropertyMultiple, WhoHas, TurnedAway,
         DeviceCommunicationControl, ReinitializeDevice, Timer, AddRecord, Pulses, Link
    <3>. QED  BY <1>2, <3>1, BaseInductive DEF CommandInv
  <2>. SUFFICES ASSUME under \in Commandable PROVE Commanded(under, db', commands')
    BY <2>1 DEF CommandInv
  <2>2. under \in UnderTest /\ DatabaseInv(db) /\ IsFunction(db) /\ Commanded(under, db, commands)
    BY <1>2 DEF CommandInv, BaseInv, DatabaseInv
  <2>3. CASE db' = db /\ commands' = commands
    BY <2>2, <2>3
  <2>4. CASE WriteProperty
    <3>1. PICK access, segmented, outcome :
            /\ access \in Accesses[under]
            /\ outcome = handler_write_property(db, access, segmented)
            /\ db' = outcome.db
            /\ commands' = Promised(<<access>>, IF outcome.reply = SimpleAck THEN 1 ELSE 0)
      BY <2>4 DEF WriteProperty
    <3>2. PICK result :
            result = Device_Write_Property(db, access.type, access.instance, access.write)
      OBVIOUS
    <3>3. /\ access.type = under
          /\ IF result.ok THEN Commanded(under, result.db, Promise(commands, access))
             ELSE result.db = db
      <4>1. access.type = under
        BY <2>2, <3>1, ServerAssumption DEF Concerns
      <4>. QED  BY <2>2, <3>2, <4>1, WriteAgrees
    <3>4. Promised(<<access>>, 0) = commands /\ Promised(<<access>>, 1) = Promise(commands, access)
      <4>1. PICK b : b = <<access>>
        OBVIOUS
      <4>2. Promised(b, 0) = commands
        BY PromisedTurns
      <4>3. Promised(b, 1) = Promise(commands, b[1])
        <5>1. PICK q : /\ q[0] = commands
                       /\ \A n \in 1 .. 1 : q[n] = Promise(q[n - 1], b[n])
                       /\ Promised(b, 1) = q[1]
          BY PromisedTurns
        <5>. QED  BY <5>1
      <4>. QED  BY <4>1, <4>2, <4>3
    <3>5. \/ outcome.db = db /\ outcome.reply # SimpleAck
          \/ outcome.db = result.db /\ result.ok /\ outcome.reply = SimpleAck
          \/ outcome.db = result.db /\ ~ result.ok /\ outcome.reply # SimpleAck
      <4>1. /\ SEGMENTATION_NOT_SUPPORTED # SimpleAck /\ Abort("OTHER") # SimpleAck
            /\ \A e : Error(e) # SimpleAck
        BY DEF SEGMENTATION_NOT_SUPPORTED, Abort, Error, SimpleAck, Reply
      <4>2. outcome = IF segmented THEN [db |-> db, reply |-> SEGMENTATION_NOT_SUPPORTED]
                      ELSE IF ~ access.decodes THEN [db |-> db, reply |-> Abort("OTHER")]
                      ELSE [db |-> result.db,
                            reply |-> IF result.ok THEN SimpleAck ELSE Error(result.error)]
        BY <3>1, <3>2, SMT DEF handler_write_property
      <4>3. \/ outcome = [db |-> db, reply |-> SEGMENTATION_NOT_SUPPORTED]
            \/ outcome = [db |-> db, reply |-> Abort("OTHER")]
            \/ result.ok /\ outcome = [db |-> result.db, reply |-> SimpleAck]
            \/ ~ result.ok /\ outcome = [db |-> result.db, reply |-> Error(result.error)]
        BY <4>2
      <4>. QED  BY <4>1, <4>3
    <3>. QED  BY <2>2, <3>1, <3>3, <3>4, <3>5
  <2>5. CASE WritePropertyMultiple
    <3>1. PICK accesses, outcome :
            /\ accesses \in Pairs[under]
            /\ outcome = handler_write_property_multiple(db, accesses, FALSE)
            /\ db' = outcome.db
            /\ commands' = Promised(accesses, Carried(accesses, outcome.reply))
      BY <2>5, Zenon DEF WritePropertyMultiple
    <3>2. outcome = Progress(db, accesses)[Len(accesses)]
      BY <3>1, Zenon DEF handler_write_property_multiple, Progress
    <3>. QED  BY <2>2, <3>1, <3>2, MultipleAgrees
  <2>6. CASE SegmentedWritePropertyMultiple
    BY <2>3, <2>6 DEF SegmentedWritePropertyMultiple, handler_write_property_multiple
  <2>7. CASE AddRecord \/ Pulses
    BY <2>7 DEF AddRecord, Pulses, Commandable
  <2>8. CASE ReadProperty \/ ReadPropertyMultiple \/ WhoHas \/ TurnedAway \/ Timer
             \/ DeviceCommunicationControl \/ ReinitializeDevice
    BY <2>3, <2>8 DEF ReadProperty, ReadPropertyMultiple, WhoHas, TurnedAway, Timer,
       DeviceCommunicationControl, ReinitializeDevice
  <2>9. CASE UNCHANGED vars
    BY <2>3, <2>9 DEF vars
  <2>10. CASE Link
    <3>1. db' = Linked(db) /\ commands' = commands
      BY <2>10 DEF Link
    <3>2. db'[under] = db[under] /\ DOMAIN db' = DOMAIN db
      <4>1. under \in OtherTypes /\ under \notin {"SCHEDULE", "ANALOG_VALUE"}
        BY TypesAre DEF OtherTypes, Commandable
      <4>2. under \in DOMAIN db
        BY <2>2, <4>1 DEF DatabaseInv, Shaped
      <4>. QED  BY <2>2, <3>1, <4>1, <4>2, LinkLeaves
    <3>. QED  BY <2>2, <3>1, <3>2 DEF Commanded
  <2>. QED  BY <1>2, <2>4, <2>5, <2>6, <2>7, <2>8, <2>9, <2>10 DEF Next
<1>. QED  BY <1>1, <1>2

LEMMA CommandCorrect == Spec => []CommandInv
BY CommandInductive, PTL DEF Spec

-----------------------------------------------------------------------------
\* What reading a property of one value returns: the object's own case goes before the common one.
LEMMA ReadOne ==
  ASSUME NEW type, NEW i, NEW flag, NEW own, NEW p, NEW v,
         p \in DOMAIN own, own[p] = One(v)
  PROVE  Read(ObjectProperties(type, i, flag, own), p, ARRAY_ALL).data[1] = v
<1>1. PICK cases : cases = ObjectProperties(type, i, flag, own)
  OBVIOUS
<1>2. p \in DOMAIN cases /\ cases[p] = own[p]
  BY <1>1 DEF ObjectProperties
<1>3. Read(cases, p, ARRAY_ALL) = Answer(Whole(One(v)))
  BY <1>2 DEF Read
<1>4. Whole(One(v)) = <<v>>
  <2>1. PICK seqs : seqs = <<<<v>>>>
    OBVIOUS
  <2>. DEFINE IsFlat(f) == f = [n \in 1 .. Len(seqs) |-> IF n = 1 THEN seqs[n]
                                                         ELSE f[n - 1] \o seqs[n]]
  <2>2. Len(seqs) = 1 /\ seqs[1] = <<v>>
    BY <2>1
  <2>3. IsFlat([n \in 1 .. 1 |-> <<v>>])
    BY <2>2
  <2>4. PICK f : f = CHOOSE g : IsFlat(g)
    OBVIOUS
  <2>5. IsFlat(f)
    <3>. HIDE DEF IsFlat
    <3>. QED  BY <2>3, <2>4
  <2>6. f[1] = <<v>>
    BY <2>2, <2>5
  <2>7. FlattenSeq(seqs) = f[Len(seqs)]
    BY <2>2, <2>4 DEF FlattenSeq
  <2>. QED  BY <2>1, <2>2, <2>6, <2>7 DEF Whole, One
<1>. QED  BY <1>1, <1>3, <1>4 DEF Answer

\* What each commandable type says its present value is.
LEMMA PresentValueRead ==
  ASSUME NEW type \in Commandable, NEW i \in Instances
  PROVE  LET value == Highest(db[type][i].Level, RelinquishDefault(type))
         IN  PresentValue(type, i) = IF type = "ANALOG_OUTPUT" THEN 2 * value ELSE value
<1>1. Valid_Object_Id(db, type, i)
  BY SMT DEF Valid_Object_Id, Valid_Instances, Commandable, AO_Instances, BV_Instances,
     BO_Instances, MSO_Instances, MSV_Instances
<1>2. PICK t, value : t = db[type] /\ value = Highest(db[type][i].Level, RelinquishDefault(type))
  OBVIOUS
<1>3. PICK p : p = "PRESENT_VALUE"
  OBVIOUS
<1>. USE DEF RelinquishDefault
<1>4. CASE type = "ANALOG_OUTPUT"
  <2>1. AO_Read_Property(t, i, p, ARRAY_ALL).data[1] = Real(2 * value)
    <3>1. PICK v, flag : v = Real(2 * value) /\ flag = t[i].Out_Of_Service
      OBVIOUS
    <3>2. PICK own : own =
            [PRESENT_VALUE      |-> One(v),
             UNITS              |-> One(Enumerated(PERCENT)),
             PRIORITY_ARRAY     |-> Array(LevelElements(t[i].Level, LAMBDA x : Real(2 * x))),
             RELINQUISH_DEFAULT |-> One(Real(2 * AO_RELINQUISH_DEFAULT))]
      OBVIOUS
    <3>3. p \in DOMAIN own /\ own[p] = One(v)
      BY <1>3, <3>1, <3>2
    <3>4. AO_Read_Property(t, i, p, ARRAY_ALL)
            = Read(ObjectProperties("ANALOG_OUTPUT", i, flag, own), p, ARRAY_ALL)
      BY <1>2, <1>3, <3>1, <3>2, <1>4 DEF AO_Read_Property, AO_Present_Value, AO_RELINQUISH_DEFAULT
    <3>5. Read(ObjectProperties("ANALOG_OUTPUT", i, flag, own), p, ARRAY_ALL)
            .data[1] = v
      BY <3>3, ReadOne
    <3>. QED  BY <3>1, <3>4, <3>5
  <2>2. Device_Read_Property(db, type, i, p, ARRAY_ALL) = AO_Read_Property(t, i, p, ARRAY_ALL)
    BY <1>1, <1>2, <1>4, SMT DEF Device_Read_Property
  <2>. QED  BY <1>2, <1>3, <1>4, <2>1, <2>2 DEF PresentValue, Real
<1>5. CASE type = "BINARY_VALUE"
  <2>1. BV_Read_Property(t, i, p, ARRAY_ALL).data[1] = Enumerated(value)
    <3>1. PICK v, flag : v = Enumerated(value) /\ flag = t[i].Out_Of_Service
      OBVIOUS
    <3>2. PICK own : own =
            [PRESENT_VALUE      |-> One(v),
             PRIORITY_ARRAY     |-> Array(LevelElements(t[i].Level, Enumerated)),
             RELINQUISH_DEFAULT |-> One(Enumerated(INACTIVE))]
      OBVIOUS
    <3>3. p \in DOMAIN own /\ own[p] = One(v)
      BY <1>3, <3>1, <3>2
    <3>4. BV_Read_Property(t, i, p, ARRAY_ALL)
            = Read(ObjectProperties("BINARY_VALUE", i, flag, own), p, ARRAY_ALL)
      BY <1>2, <1>3, <3>1, <3>2, <1>5 DEF BV_Read_Property, BV_Present_Value, INACTIVE,
         Priorities, ARRAY_ALL
    <3>5. Read(ObjectProperties("BINARY_VALUE", i, flag, own), p, ARRAY_ALL)
            .data[1] = v
      BY <3>3, ReadOne
    <3>. QED  BY <3>1, <3>4, <3>5
  <2>2. Device_Read_Property(db, type, i, p, ARRAY_ALL) = BV_Read_Property(t, i, p, ARRAY_ALL)
    BY <1>1, <1>2, <1>5, SMT DEF Device_Read_Property
  <2>. QED  BY <1>2, <1>3, <1>5, <2>1, <2>2 DEF PresentValue, Enumerated
<1>6. CASE type = "BINARY_OUTPUT"
  <2>1. BO_Read_Property(t, i, p, ARRAY_ALL).data[1] = Enumerated(value)
    <3>1. PICK v, flag : v = Enumerated(value) /\ flag = t[i].Out_Of_Service
      OBVIOUS
    <3>2. PICK own : own =
            [STATUS_FLAGS       |-> One(Flags(FALSE)),
             PRESENT_VALUE      |-> One(v),
             POLARITY           |-> One(Enumerated("NORMAL")),
             ACTIVE_TEXT        |-> One(Characters(Ansi("on", 0))),
             INACTIVE_TEXT      |-> One(Characters(Ansi("off", 0))),
             PRIORITY_ARRAY     |-> Array(LevelElements(t[i].Level, Enumerated)),
             RELINQUISH_DEFAULT |-> One(Enumerated(INACTIVE))]
      OBVIOUS
    <3>3. p \in DOMAIN own /\ own[p] = One(v)
      BY <1>3, <3>1, <3>2
    <3>4. BO_Read_Property(t, i, p, ARRAY_ALL)
            = Read(ObjectProperties("BINARY_OUTPUT", i, flag, own), p, ARRAY_ALL)
      BY <1>2, <1>3, <3>1, <3>2, <1>6 DEF BO_Read_Property, BO_Present_Value, INACTIVE
    <3>5. Read(ObjectProperties("BINARY_OUTPUT", i, flag, own), p, ARRAY_ALL)
            .data[1] = v
      BY <3>3, ReadOne
    <3>. QED  BY <3>1, <3>4, <3>5
  <2>2. Device_Read_Property(db, type, i, p, ARRAY_ALL) = BO_Read_Property(t, i, p, ARRAY_ALL)
    BY <1>1, <1>2, <1>6, SMT DEF Device_Read_Property
  <2>. QED  BY <1>2, <1>3, <1>6, <2>1, <2>2 DEF PresentValue, Enumerated
<1>7. CASE type = "MULTI_STATE_OUTPUT"
  <2>1. MSO_Read_Property(t, i, p, ARRAY_ALL).data[1] = Unsigned(value)
    <3>1. PICK v, flag : v = Unsigned(value) /\ flag = t[i].Out_Of_Service
      OBVIOUS
    <3>2. PICK own : own =
            [PRESENT_VALUE      |-> One(v),
             NUMBER_OF_STATES   |-> One(Unsigned(Cardinality(States))),
             PRIORITY_ARRAY     |-> Array(LevelElements(t[i].Level, Unsigned)),
             RELINQUISH_DEFAULT |-> One(Unsigned(1))]
      OBVIOUS
    <3>3. p \in DOMAIN own /\ own[p] = One(v)
      BY <1>3, <3>1, <3>2
    <3>4. MSO_Read_Property(t, i, p, ARRAY_ALL)
            = Read(ObjectProperties("MULTI_STATE_OUTPUT", i, flag, own),
                   p, ARRAY_ALL)
      BY <1>2, <1>3, <3>1, <3>2, <1>7 DEF MSO_Read_Property, MultiState, MSO_Present_Value
    <3>5. Read(ObjectProperties("MULTI_STATE_OUTPUT", i, flag, own), p, ARRAY_ALL)
            .data[1] = v
      BY <3>3, ReadOne
    <3>. QED  BY <3>1, <3>4, <3>5
  <2>2. Device_Read_Property(db, type, i, p, ARRAY_ALL) = MSO_Read_Property(t, i, p, ARRAY_ALL)
    BY <1>1, <1>2, <1>7, SMT DEF Device_Read_Property
  <2>. QED  BY <1>2, <1>3, <1>7, <2>1, <2>2 DEF PresentValue, Unsigned
<1>8. CASE type = "MULTI_STATE_VALUE"
  <2>1. MSV_Read_Property(t, i, p, ARRAY_ALL).data[1] = Unsigned(value)
    <3>1. PICK v, flag : v = Unsigned(value) /\ flag = t[i].Out_Of_Service
      OBVIOUS
    <3>2. PICK own : own =
            [PRESENT_VALUE      |-> One(v),
             NUMBER_OF_STATES   |-> One(Unsigned(Cardinality(States))),
             PRIORITY_ARRAY     |-> Array(LevelElements(t[i].Level, Unsigned)),
             RELINQUISH_DEFAULT |-> One(Unsigned(1))]
      OBVIOUS
    <3>3. p \in DOMAIN own /\ own[p] = One(v)
      BY <1>3, <3>1, <3>2
    <3>4. MSV_Read_Property(t, i, p, ARRAY_ALL)
            = Read(ObjectProperties("MULTI_STATE_VALUE", i, flag, own),
                   p, ARRAY_ALL)
      BY <1>2, <1>3, <3>1, <3>2, <1>8 DEF MSV_Read_Property, MultiState, MSV_Present_Value
    <3>5. Read(ObjectProperties("MULTI_STATE_VALUE", i, flag, own), p, ARRAY_ALL)
            .data[1] = v
      BY <3>3, ReadOne
    <3>. QED  BY <3>1, <3>4, <3>5
  <2>2. Device_Read_Property(db, type, i, p, ARRAY_ALL) = MSV_Read_Property(t, i, p, ARRAY_ALL)
    BY <1>1, <1>2, <1>8, SMT DEF Device_Read_Property
  <2>. QED  BY <1>2, <1>3, <1>8, <2>1, <2>2 DEF PresentValue, Unsigned
<1>. QED  BY <1>4, <1>5, <1>6, <1>7, <1>8 DEF Commandable

\* The present value of a commandable object is the acknowledged command of the highest
\* priority, whatever was commanded, relinquished, refused or broken off: the Present_Value and
\* Write_Property functions of ao.c, bv.c, bo.c, mso.c and msv.c, and h_wpm.c.
THEOREM CommandsShow == Spec => []PresentValueIsCommanded
<1>1. CommandInv => PresentValueIsCommanded
  <2>. SUFFICES ASSUME CommandInv, under \in Commandable, NEW i \in Instances
                PROVE  LET active   == {p \in Priorities : commands[i][p] # NULL}
                           promised == IF active = {} THEN RelinquishDefault(under)
                                       ELSE commands[i][Min(active)]
                       IN  PresentValue(under, i) =
                             IF under = "ANALOG_OUTPUT" THEN promised - (promised % 2)
                             ELSE promised
    BY Zenon DEF PresentValueIsCommanded
  <2>1. PICK levels, active, default :
          /\ levels = commands[i] /\ default = RelinquishDefault(under)
          /\ active = {p \in Priorities : levels[p] # NULL}
    OBVIOUS
  <2>2. /\ levels \in [Priorities -> Data(under) \cup {NULL}]
        /\ db[under][i].Level = [p \in Priorities |-> Stored(under, levels[p])]
    BY <2>1 DEF CommandInv, Commanded, Agree
  <2>3. PICK kept : kept = db[under][i].Level
    OBVIOUS
  <2>4. \A p \in Priorities : /\ kept[p] = Stored(under, levels[p])
                              /\ kept[p] = NULL <=> levels[p] = NULL
    BY <2>2, <2>3 DEF Stored, Data, NULL
  <2>5. {p \in Priorities : kept[p] # NULL} = active
    BY <2>1, <2>4
  <2>6. PICK value : value = Highest(kept, default)
    OBVIOUS
  <2>7. PresentValue(under, i) = IF under = "ANALOG_OUTPUT" THEN 2 * value ELSE value
    BY <2>1, <2>3, <2>6, PresentValueRead
  <2>8. CASE active = {}
    <3>1. value = default
      BY <2>5, <2>6, <2>8 DEF Highest
    <3>. QED  BY <2>1, <2>7, <2>8, <3>1 DEF RelinquishDefault
  <2>9. CASE active # {}
    <3>1. PICK first : first = Min(active)
      OBVIOUS
    <3>2. first \in active
      <4>1. active \in SUBSET Nat
        BY <2>1 DEF Priorities
      <4>2. \E x \in active : \A y \in active : x <= y
        BY <2>9, <4>1, LeastOfNat
      <4>. QED  BY <3>1, <4>2 DEF Min
    <3>3. value = kept[first]
      BY <2>5, <2>6, <2>9, <3>1 DEF Highest, Min
    <3>4. value = Stored(under, levels[first]) /\ levels[first] # NULL
          /\ levels[first] \in Data(under)
      BY <2>1, <2>2, <2>4, <3>2, <3>3
    <3>5. CASE under = "ANALOG_OUTPUT"
      <4>1. PICK x \in 0 .. 200 : x = levels[first]
        BY <3>4, <3>5 DEF Data
      <4>2. value = x \div 2
        BY <3>4, <3>5, <4>1 DEF Stored
      <4>3. 2 * (x \div 2) = x - (x % 2)
        OBVIOUS
      <4>. QED  BY <2>1, <2>7, <2>9, <3>1, <3>5, <4>1, <4>2, <4>3
    <3>6. CASE under # "ANALOG_OUTPUT"
      BY <2>1, <2>7, <2>9, <3>1, <3>4, <3>6 DEF Stored
    <3>. QED  BY <3>5, <3>6
  <2>. QED  BY <2>8, <2>9
<1>. QED  BY <1>1, CommandCorrect, PTL
=============================================================================
