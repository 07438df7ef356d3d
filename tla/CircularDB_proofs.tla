-------------------------- MODULE CircularDB_proofs --------------------------
(***************************************************************************)
(* Proofs about the ring of rows and the queries to it, for every number   *)
(* of rows, length of a batch and history of the buffers.                  *)
(***************************************************************************)
EXTENDS RowFetch, SequenceTheorems, TLAPS

(* Division: an Id is NumRows times its lap plus its slot. *)
LEMMA SlotOfId ==
  ASSUME NEW id \in Nat
  PROVE  /\ Slot(id) \in Slots
         /\ id \div NumRows \in Nat
         /\ id = NumRows * (id \div NumRows) + Slot(id)
BY NumRowsAssumption DEF Slot, Slots

(* Two Ids less than a lap apart have different slots. *)
LEMMA SlotsDiffer ==
  ASSUME NEW i \in Nat, NEW j \in Nat, i < j, j < i + NumRows
  PROVE  Slot(i) # Slot(j)
<1>1. SUFFICES ASSUME Slot(i) = Slot(j) PROVE FALSE
  OBVIOUS
<1> DEFINE a == i \div NumRows
           b == j \div NumRows
<1>2. a \in Nat /\ i = NumRows * a + Slot(i) /\ Slot(i) \in Slots
  BY SlotOfId
<1>3. b \in Nat /\ j = NumRows * b + Slot(j)
  BY SlotOfId
<1> HIDE DEF a, b
<1>4. NumRows * b - NumRows * a = j - i
  BY <1>1, <1>2, <1>3, NumRowsAssumption DEF Slots
<1>5. NumRows * (b - a) = NumRows * b - NumRows * a
  BY <1>2, <1>3, NumRowsAssumption
<1>6. CASE b - a <= 0
  <2>1. NumRows * (b - a) <= 0
    BY <1>2, <1>3, <1>6, NumRowsAssumption
  <2> QED BY <2>1, <1>4, <1>5
<1>7. CASE b - a >= 1
  <2>1. NumRows * (b - a) >= NumRows
    BY <1>2, <1>3, <1>7, NumRowsAssumption
  <2> QED BY <2>1, <1>4, <1>5, NumRowsAssumption
<1> QED BY <1>2, <1>3, <1>6, <1>7

(* A row and the one written a lap later share a slot. *)
LEMMA SlotPeriod ==
  ASSUME NEW id \in Nat
  PROVE  Slot(id + NumRows) = Slot(id)
<1> DEFINE a == id \div NumRows
           b == (id + NumRows) \div NumRows
           d == b - a - 1
<1>1. a \in Nat /\ id = NumRows * a + Slot(id) /\ Slot(id) \in Slots
  BY SlotOfId
<1>2. id + NumRows \in Nat
  BY NumRowsAssumption
<1>3. /\ b \in Nat
      /\ id + NumRows = NumRows * b + Slot(id + NumRows)
      /\ Slot(id + NumRows) \in Slots
  BY <1>2, SlotOfId
<1> HIDE DEF a, b
<1>4. NumRows * d = NumRows * b - NumRows * a - NumRows
  BY <1>1, <1>3, NumRowsAssumption
<1>5. NumRows * d = Slot(id) - Slot(id + NumRows)
  BY <1>1, <1>3, <1>4, NumRowsAssumption DEF Slots
<1>6. d = 0
  <2>1. CASE d >= 1
    <3>1. NumRows * d >= NumRows
      BY <2>1, <1>1, <1>3, NumRowsAssumption
    <3> QED BY <3>1, <1>5, <1>1, <1>3, NumRowsAssumption DEF Slots
  <2>2. CASE d <= -1
    <3>1. NumRows * d <= -NumRows
      BY <2>2, <1>1, <1>3, NumRowsAssumption
    <3> QED BY <3>1, <1>5, <1>1, <1>3, NumRowsAssumption DEF Slots
  <2> QED BY <2>1, <2>2, <1>1, <1>3
<1>7. NumRows * 0 = 0
  BY NumRowsAssumption
<1> QED BY <1>1, <1>3, <1>5, <1>6, <1>7, NumRowsAssumption DEF Slots
-----------------------------------------------------------------------------
(***************************************************************************)
(* The range, whatever the clock and the old bytes of the file say.        *)
(***************************************************************************)

LEMMA RangeInit == Init => RangeInv
<1> SUFFICES ASSUME Init PROVE RangeInv
  OBVIOUS
<1>1. usable \in BOOLEAN
  BY ZenonT(20) DEF Init
<1> QED
  BY <1>1, NumRowsAssumption, TimeAssumption
     DEF Init, RangeInv, TypeOK, HeaderOK, FieldsOK, Header, EmptyHeader, NoId,
         Opening, Adding

(* Add's test of the two slots for equality tells exactly a full ring. *)
LEMMA NextTailOK ==
  ASSUME HeadId \in Nat, TailId \in Nat,
         TailId <= HeadId, HeadId - TailId <= NumRows - 1
  PROVE  NextTail = IF HeadId + 1 - TailId = NumRows THEN TailId + 1 ELSE TailId
<1>1. CASE HeadId + 1 - TailId = NumRows
  <2>1. HeadId + 1 = TailId + NumRows
    BY <1>1, NumRowsAssumption
  <2>2. Slot(HeadId + 1) = Slot(TailId)
    BY <2>1, SlotPeriod
  <2> QED BY <1>1, <2>2 DEF NextTail
<1>2. CASE HeadId + 1 - TailId # NumRows
  <2>1. TailId < HeadId + 1 /\ HeadId + 1 < TailId + NumRows /\ HeadId + 1 \in Nat
    BY <1>2, NumRowsAssumption
  <2>2. Slot(HeadId + 1) # Slot(TailId)
    BY <2>1, SlotsDiffer
  <2> QED BY <1>2, <2>2 DEF NextTail
<1> QED BY <1>1, <1>2

LEMMA RangeStep == RangeInv /\ [AnyNext]_vars => RangeInv'
<1> SUFFICES ASSUME RangeInv, [AnyNext]_vars
             PROVE  RangeInv'
  OBVIOUS
<1> USE NumRowsAssumption, TimeAssumption
    DEF RangeInv, TypeOK, HeaderOK, FieldsOK, Header, EmptyHeader, NoId,
        Opening, Adding, fileVars, idVars, scanVars
<1>1. CASE Recreate
  BY <1>1 DEF Recreate, StartOver
<1>2. CASE OpenEmpty
  BY <1>2 DEF OpenEmpty, StartOver
<1>3. CASE OpenFile
  BY <1>3 DEF OpenFile
<1>4. CASE ScanTail
  BY <1>4 DEF ScanTail, TailScanGoesOn
<1>5. CASE ScanHead
  BY <1>5 DEF ScanHead
<1>6. CASE Repair
  BY <1>6 DEF Repair, RepairedTail
<1>7. CASE AddRow
  <2>1. Slot(HeadId) \in Slots
    BY SlotOfId
  <2> QED BY <1>7, <2>1 DEF AddRow
<1>8. CASE AddHeader
  <2>1. NextTail = IF HeadId + 1 - TailId = NumRows THEN TailId + 1 ELSE TailId
    BY <1>8, NextTailOK DEF AddHeader
  <2> QED BY <1>8, <2>1 DEF AddHeader
<1>9. CASE PublishHead
  BY <1>9 DEF PublishHead
<1>10. CASE PublishTail
  BY <1>10 DEF PublishTail
<1>11. CASE Close
  BY <1>11 DEF Close, Forget
<1>12. CASE Kill
  BY <1>12 DEF Kill, Forget
<1>13. CASE HeaderFlush
  BY <1>13 DEF HeaderFlush
<1>14. CASE PowerLoss
  BY <1>14 DEF PowerLoss, Forget
<1>15. CASE ClockSetBack
  BY <1>15 DEF ClockSetBack
<1>16. CASE RecreateWithNewLength
  BY <1>16 DEF RecreateWithNewLength, StartOver
<1>17. CASE Outdate
  BY <1>17 DEF Outdate
<1>18. CASE UNCHANGED vars
  BY <1>18 DEF vars
<1> QED
  BY <1>1, <1>2, <1>3, <1>4, <1>5, <1>6, <1>7, <1>8, <1>9, <1>10, <1>11,
     <1>12, <1>13, <1>14, <1>15, <1>16, <1>17, <1>18
     DEF AnyNext, Next, Constructor, Add

(* The window of Ids that readers see stays within the ring, with any clock, *)
(* any row lengths and any crash (Add and constructor, CircularDB.java).     *)
THEOREM RangeIsBounded == AnySpec => []RangeBounded
<1>1. RangeInv => RangeBounded
  BY NumRowsAssumption
     DEF RangeInv, TypeOK, HeaderOK, FieldsOK, Header, RangeBounded, Opening, Adding
<1> QED BY <1>1, RangeInit, RangeStep, PTL DEF AnySpec

(* Every field keeps its type under the same faults. *)
THEOREM TypeCorrect == AnySpec => []TypeOK
<1>1. RangeInv => TypeOK
  BY DEF RangeInv
<1> QED BY <1>1, RangeInit, RangeStep, PTL DEF AnySpec
-----------------------------------------------------------------------------
(***************************************************************************)
(* The rows, when the clock of the controller is never set back.           *)
(***************************************************************************)

LEMMA RingInit == Init => RingInv
<1> SUFFICES ASSUME Init PROVE RingInv
  OBVIOUS
<1>1. RangeInv
  BY RangeInit
<1>2. RowsOK
  BY NumRowsAssumption, TimeAssumption DEF Init, RowsOK, NoId, Slots
<1>3. HeadersLag /\ GivenUp
  BY DEF Init, HeadersLag, GivenUp, EmptyHeader, Opening
<1> QED BY <1>1, <1>2, <1>3 DEF RingInv

(* A step that writes no row and gives out no Id keeps the rows in order. *)
LEMMA RowsUntouched ==
  ASSUME RowsOK, UNCHANGED <<time, owner, added, clock>>
  PROVE  RowsOK'
BY DEF RowsOK, Slot

LEMMA RowsStartOver ==
  ASSUME RangeInv, RowsOK, StartOver, UNCHANGED clock,
         time' \in {time, [s \in Slots |-> 0]}
  PROVE  RowsOK'
<1>1. 0 < clock
  <2>1. 0 \in Slots
    BY NumRowsAssumption DEF Slots
  <2> QED BY <2>1 DEF RowsOK, RangeInv, TypeOK
<1>2. \A s \in Slots : time'[s] < clock'
  BY <1>1 DEF RowsOK
<1> QED BY <1>2, NumRowsAssumption DEF RowsOK, StartOver, NoId, RangeInv, TypeOK

(* Writing a row over the one a lap older keeps the rows in order. *)
LEMMA RowsAdd ==
  ASSUME RingInv, AddRow
  PROVE  RowsOK'
<1> USE NumRowsAssumption, TimeAssumption
<1> DEFINE w == Slot(HeadId)
<1>1. /\ HeadId = added /\ added \in Nat /\ added' = added + 1
      /\ clock' = clock + 1 /\ clock \in Nat
      /\ time \in [Slots -> Nat] /\ owner \in [Slots -> Nat \cup {NoId}]
      /\ time' = [time EXCEPT ![w] = clock]
      /\ owner' = [owner EXCEPT ![w] = added]
  BY DEF AddRow, RingInv, RangeInv, TypeOK, HeadersLag
<1>2. w \in Slots
  BY <1>1, SlotOfId
<1>3. RowsOK
  BY DEF RingInv
<1> HIDE DEF w
<1>4. \A id \in 0 .. added : added + 1 <= id + NumRows => owner'[Slot(id)] = id
  <2> SUFFICES ASSUME NEW id \in 0 .. added, added + 1 <= id + NumRows
               PROVE  owner'[Slot(id)] = id
    OBVIOUS
  <2>1. id \in Nat /\ Slot(id) \in Slots
    BY <1>1, SlotOfId
  <2>2. CASE id = added
    BY <1>1, <1>2, <2>2 DEF w
  <2>3. CASE id < added
    <3>1. Slot(id) # w
      BY <1>1, <2>1, <2>3, SlotsDiffer DEF w
    <3>2. owner[Slot(id)] = id
      BY <1>1, <1>3, <2>3 DEF RowsOK
    <3> QED BY <1>1, <2>1, <3>1, <3>2
  <2> QED BY <1>1, <2>2, <2>3
<1>5. \A s \in Slots :
        \/ owner'[s] = NoId
        \/ s = Slot(owner'[s]) /\ owner'[s] < added + 1 /\ added + 1 <= owner'[s] + NumRows
  <2> SUFFICES ASSUME NEW s \in Slots, owner'[s] # NoId
               PROVE  s = Slot(owner'[s]) /\ owner'[s] < added + 1 /\ added + 1 <= owner'[s] + NumRows
    OBVIOUS
  <2>1. CASE s = w
    BY <1>1, <1>2, <2>1 DEF w
  <2>2. CASE s # w
    <3> DEFINE o == owner[s]
    <3>1. owner'[s] = o
      BY <1>1, <2>2
    <3>2. o \in Nat /\ s = Slot(o) /\ o < added /\ added <= o + NumRows
      BY <1>1, <1>3, <3>1 DEF RowsOK, NoId
    <3> HIDE DEF o
    <3>3. added # o + NumRows
      BY <3>2, <2>2, <1>1, SlotPeriod DEF w
    <3> QED BY <1>1, <3>1, <3>2, <3>3
  <2> QED BY <2>1, <2>2
<1>6. \A s, r \in Slots : owner'[s] < owner'[r] => time'[s] < time'[r]
  <2> SUFFICES ASSUME NEW s \in Slots, NEW r \in Slots, owner'[s] < owner'[r]
               PROVE  time'[s] < time'[r]
    OBVIOUS
  <2>1. CASE s = w
    <3>1. owner'[r] \in Int /\ owner'[r] <= added
      BY <1>1, <1>2, <1>3 DEF RowsOK, NoId
    <3>2. owner'[s] = added
      BY <1>1, <1>2, <2>1
    <3> QED BY <1>1, <3>1, <3>2
  <2>2. CASE s # w /\ r = w
    BY <1>1, <1>2, <1>3, <2>2 DEF RowsOK
  <2>3. CASE s # w /\ r # w
    BY <1>1, <1>3, <2>3 DEF RowsOK
  <2> QED BY <2>1, <2>2, <2>3
<1>7. \A s \in Slots : time'[s] < clock'
  BY <1>1, <1>3 DEF RowsOK
<1> QED BY <1>1, <1>4, <1>5, <1>6, <1>7 DEF RowsOK, Slot

(* The head scan goes on exactly while there are rows past it. *)
LEMMA ScanStopsAtLastRow ==
  ASSUME RingInv, pc = "headscan"
  PROVE  HeadScanGoesOn <=> newHead < added
<1> USE NumRowsAssumption
<1>1. /\ newHead \in Nat /\ added \in Nat /\ HeadId \in Nat /\ 0 < HeadId
      /\ HeadId <= newHead /\ newHead <= added /\ added - HeadId < NumRows
      /\ time \in [Slots -> Nat] /\ owner \in [Slots -> Nat \cup {NoId}]
  BY DEF RingInv, RangeInv, TypeOK, FieldsOK, HeadersLag, Opening, Header
<1>2. newHead - 1 \in 0 .. added - 1 /\ added <= newHead - 1 + NumRows
  BY <1>1
<1>3. owner[Slot(newHead - 1)] = newHead - 1
  BY <1>2 DEF RingInv, RowsOK
<1>4. Slot(newHead - 1) \in Slots /\ Slot(newHead) \in Slots
  BY <1>1, <1>2, SlotOfId
<1>5. CASE newHead < added
  <2>1. owner[Slot(newHead)] = newHead
    BY <1>1, <1>5 DEF RingInv, RowsOK
  <2> QED BY <1>1, <1>3, <1>4, <1>5, <2>1 DEF RingInv, RowsOK, HeadScanGoesOn, TimeOfId
<1>6. CASE newHead = added
  <2>1. Slot(newHead - 1) # Slot(newHead)
    BY <1>1, <1>2, SlotsDiffer
  <2>2. owner[Slot(newHead)] < newHead - 1
    <3> DEFINE o == owner[Slot(newHead)]
    <3>1. CASE o = NoId
      BY <1>1, <3>1 DEF NoId
    <3>2. CASE o # NoId
      <4>1. o \in Nat /\ Slot(o) = Slot(newHead) /\ o < added
        BY <1>1, <1>4, <3>2 DEF RingInv, RowsOK
      <4>2. o # newHead - 1
        BY <4>1, <2>1
      <4> QED BY <1>1, <1>6, <4>1, <4>2
    <3> QED BY <3>1, <3>2
  <2>3. time[Slot(newHead)] < time[Slot(newHead - 1)]
    BY <1>3, <1>4, <2>2 DEF RingInv, RowsOK
  <2> QED BY <1>1, <1>4, <1>6, <2>3 DEF HeadScanGoesOn, TimeOfId
<1> QED BY <1>1, <1>5, <1>6

LEMMA RingStep == RingInv /\ [Next]_vars => RingInv'
<1> SUFFICES ASSUME RingInv, [Next]_vars
             PROVE  RingInv'
  OBVIOUS
<1>1. RangeInv'
  BY RangeStep DEF RingInv, AnyNext
<1>2. RangeInv /\ RowsOK /\ HeadersLag /\ GivenUp
  BY DEF RingInv
<1> SUFFICES RowsOK' /\ HeadersLag' /\ GivenUp'
  BY <1>1 DEF RingInv
<1> USE NumRowsAssumption
    DEF RangeInv, TypeOK, HeaderOK, FieldsOK, HeadersLag, Header, EmptyHeader,
        Opening, Adding, idVars, scanVars
<1>3. CASE Recreate
  <2>1. RowsOK'
    BY <1>2, <1>3, RowsStartOver DEF Recreate
  <2> QED BY <1>2, <1>3, <2>1 DEF Recreate, StartOver, GivenUp
<1>4. CASE OpenEmpty
  <2>1. RowsOK'
    BY <1>2, <1>4, RowsStartOver DEF OpenEmpty
  <2> QED BY <1>2, <1>4, <2>1 DEF OpenEmpty, StartOver, GivenUp
<1>5. CASE OpenFile
  <2>1. RowsOK'
    BY <1>2, <1>5, RowsUntouched DEF OpenFile, fileVars
  <2> QED BY <1>2, <1>5, <2>1 DEF OpenFile, GivenUp, fileVars
<1>6. CASE ScanTail
  <2>1. RowsOK'
    BY <1>2, <1>6, RowsUntouched DEF ScanTail, fileVars
  <2>2. HeadersLag'
    BY <1>2, <1>6 DEF ScanTail, fileVars
  <2>3. GivenUp'
    BY <1>2, <1>6 DEF ScanTail, fileVars, GivenUp, TailScanGoesOn, TimeOfId, Slot
  <2> QED BY <2>1, <2>2, <2>3
<1>7. CASE ScanHead
  <2>1. RowsOK'
    BY <1>2, <1>7, RowsUntouched DEF ScanHead, fileVars
  <2>2. HeadScanGoesOn <=> newHead < added
    BY <1>7, ScanStopsAtLastRow DEF ScanHead
  <2>3. HeadersLag'
    BY <1>2, <1>7, <2>2 DEF ScanHead, fileVars
  <2>4. GivenUp'
    BY <1>2, <1>7 DEF ScanHead, fileVars, GivenUp, TimeOfId, Slot
  <2> QED BY <2>1, <2>3, <2>4
<1>8. CASE Repair
  <2>1. RowsOK'
    BY <1>2, <1>8, RowsUntouched DEF Repair, fileVars
  <2> QED BY <1>2, <1>8, <2>1 DEF Repair, RepairedTail, fileVars, GivenUp
<1>9. CASE AddRow
  <2>1. RowsOK'
    BY <1>9, RowsAdd
  <2> QED BY <1>2, <1>9, <2>1 DEF AddRow, GivenUp
<1>10. CASE AddHeader
  <2>1. RowsOK'
    BY <1>2, <1>10, RowsUntouched DEF AddHeader, fileVars
  <2>2. /\ pc = "rowwritten" /\ pc' = "headerwritten" /\ hdr'.head = HeadId + 1
        /\ UNCHANGED <<added, disk>>
    BY <1>10 DEF AddHeader, fileVars
  <2>3. HeadId + 1 = added /\ HeadId = hdr.head /\ HeadId \in Nat
        /\ disk.head \in Nat /\ disk.head <= hdr.head
    BY <1>2, <2>2
  <2>4. HeadersLag'
    BY <2>2, <2>3
  <2>5. GivenUp'
    BY <2>2 DEF GivenUp
  <2> QED BY <2>1, <2>4, <2>5
<1>11. CASE PublishHead
  <2>1. RowsOK'
    BY <1>2, <1>11, RowsUntouched DEF PublishHead, fileVars
  <2> QED BY <1>2, <1>11, <2>1 DEF PublishHead, fileVars, GivenUp
<1>12. CASE PublishTail
  <2>1. RowsOK'
    BY <1>2, <1>12, RowsUntouched DEF PublishTail, fileVars
  <2> QED BY <1>2, <1>12, <2>1 DEF PublishTail, fileVars, GivenUp
<1>13. CASE Close
  <2>1. RowsOK'
    BY <1>2, <1>13, RowsUntouched DEF Close, Forget, fileVars
  <2> QED BY <1>2, <1>13, <2>1 DEF Close, Forget, fileVars, GivenUp
<1>14. CASE Kill
  <2>1. RowsOK'
    BY <1>2, <1>14, RowsUntouched DEF Kill, Forget, fileVars
  <2> QED BY <1>2, <1>14, <2>1 DEF Kill, Forget, fileVars, GivenUp
<1>15. CASE HeaderFlush
  <2>1. RowsOK'
    BY <1>2, <1>15, RowsUntouched DEF HeaderFlush, fileVars
  <2> QED BY <1>2, <1>15, <2>1 DEF HeaderFlush, fileVars, GivenUp, TimeOfId, Slot
<1>16. CASE PowerLoss
  <2>1. RowsOK'
    BY <1>2, <1>16, RowsUntouched DEF PowerLoss, Forget, fileVars
  <2> QED BY <1>2, <1>16, <2>1 DEF PowerLoss, Forget, fileVars, GivenUp
<1>17. CASE Outdate
  <2>1. RowsOK'
    BY <1>2, <1>17, RowsUntouched DEF Outdate
  <2> QED BY <1>2, <1>17, <2>1 DEF Outdate, GivenUp
<1>18. CASE UNCHANGED vars
  <2>1. RowsOK'
    BY <1>2, <1>18, RowsUntouched DEF vars
  <2> QED BY <1>2, <1>18, <2>1 DEF vars, GivenUp, TimeOfId, Slot
<1> QED
  BY <1>3, <1>4, <1>5, <1>6, <1>7, <1>8, <1>9, <1>10, <1>11, <1>12, <1>13,
     <1>14, <1>15, <1>16, <1>17, <1>18 DEF Next, Constructor, Add

(* The strengthening behind the three theorems below, as a result of its own: *)
(* at every step of the constructor and of Add each slot holds the newest row *)
(* it was given and the header lags behind the rows by less than a ring       *)
(* (Add, CircularDB.java:170-205; the constructor, CircularDB.java:60-160).   *)
THEOREM RingAlways == Spec => []RingInv
BY RingInit, RingStep, PTL DEF Spec

(* An Id in the range always addresses the row added under it, in the middle *)
(* of an Add and after every recovery (CircularDB.java:30-32, Add, _TimeOfId).*)
THEOREM RowsAreWhereTheirIdsSay == Spec => []SlotsHoldTheirRows
<1>1. RingInv => SlotsHoldTheirRows
  <2> SUFFICES ASSUME RingInv, Readable, NEW id \in TailId .. HeadId - 1
               PROVE  owner[Slot(id)] = id
    BY DEF SlotsHoldTheirRows
  <2>1. id \in 0 .. added - 1 /\ added <= id + NumRows
    BY NumRowsAssumption
       DEF RingInv, RangeInv, TypeOK, HeaderOK, FieldsOK, HeadersLag, Header,
           Readable, Adding
  <2> QED BY <2>1 DEF RingInv, RowsOK
<1> QED BY <1>1, RingAlways, PTL

(* Where a constructor call comes to its end. *)
LEMMA LastStep ==
  ASSUME [Next]_vars, Constructed
  PROVE  Recreate \/ OpenEmpty \/ Repair
BY DEF Constructed, Opening, Next, Constructor, Add, OpenFile, ScanTail,
       ScanHead, AddRow, AddHeader, PublishHead, PublishTail, Close, Kill,
       Forget, HeaderFlush, PowerLoss, Outdate, vars

LEMMA NextIdFound ==
  ASSUME RingInv, [Next]_vars, Constructed
  PROVE  HeadId' = NextId
<1> USE DEF RingInv, RangeInv, TypeOK, Header, FieldsOK, HeadersLag, Opening
<1>1. CASE Recreate
  BY <1>1 DEF Recreate, NextId, idVars
<1>2. CASE OpenEmpty
  BY <1>2 DEF OpenEmpty, NextId
<1>3. CASE Repair
  BY <1>3 DEF Repair, NextId, idVars
<1> QED BY <1>1, <1>2, <1>3, LastStep

(* Behind a header that counts at least one row, recovery finds exactly the   *)
(* rows that reached the file, and no Id is given out twice; behind one that  *)
(* counts none, or a file of another version, it starts with Id 0 again and   *)
(* the rows in the file are lost (CircularDB.java:92-172).                    *)
THEOREM NumberingContinues == Spec => IdsContinue
<1>1. RingInv /\ [Next]_vars => [Constructed => HeadId' = NextId]_vars
  BY NextIdFound
<1> QED BY <1>1, RingAlways, PTL DEF Spec, IdsContinue

(* Recovery gives up no row at the head of the range, and at its tail only    *)
(* rows of the 1970s and rows whose slot is taken (CircularDB.java:102-158).  *)
THEOREM RecoveryKeeps == Spec => RecoveryKeepsRows
<1>1. RingInv /\ [Next]_vars =>
        [Constructed =>
           /\ HeadId' = NextId
           /\ \A id \in TailId .. TailId' - 1 : DropsOnly(id)]_vars
  <2> SUFFICES ASSUME RingInv, [Next]_vars, Constructed,
                      NEW id \in TailId .. TailId' - 1
               PROVE  DropsOnly(id)
    BY NextIdFound
  <2>1. TailId \in Nat /\ newTail \in Nat /\ newHead \in Nat
    BY DEF RingInv, RangeInv, TypeOK
  <2>2. CASE TailId' = TailId
    BY <2>1, <2>2
  <2>3. CASE Recreate \/ OpenEmpty
    <3>1. TailId' = TailId
      BY <2>3 DEF Recreate, OpenEmpty, idVars, RingInv, RangeInv, TypeOK, Header,
                  HeaderOK, FieldsOK
    <3> QED BY <3>1, <2>2
  <2>4. CASE Repair /\ TailId' = newTail
    <3>1. \A i \in TailId .. newTail - 1 : time[Slot(i)] < TLimit
      BY <2>4 DEF Repair, RingInv, GivenUp, Opening, TimeOfId
    <3> QED BY <2>4, <3>1 DEF DropsOnly
  <2>5. CASE TailId' = newHead - NumRows + 1 /\ HeadId' = newHead
    <3>1. id + NumRows <= HeadId'
      BY <2>1, <2>5, NumRowsAssumption
    <3> QED BY <3>1 DEF DropsOnly
  <2> QED
    BY <2>2, <2>3, <2>4, <2>5, LastStep DEF Repair, RepairedTail, idVars
<1> QED BY <1>1, RingAlways, PTL DEF Spec, RecoveryKeepsRows
-----------------------------------------------------------------------------
(***************************************************************************)
(* The ring implements the abstract store.                                 *)
(***************************************************************************)

LEMMA LogStep == RingInv /\ [Next]_vars => [Log!Next]_(Log!vars)
<1> SUFFICES ASSUME RingInv, [Next]_vars
             PROVE  [Log!Next]_(Log!vars)
  OBVIOUS
<1> DEFINE Stutter ==
      UNCHANGED <<Readable, AbstractTail, AbstractHead, added, hdr, usable>>
<1>0. /\ RangeInv /\ HeadersLag
      /\ Stutter => Log!vars' = Log!vars
  BY DEF RingInv, Log!vars
<1> USE NumRowsAssumption
    DEF RangeInv, TypeOK, HeaderOK, FieldsOK, HeadersLag, Header, EmptyHeader,
        Opening, Adding, idVars, scanVars, fileVars, Readable, AbstractHead,
        AbstractTail
<1>1. CASE Recreate
  <2>1. Log!StartOver
    BY <1>0, <1>1 DEF Recreate, StartOver, Log!StartOver
  <2> QED BY <2>1 DEF Log!Next
<1>2. CASE OpenEmpty
  <2>1. Log!StartOver
    BY <1>0, <1>2 DEF OpenEmpty, StartOver, Log!StartOver
  <2> QED BY <2>1 DEF Log!Next
<1>3. CASE Repair
  <2>1. hdr'.head = newHead /\ HeadId' = newHead
    BY <1>0, <1>3 DEF Repair
  <2>2. Log!Restart
    BY <1>0, <1>3, <2>1 DEF Repair, RepairedTail, Log!Restart
  <2> QED BY <2>2 DEF Log!Next
<1>4. CASE AddRow
  <2>1. Log!Write
    BY <1>0, <1>4 DEF AddRow, Log!Write
  <2> QED BY <2>1 DEF Log!Next
<1>5. CASE AddHeader
  <2>1. pc = "rowwritten" /\ pc' = "headerwritten" /\ hdr'.head = HeadId + 1
    BY <1>5 DEF AddHeader
  <2>2. UNCHANGED <<Readable, AbstractHead, AbstractTail, added, usable>>
    BY <1>5, <2>1 DEF AddHeader
  <2>3. Log!Count
    BY <1>0, <2>1, <2>2 DEF Log!Count
  <2> QED BY <2>3 DEF Log!Next
<1>6. CASE PublishHead
  <2>1. Log!Publish
    BY <1>0, <1>6 DEF PublishHead, Log!Publish
  <2> QED BY <2>1 DEF Log!Next
<1>7. CASE PublishTail
  <2>1. Log!Retire \/ Stutter
    BY <1>0, <1>7 DEF PublishTail, Log!Retire
  <2> QED BY <1>0, <2>1 DEF Log!Next
<1>8. CASE Close \/ Kill
  <2>1. Log!Stop
    BY <1>0, <1>8 DEF Close, Kill, Forget, Log!Stop
  <2> QED BY <2>1 DEF Log!Next
<1>9. CASE PowerLoss
  <2>1. hdr'.head \in 0 .. hdr.head
    BY <1>0, <1>9 DEF PowerLoss
  <2>2. Log!Stop
    BY <1>0, <1>9, <2>1 DEF PowerLoss, Forget, Log!Stop
  <2> QED BY <2>2 DEF Log!Next
<1>10. CASE Outdate
  <2>1. Log!Outdate
    BY <1>0, <1>10 DEF Outdate, Log!Outdate
  <2> QED BY <2>1 DEF Log!Next
<1>11. CASE OpenFile \/ ScanTail \/ ScanHead \/ HeaderFlush
  <2>1. Stutter
    BY <1>0, <1>11 DEF OpenFile, ScanTail, ScanHead, HeaderFlush
  <2> QED BY <1>0, <2>1
<1>12. CASE UNCHANGED vars
  <2>1. Stutter
    BY <1>12 DEF vars
  <2> QED BY <1>0, <2>1
<1> QED
  BY <1>1, <1>2, <1>3, <1>4, <1>5, <1>6, <1>7, <1>8, <1>9, <1>10, <1>11, <1>12
     DEF Next, Constructor, Add

(* The ring of CircularDB.java implements the abstract store of rows. *)
THEOREM RingImplementsLog == Spec => ImplementsRowLog
<1>1. Init => Log!Init
  <2> SUFFICES ASSUME Init PROVE Log!Init
    OBVIOUS
  <2>1. Readable = FALSE /\ AbstractTail = 0 /\ AbstractHead = 0 /\ added = 0 /\ hdr.head = 0
    BY DEF Init, EmptyHeader, Readable, AbstractHead, AbstractTail, Adding
  <2>2. usable = FALSE
    BY DEF Init
  <2> QED BY <2>1, <2>2, ZenonT(20) DEF Log!Init
<1> QED BY <1>1, LogStep, RingAlways, PTL DEF Spec, Log!Spec, ImplementsRowLog
-----------------------------------------------------------------------------
(* Queries. *)

(* Rows with consecutive Ids are in consecutive slots up to the end of the file. *)
LEMMA SlotNext ==
  ASSUME NEW id \in Nat, NEW k \in Nat, Slot(id) + k < NumRows
  PROVE  Slot(id + k) = Slot(id) + k
<1> DEFINE a == id \div NumRows
           b == (id + k) \div NumRows
           d == b - a
<1>1. a \in Nat /\ id = NumRows * a + Slot(id) /\ Slot(id) \in Slots
  BY SlotOfId
<1>2. /\ b \in Nat
      /\ id + k = NumRows * b + Slot(id + k)
      /\ Slot(id + k) \in Slots
  BY SlotOfId
<1> HIDE DEF a, b
<1>3. d \in Int /\ NumRows * d = NumRows * b - NumRows * a
  BY <1>1, <1>2, NumRowsAssumption
<1> DEFINE s == Slot(id)
           t == Slot(id + k)
<1>4. s \in Nat /\ s + k < NumRows /\ t \in Nat /\ t < NumRows
  BY <1>1, <1>2, NumRowsAssumption DEF Slots
<1> HIDE DEF d, s, t
<1>5. NumRows * a \in Int /\ NumRows * b \in Int
  BY <1>1, <1>2, NumRowsAssumption
<1>6. id = NumRows * a + s /\ id + k = NumRows * b + t
  BY <1>1, <1>2 DEF s, t
<1>7. NumRows * d = s + k - t
  BY <1>3, <1>4, <1>5, <1>6
<1>8. d = 0
  <2>1. CASE d >= 1
    <3>1. NumRows * d >= NumRows
      BY <2>1, <1>3, NumRowsAssumption
    <3> QED BY <3>1, <1>4, <1>7, NumRowsAssumption
  <2>2. CASE d <= -1
    <3>1. NumRows * d <= -NumRows
      BY <2>2, <1>3, NumRowsAssumption
    <3> QED BY <3>1, <1>4, <1>7, NumRowsAssumption
  <2> QED BY <2>1, <2>2, <1>3
<1>9. NumRows * 0 = 0
  BY NumRowsAssumption
<1>10. t = s + k
  BY <1>4, <1>7, <1>8, <1>9
<1> QED BY <1>10 DEF s, t

FetchInv == RangeInv /\ buffer \in Seq(Nat)

(* What a buffer holds after the reads of a query, none of them lost. *)
LEMMA BuffersRead ==
  ASSUME RangeInv, buffer \in Seq(Nat), NEW size \in Int, NEW tail \in Nat, NEW n \in Int
  PROVE  LET b == ReadInto(Grown(size), tail, n)
         IN /\ b \in Seq(Nat)
            /\ Len(b) >= size
            /\ \A i \in 1 .. Len(b) :
                 i <= n /\ Slot(tail) + i - 1 < NumRows
                   => b[i] = time[Slot(tail) + i - 1]
<1> DEFINE len == IF size > Len(buffer) THEN size ELSE Len(buffer)
           g == Grown(size)
           b == ReadInto(g, tail, n)
<1>1. len \in Nat /\ len >= size /\ len >= Len(buffer)
  BY LenProperties
<1>2. /\ g = [i \in 1 .. len |-> IF i <= Len(buffer) THEN buffer[i] ELSE 0]
      /\ DOMAIN g = 1 .. len
  BY DEF Grown
<1>3. \A i \in 1 .. len : g[i] \in Nat
  BY <1>1, <1>2, ElementOfSeq, LenProperties
<1>4. time \in [Slots -> Nat] /\ Slot(tail) \in Slots
  BY SlotOfId DEF RangeInv, TypeOK
<1> HIDE DEF len, g
<1>5. b = [i \in 1 .. len |->
             IF i <= n /\ Slot(tail) + i - 1 < NumRows
             THEN time[Slot(tail) + i - 1]
             ELSE g[i]]
  BY <1>2 DEF ReadInto
<1>6. ASSUME NEW i \in 1 .. len PROVE b[i] \in Nat
  <2>1. CASE i <= n /\ Slot(tail) + i - 1 < NumRows
    <3>1. Slot(tail) + i - 1 \in Slots
      BY <1>1, <1>4, <2>1, NumRowsAssumption DEF Slots
    <3>2. time[Slot(tail) + i - 1] \in Nat
      BY <1>4, <3>1
    <3>3. b[i] = time[Slot(tail) + i - 1]
      BY <1>5, <2>1
    <3> QED BY <3>2, <3>3
  <2>2. CASE ~(i <= n /\ Slot(tail) + i - 1 < NumRows)
    <3>1. b[i] = g[i]
      BY <1>5, <2>2
    <3> QED BY <1>3, <3>1
  <2> QED BY <2>1, <2>2
<1>7. b \in [1 .. len -> Nat]
  BY <1>5, <1>6
<1>8. b \in Seq(Nat) /\ Len(b) = len
  BY <1>1, <1>7, IsASeq, LenProperties
<1> QED BY <1>1, <1>5, <1>8 DEF g

(* How much of its range a query is served. *)
LEMMA CountInRange ==
  ASSUME RangeInv, pc = "open", NEW tail0 \in Nat, NEW head \in Nat
  PROVE  LET tail == BatchTail(tail0, head)
             n == FetchCount(tail, head)
         IN /\ tail \in Nat /\ n \in Int
            /\ n <= MaxBatch
            /\ n > 0 => /\ TailId <= tail /\ tail + n <= HeadId
                        /\ n <= head - tail
                        /\ head <= HeadId => tail + n = head
BY MaxBatchAssumption DEF BatchTail, FetchCount, RangeInv, TypeOK

LEMMA FetchInvInit == FetchInit => FetchInv
BY RangeInit, EmptySeq DEF FetchInit, FetchInv

LEMMA FetchInvStep == FetchInv /\ [FetchNext]_fetchVars => FetchInv'
<1> SUFFICES ASSUME FetchInv, [FetchNext]_fetchVars
             PROVE  FetchInv'
  OBVIOUS
<1>1. CASE (Recreate \/ Add) /\ UNCHANGED <<buffer, reply>>
  <2>1. RangeInv'
    BY <1>1, RangeStep DEF FetchInv, AnyNext, Next, Constructor
  <2> QED BY <1>1, <2>1 DEF FetchInv
<1>2. ASSUME NEW tail0 \in 0 .. MaxId + 2, NEW head \in 0 .. MaxId + 2,
             SendRows(tail0, head)
      PROVE  FetchInv'
  <2>1. RangeInv'
    BY <1>2, RangeStep DEF FetchInv, SendRows
  <2>2. tail0 \in Nat /\ head \in Nat
    BY TimeAssumption
  <2> DEFINE tail == BatchTail(tail0, head)
             n == FetchCount(tail, head)
  <2>3. tail \in Nat /\ n \in Int
    BY <1>2, <2>2, CountInRange DEF FetchInv, SendRows
  <2>4. buffer' = ReadInto(Grown(head - tail), tail, n)
    BY <1>2 DEF SendRows
  <2> HIDE DEF tail, n
  <2>5. RangeInv /\ buffer \in Seq(Nat) /\ head - tail \in Int
    BY <2>2, <2>3 DEF FetchInv
  <2> DEFINE size == head - tail
  <2> HIDE DEF size
  <2>6. ReadInto(Grown(size), tail, n) \in Seq(Nat)
    BY <2>3, <2>5, BuffersRead DEF size
  <2> QED BY <2>1, <2>4, <2>6 DEF FetchInv, size
<1>3. CASE UNCHANGED fetchVars
  <2>1. RangeInv'
    BY <1>3, RangeStep DEF FetchInv, fetchVars
  <2> QED BY <1>3, <2>1 DEF FetchInv, fetchVars
<1> QED BY <1>1, <1>2, <1>3 DEF FetchNext

(* An answer to any query, made in a state of the invariant. *)
LEMMA ReplyIsCorrect ==
  ASSUME FetchInv, NEW tail0 \in Nat, NEW head \in Nat, SendRows(tail0, head)
  PROVE  /\ RowIds(reply') \subseteq TailId .. HeadId - 1
         /\ Len(reply'.rows) <= MaxBatch
         /\ reply'.rows # <<>> /\ head <= HeadId
              => reply'.first + Len(reply'.rows) = head
         /\ Slot(reply'.first) + Len(reply'.rows) <= NumRows
              => RowsCorrect(reply')
<1> DEFINE tail == BatchTail(tail0, head)
           n == FetchCount(tail, head)
           b == ReadInto(Grown(head - tail), tail, n)
           rows == SubSeq(b, 1, n)
<1>1. pc = "open" /\ UNCHANGED vars /\ reply' = [first |-> tail, rows |-> rows]
  BY DEF SendRows
<1>2. /\ tail \in Nat /\ n \in Int
      /\ n <= MaxBatch
      /\ n > 0 => /\ TailId <= tail /\ tail + n <= HeadId
                  /\ n <= head - tail
                  /\ head <= HeadId => tail + n = head
  BY <1>1, CountInRange DEF FetchInv
<1>3. TailId \in Nat /\ HeadId \in Nat /\ Slot(tail) \in Slots
  BY <1>2, SlotOfId DEF FetchInv, RangeInv, TypeOK
<1> DEFINE size == head - tail
<1> HIDE DEF tail, n
<1>4. RangeInv /\ buffer \in Seq(Nat) /\ size \in Int
  BY <1>2 DEF FetchInv
<1> HIDE DEF size
<1>5. /\ b \in Seq(Nat)
      /\ Len(b) >= head - tail
      /\ \A i \in 1 .. Len(b) :
           i <= n /\ Slot(tail) + i - 1 < NumRows
             => b[i] = time[Slot(tail) + i - 1]
  BY <1>2, <1>4, BuffersRead DEF size
<1> HIDE DEF b
<1>6. CASE n <= 0
  <2>1. rows = <<>>
    BY <1>2, <1>5, <1>6, SubSeqProperties, EmptySeq
  <2> HIDE DEF rows
  <2>2. Len(rows) = 0 /\ DOMAIN rows = {}
    BY <2>1, EmptySeq, LenProperties
  <2> QED BY <1>1, <2>1, <2>2, MaxBatchAssumption DEF RowIds, RowsCorrect
<1>7. CASE n > 0
  <2>1. /\ rows \in Seq(Nat) /\ Len(rows) = n /\ DOMAIN rows = 1 .. n
        /\ \A i \in 1 .. n : rows[i] = b[i]
    BY <1>2, <1>5, <1>7, SubSeqProperties, LenProperties
  <2> HIDE DEF rows
  <2>2. RowIds(reply') \subseteq TailId .. HeadId - 1
    BY <1>1, <1>2, <1>3, <1>7, <2>1 DEF RowIds
  <2>3. ASSUME Slot(tail) + n <= NumRows
        PROVE  RowsCorrect(reply')
    <3>1. SUFFICES ASSUME NEW i \in 1 .. n
                   PROVE  rows[i] = TimeOfId(tail + i - 1)
      BY <1>1, <2>1 DEF RowsCorrect
    <3>2. i - 1 \in Nat /\ Slot(tail) \in Nat /\ Slot(tail) + (i - 1) < NumRows
      BY <1>2, <1>3, <2>3, NumRowsAssumption DEF Slots
    <3>3. i \in 1 .. Len(b)
      BY <1>2, <1>5, <1>7, LenProperties
    <3>4. rows[i] = time[Slot(tail) + (i - 1)]
      <4>1. Slot(tail) + (i - 1) = Slot(tail) + i - 1 /\ i <= n
        BY <1>2, <3>2
      <4>2. b[i] = time[Slot(tail) + i - 1]
        BY <1>5, <3>2, <3>3, <4>1
      <4> QED BY <2>1, <4>1, <4>2
    <3>5. Slot(tail + (i - 1)) = Slot(tail) + (i - 1)
      BY <1>2, <3>2, SlotNext
    <3>6. tail + i - 1 = tail + (i - 1)
      BY <1>2
    <3> QED BY <3>4, <3>5, <3>6 DEF TimeOfId
  <2> QED BY <1>1, <1>2, <2>1, <2>2, <2>3
<1> QED BY <1>2, <1>6, <1>7

(* Every answer names rows of the range only, is the newer end of what was *)
(* asked for, no longer than MAX_BATCH_SIZE, and has the rows it names when *)
(* their slots are consecutive, whatever was in the buffers (_sendRows, Fetch). *)
THEOREM AnswersHaveTheirRows == FetchSpec => RepliesCorrect
<1> DEFINE Correct ==
      \A tail, head \in 0 .. MaxId + 2 :
       SendRows(tail, head) =>
         /\ RowIds(reply') \subseteq TailId .. HeadId - 1
         /\ Len(reply'.rows) <= MaxBatch
         /\ reply'.rows # <<>> /\ head <= HeadId
              => reply'.first + Len(reply'.rows) = head
         /\ Slot(reply'.first) + Len(reply'.rows) <= NumRows
              => RowsCorrect(reply')
<1>1. FetchInv /\ [FetchNext]_fetchVars => [Correct]_fetchVars
  BY ReplyIsCorrect, TimeAssumption
<1> QED
  BY <1>1, FetchInvInit, FetchInvStep, PTL DEF FetchSpec, RepliesCorrect
=============================================================================
