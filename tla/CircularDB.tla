----------------------------- MODULE CircularDB -----------------------------
(***************************************************************************)
(* The on-disk ring of PLC rows (PlcEngine, CircularDB.java).              *)
(*                                                                         *)
(* A row is its timestamp: the recovery scan of the constructor looks at   *)
(* nothing else.  A constructor call and an Add are sequences of steps,    *)
(* one per file access or per assignment to a volatile field, because the  *)
(* process can be killed, power can fail, and unsynchronised threads can   *)
(* read HeadId and TailId between any two of them.                         *)
(*                                                                         *)
(* The file lives in the operating system's cache: a killed process loses  *)
(* nothing of it.  The header page may be older on the medium than in the  *)
(* cache (disk), which is what a power failure leaves behind.  Assumptions *)
(* on the medium: row pages get there no later than the header that counts *)
(* them, and the header on it is never NumRows rows old (days or months).  *)
(*                                                                         *)
(* owner and added are ghosts: the Id under which the row in a slot was    *)
(* added, and how many Ids the current numbering has given out.  A         *)
(* numbering ends, with all its rows, when the file is re-created and when *)
(* the constructor finds a header that counts no row: it does not scan     *)
(* then, and the rows that reached the file before the first header did    *)
(* are lost and their Ids given out again.                                 *)
(***************************************************************************)
EXTENDS Integers

CONSTANTS NumRows,    \* rows in the file
          TLimit,     \* t_limit: older timestamps come from an unset clock
          MaxTime,    \* bound of the model: the last instant a row is added
          MaxId       \* bound of the model: the largest Id an Add gives out

ASSUME NumRowsAssumption == NumRows \in Nat /\ NumRows >= 2
ASSUME TimeAssumption == TLimit \in Nat /\ MaxTime \in Nat /\ MaxId \in Nat

VARIABLES
  time,      \* time[s]: timestamp of the row in slot s, 0 when never written
  owner,     \* owner[s]: Id of the row in slot s, NoId for a row of no numbering
  added,     \* Ids given out so far
  usable,    \* the file is there, with the version and row length of the program
  hdr,       \* head and tail of the file's header, as the OS has it
  disk,      \* head and tail of the header on the medium
  HeadId,    \* volatile field
  TailId,    \* volatile field
  pc,        \* where the constructor or Add stands
  newTail,   \* constructor: new_tail_id
  newHead,   \* constructor: new_head_id
  clock      \* System.currentTimeMillis()

vars == <<time, owner, added, usable, hdr, disk, HeadId, TailId, pc,
          newTail, newHead, clock>>
fileVars == <<time, owner, added, usable>>
idVars == <<HeadId, TailId>>
scanVars == <<newTail, newHead>>

Slots == 0 .. NumRows - 1
NoId == -1
Header == [head : Nat, tail : Nat]
EmptyHeader == [head |-> 0, tail |-> 0]

\* Slot of the row with the given Id; _TimeOfId reads its timestamp.
Slot(id) == id % NumRows
TimeOfId(id) == time[Slot(id)]

Opening == {"tailscan", "headscan", "repair"}
Adding == {"rowwritten", "headerwritten", "headset"}

Init ==
  /\ time = [s \in Slots |-> 0]
  /\ owner = [s \in Slots |-> NoId]
  /\ added = 0
  /\ usable = FALSE
  /\ hdr = EmptyHeader
  /\ disk = EmptyHeader
  /\ HeadId = 0
  /\ TailId = 0
  /\ pc = "closed"
  /\ newTail = 0
  /\ newHead = 0
  /\ clock \in 1 .. MaxTime
-----------------------------------------------------------------------------
(* The constructor. *)

\* A numbering that starts over owns none of the rows it finds in the file:
\* those of the one before are lost.
StartOver ==
  /\ added' = 0
  /\ owner' = [s \in Slots |-> NoId]

\* Missing file or one of another version: _RecreateFile writes a header of
\* zeros and sets the length; the bytes of the rows, if there are any, stay.  A header of the
\* other version left on the medium would lead here again, so it is as empty.
Recreate ==
  /\ pc = "closed"
  /\ ~usable
  /\ usable' = TRUE
  /\ pc' = "open"
  /\ hdr' = EmptyHeader
  /\ disk' = EmptyHeader
  /\ StartOver
  /\ time' \in {time, [s \in Slots |-> 0]}
  /\ UNCHANGED <<idVars, scanVars, clock>>

\* A header with HeadId = 0 is taken as it is, without a scan: rows that an
\* interrupted first Add, or Adds whose header never reached the medium, left
\* in the file are not looked for.
OpenEmpty ==
  /\ pc = "closed"
  /\ usable
  /\ hdr.head = 0
  /\ pc' = "open"
  /\ HeadId' = hdr.head
  /\ TailId' = hdr.tail
  /\ StartOver
  /\ UNCHANGED <<time, usable, hdr, disk, scanVars, clock>>

OpenFile ==
  /\ pc = "closed"
  /\ usable
  /\ hdr.head > 0
  /\ hdr.head >= hdr.tail
  /\ pc' = "tailscan"
  /\ HeadId' = hdr.head
  /\ TailId' = hdr.tail
  /\ newTail' = hdr.tail
  /\ newHead' = hdr.head
  /\ UNCHANGED <<fileVars, hdr, disk, clock>>

\* Mutant: the scan gives rows up whatever their timestamps.
TailScanEverything == newTail < HeadId

\* 1.1: give up the first rows when their timestamps are in the 1970s.
TailScanGoesOn == TimeOfId(newTail) < TLimit /\ newTail < HeadId

\* Mutant: the loop does not advance new_tail_id.
ScanTailStuck ==
  /\ pc = "tailscan"
  /\ IF TailScanGoesOn
     THEN newTail' = newTail /\ pc' = pc
     ELSE newTail' = newTail /\ pc' = "headscan"
  /\ UNCHANGED <<fileVars, hdr, disk, idVars, newHead, clock>>

ScanTail ==
  /\ pc = "tailscan"
  /\ IF TailScanGoesOn
     THEN newTail' = newTail + 1 /\ pc' = pc
     ELSE newTail' = newTail /\ pc' = "headscan"
  /\ UNCHANGED <<fileVars, hdr, disk, idVars, newHead, clock>>

\* Mutant: the header is believed, no row is looked for past its head.
HeadScanNothing == FALSE

\* 1.3: rows past the head that the header does not count yet are newer than
\* the row before them.
HeadScanGoesOn == TimeOfId(newHead) > TimeOfId(newHead - 1)

ScanHead ==
  /\ pc = "headscan"
  /\ IF HeadScanGoesOn
     THEN newHead' = newHead + 1 /\ pc' = pc
     ELSE newHead' = newHead /\ pc' = "repair"
  /\ UNCHANGED <<fileVars, hdr, disk, idVars, newTail, clock>>

\* Mutant: the file size is not looked at.
RepairedTailUnbounded == newTail

\* The tail that keeps fewer than NumRows rows.
RepairedTail ==
  IF newHead - newTail >= NumRows THEN newHead - NumRows + 1 ELSE newTail

Repair ==
  /\ pc = "repair"
  /\ pc' = "open"
  /\ IF newTail # TailId \/ newHead # HeadId
     THEN /\ hdr' = [head |-> newHead, tail |-> RepairedTail]
          /\ HeadId' = newHead
          /\ TailId' = RepairedTail
     ELSE UNCHANGED <<hdr, idVars>>
  /\ UNCHANGED <<fileVars, disk, scanVars, clock>>
-----------------------------------------------------------------------------
(* Add, under the object's lock: 1. the row, 2. the header, then the fields. *)

\* Mutants: the tail waits until all NumRows rows are in the range; it stays.
NextTailOneMore ==
  IF HeadId - TailId >= NumRows THEN TailId + 1 ELSE TailId
NextTailNever == TailId

NextTail ==
  IF Slot(HeadId + 1) = Slot(TailId) THEN TailId + 1 ELSE TailId

\* PlcEngine adds at most one row a round, so timestamps of rows differ.
AddRow ==
  /\ pc = "open"
  /\ clock <= MaxTime
  /\ HeadId <= MaxId
  /\ pc' = "rowwritten"
  /\ time' = [time EXCEPT ![Slot(HeadId)] = clock]
  /\ owner' = [owner EXCEPT ![Slot(HeadId)] = HeadId]
  /\ added' = HeadId + 1
  /\ clock' = clock + 1
  /\ UNCHANGED <<usable, hdr, disk, idVars, scanVars>>

AddHeader ==
  /\ pc = "rowwritten"
  /\ pc' = "headerwritten"
  /\ hdr' = [head |-> HeadId + 1, tail |-> NextTail]
  /\ UNCHANGED <<fileVars, disk, idVars, scanVars, clock>>

PublishHead ==
  /\ pc = "headerwritten"
  /\ pc' = "headset"
  /\ HeadId' = hdr.head
  /\ UNCHANGED <<fileVars, hdr, disk, TailId, scanVars, clock>>

PublishTail ==
  /\ pc = "headset"
  /\ pc' = "open"
  /\ TailId' = hdr.tail
  /\ UNCHANGED <<fileVars, hdr, disk, HeadId, scanVars, clock>>
-----------------------------------------------------------------------------
(* The end of the object, and the file without it. *)

\* The object is gone; the next one starts with fields of zero.
Forget ==
  /\ pc' = "closed"
  /\ HeadId' = 0
  /\ TailId' = 0
  /\ UNCHANGED <<fileVars, scanVars, clock>>

Close ==
  /\ pc = "open"
  /\ Forget
  /\ UNCHANGED <<hdr, disk>>

Kill ==
  /\ pc \in Opening \cup Adding
  /\ Forget
  /\ UNCHANGED <<hdr, disk>>

HeaderFlush ==
  /\ disk # hdr
  /\ disk' = hdr
  /\ UNCHANGED <<fileVars, hdr, idVars, pc, scanVars, clock>>

PowerLoss ==
  /\ disk # hdr
  /\ disk.head = 0 \/ added - disk.head < NumRows
  /\ Forget
  /\ hdr' = disk
  /\ UNCHANGED disk

\* The file is removed, or the program is replaced by one of another version.
Outdate ==
  /\ pc = "closed"
  /\ usable
  /\ usable' = FALSE
  /\ UNCHANGED <<time, owner, added, hdr, disk, idVars, pc, scanVars, clock>>

Constructor ==
  Recreate \/ OpenEmpty \/ OpenFile \/ ScanTail \/ ScanHead \/ Repair

Add == AddRow \/ AddHeader \/ PublishHead \/ PublishTail

Next == Constructor \/ Add \/ Close \/ Kill \/ HeaderFlush \/ PowerLoss \/ Outdate

Spec == Init /\ [][Next]_vars
-----------------------------------------------------------------------------
(* What the controller does to the clock and to the file behind its back. *)

\* The clock is set back: the tablet restarts in 1970, NTP corrects it.
ClockSetBack ==
  /\ \E t \in 1 .. clock - 1 : clock' = t
  /\ UNCHANGED <<fileVars, hdr, disk, idVars, pc, scanVars>>

\* New signals change the row length: the file is re-created, and what
\* bytes of the old rows now lie where a slot's timestamp is read is anybody's guess.
RecreateWithNewLength ==
  /\ pc = "closed"
  /\ ~usable
  /\ usable' = TRUE
  /\ pc' = "open"
  /\ hdr' = EmptyHeader
  /\ disk' = EmptyHeader
  /\ StartOver
  /\ time' \in [Slots -> 0 .. MaxTime + 1]
  /\ UNCHANGED <<idVars, scanVars, clock>>

AnyNext == Next \/ ClockSetBack \/ RecreateWithNewLength
AnySpec == Init /\ [][AnyNext]_vars

\* A process that is not killed keeps executing the constructor.
FairAnySpec ==
  AnySpec /\ WF_vars(ScanTail) /\ WF_vars(ScanHead) /\ WF_vars(Repair)
-----------------------------------------------------------------------------
TypeOK ==
  /\ time \in [Slots -> Nat]
  /\ owner \in [Slots -> Nat \cup {NoId}]
  /\ added \in Nat
  /\ usable \in BOOLEAN
  /\ hdr \in Header
  /\ disk \in Header
  /\ HeadId \in Nat
  /\ TailId \in Nat
  /\ pc \in {"closed", "open"} \cup Opening \cup Adding
  /\ newTail \in Nat
  /\ newHead \in Nat
  /\ clock \in Nat

\* The range [TailId .. HeadId) that readers see never has more Ids than the
\* ring can hold, one row being sacrificed so that an Add never overwrites a
\* row that is still in the range; while an Add publishes it may have one
\* more.  Holds whatever the clock and the old bytes of the file say.
RangeBounded ==
  /\ pc = "open" => TailId <= HeadId /\ HeadId - TailId <= NumRows - 1
  /\ pc \in Adding => TailId <= HeadId /\ HeadId - TailId <= NumRows
  /\ hdr.tail <= hdr.head /\ hdr.head - hdr.tail <= NumRows - 1

Readable == pc \in {"open"} \cup Adding

\* Every Id of the range addresses the row that was added under it, also in
\* the middle of an Add and after any recovery (CircularDB.java:30-32).
SlotsHoldTheirRows ==
  Readable => \A id \in TailId .. HeadId - 1 : owner[Slot(id)] = id

\* A constructor call that gets to its end.
Constructed == pc \in {"closed"} \cup Opening /\ pc' = "open"

\* The Id after the last row that reached the file, which the header may not
\* count yet.  Behind a header that counts no row there is no such Id.
NextId == IF usable /\ hdr.head > 0 THEN added ELSE 0

\* A constructor that finds a header with at least one row in it finds exactly
\* the rows that reached the file: none is lost, none counted twice, and no Id
\* is given to a second row.  It starts again with Id 0, whatever rows
\* the file holds, only when the header counts none (CircularDB.java:96) or
\* the file is not one of this version.
IdsContinue == [][Constructed => HeadId' = NextId]_vars

\* A row that the constructor drops from the range has a timestamp of the
\* 1970s or no longer has a slot of its own.
DropsOnly(id) == time[Slot(id)] < TLimit \/ id + NumRows <= HeadId'

\* Neither end of the range loses a row: at the head IdsContinue, at the tail
\* nothing but what the code gives up on purpose.
RecoveryKeepsRows ==
  [][Constructed =>
       /\ HeadId' = NextId
       /\ \A id \in TailId .. TailId' - 1 : DropsOnly(id)]_vars

\* The do-while scan of the constructor has no bound of its own: it ends
\* because timestamps cannot grow all the way around the ring.
RecoveryEnds ==
  pc \in Opening ~> pc \in {"open", "closed"}
-----------------------------------------------------------------------------
(* Inductive invariants (see CircularDB_proofs). *)

HeaderOK(h) == h.tail <= h.head /\ h.head - h.tail <= NumRows - 1

\* How the fields, the header and the locals of the constructor relate.
FieldsOK ==
  /\ pc = "closed" => HeadId = 0 /\ TailId = 0
  /\ pc # "closed" => usable
  /\ pc \in Opening =>
       /\ HeadId > 0 /\ HeadId = hdr.head /\ TailId = hdr.tail
       /\ TailId <= newTail /\ newTail <= HeadId /\ HeadId <= newHead
  /\ pc \in {"open", "rowwritten"} => HeadId = hdr.head /\ TailId = hdr.tail
  /\ pc = "headerwritten" => hdr.head = HeadId + 1 /\ TailId <= HeadId
  /\ pc = "headset" => hdr.head = HeadId
  /\ pc \in {"headerwritten", "headset"} =>
       \/ hdr.tail = TailId
       \/ hdr.tail = TailId + 1 /\ hdr.head - TailId = NumRows

RangeInv == TypeOK /\ HeaderOK(hdr) /\ HeaderOK(disk) /\ FieldsOK

\* Every slot holds the newest of the rows it was given in this numbering,
\* and a row with a larger Id is newer, rows of no numbering being oldest.
RowsOK ==
  /\ \A id \in 0 .. added - 1 : added <= id + NumRows => owner[Slot(id)] = id
  /\ \A s \in Slots :
       \/ owner[s] = NoId
       \/ s = Slot(owner[s]) /\ owner[s] < added /\ added <= owner[s] + NumRows
  /\ \A s, r \in Slots : owner[s] < owner[r] => time[s] < time[r]
  /\ \A s \in Slots : time[s] < clock

\* How far the header may lag behind the rows.
HeadersLag ==
  /\ disk.head <= hdr.head /\ hdr.head <= added
  /\ hdr.head = 0 \/ added - hdr.head < NumRows
  /\ pc = "open" => HeadId = added
  /\ pc = "rowwritten" => HeadId + 1 = added
  /\ pc \in {"headerwritten", "headset"} => hdr.head = added
  /\ pc \in Opening => newHead <= added
  /\ pc = "repair" => newHead = added

\* The rows the constructor has given up so far.
GivenUp ==
  pc \in Opening => \A id \in TailId .. newTail - 1 : TimeOfId(id) < TLimit

RingInv == RangeInv /\ RowsOK /\ HeadersLag /\ GivenUp
-----------------------------------------------------------------------------
(***************************************************************************)
(* The abstract store that the ring implements (module RowLog): nothing is *)
(* visible while the object is being constructed.                          *)
(***************************************************************************)
AbstractHead == IF Readable THEN HeadId ELSE 0
AbstractTail == IF Readable THEN TailId ELSE 0

Log == INSTANCE RowLog WITH
         Capacity <- NumRows,
         up <- Readable,
         first <- AbstractTail,
         next <- AbstractHead,
         given <- added,
         counted <- hdr.head,
         fits <- usable

\* The ring implements the abstract store: Ids go on where they stopped
\* across kills and power failures; they start over at 0, with an empty range,
\* only when no row was counted or the file is of another version.
ImplementsRowLog == Log!Spec
=============================================================================
