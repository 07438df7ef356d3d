----------------------------- MODULE SyncRanges -----------------------------
(***************************************************************************)
(* Which rows the server asks a PLC for (PlcServer2.fs, OOBDatabaseRange): *)
(* the Ids of [tail .. head) that the database has no row for, cut into    *)
(* batches, the newest batch first.                                        *)
(***************************************************************************)
EXTENDS Integers, Sequences, FiniteSetsExt

CONSTANTS MaxBatch,    \* MAX_BATCH_SIZE
          Extra        \* how far behind head the last hole reaches: 10

ASSUME BatchAssumption == MaxBatch \in Nat \ {0} /\ Extra \in Nat

IdRange(t, h) == [tail |-> t, head |-> h]
IdsOf(r) == r.tail .. r.head - 1

\* Mutant of NumBatches: not rounded up.
NumBatchesFloor(t, h) == (h - t) \div MaxBatch

NumBatches(t, h) == (h - t + MaxBatch - 1) \div MaxBatch

\* U.enqueue_range.
Batches(t, h) ==
  {IdRange(t + i * MaxBatch, Min({h, t + (i + 1) * MaxBatch}))
     : i \in 0 .. NumBatches(t, h) - 1}

\* The database is empty: all batches are full, the last one reaches behind head.
AllBatches(t, h) ==
  {IdRange(t + i * MaxBatch, t + (i + 1) * MaxBatch)
     : i \in 0 .. NumBatches(t, h) - 1}

\* Between tail and the first Id of the database, and between two that follow
\* one another; an Id below tail counts like any other.
FirstHole(ids, t) == IF t < Min(ids) THEN {IdRange(t, Min(ids))} ELSE {}

InnerHoles(ids) ==
  {r \in {IdRange(p + 1, q) : p \in ids, q \in ids} :
     r.tail < r.head /\ \A x \in ids : x < r.tail \/ r.head <= x}

\* Behind the last Id of the database.
LastHole(ids, h) ==
  LET t == Max(ids) + 1 IN IF t <= h THEN {IdRange(t, h + Extra)} ELSE {}

MissingBatches(ids, t, h) ==
  IF ids = {}
  THEN AllBatches(t, h)
  ELSE UNION {Batches(r.tail, r.head)
                : r \in FirstHole(ids, t) \cup InnerHoles(ids) \cup LastHole(ids, h)}

Newer(batches, r) == {s \in batches : s.tail > r.tail}
NewestFirst(batches) ==
  [i \in 1 .. Cardinality(batches) |->
     CHOOSE r \in batches : Cardinality(Newer(batches, r)) = i - 1]

\* rows_to_fetch after the message.
RowsToFetch(ids, t, h) == NewestFirst(MissingBatches(ids, t, h))
-----------------------------------------------------------------------------
\* The scan for holes finds every Id of an announced range that the database has
\* no row for, and asks for no row again; no batch is longer than
\* MAX_BATCH_SIZE, and batches come newest first and do not overlap
\* (PlcServer2.fs:183-200, U.fs:57-64), so a synchronisation that is cut off
\* leaves only rows that are older than all it asked for.
AsksRight(ids, t, h) ==
  LET queue == RowsToFetch(ids, t, h)
      asked == UNION {IdsOf(queue[i]) : i \in DOMAIN queue}
  IN  /\ (t .. h - 1) \ ids \subseteq asked
      /\ asked \cap ids = {}
      /\ \A i \in DOMAIN queue :
           /\ queue[i].tail < queue[i].head /\ queue[i].head - queue[i].tail <= MaxBatch
           /\ \A j \in 1 .. i - 1 : queue[i].head <= queue[j].tail
=============================================================================
