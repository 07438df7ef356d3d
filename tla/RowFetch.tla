------------------------------ MODULE RowFetch ------------------------------
(***************************************************************************)
(* Queries for rows: PlcEngine._sendRows on top of CircularDB.Fetch.       *)
(*                                                                         *)
(* Fetch seeks to the slot of the first row and then reads on, so a read   *)
(* behind the last slot hits the end of the file and leaves the buffer as  *)
(* it was; the buffers are kept from one query to the next.  A row is its  *)
(* timestamp, 0 in a buffer that was never filled.  The ring is open here: *)
(* its crashes and recovery are the business of CircularDB.                *)
(***************************************************************************)
EXTENDS CircularDB, Sequences

CONSTANT MaxBatch      \* MAX_BATCH_SIZE

ASSUME MaxBatchAssumption == MaxBatch \in Nat \ {0}

VARIABLES buffer,      \* _Batch_Buffer
          reply        \* last ResponseToDatabaseRows: Id of its first row, rows

fetchVars == <<vars, buffer, reply>>

NoReply == [first |-> 0, rows |-> <<>>]

FetchInit ==
  /\ Init
  /\ buffer = <<>>
  /\ reply = NoReply

\* plc_thread: a range that is too long is served from its newer end.
BatchTail(tail, head) == IF head - tail > MaxBatch THEN head - MaxBatch ELSE tail

\* Number of rows Fetch reports: all up to the head of the database, none
\* (or a negative number) when the range starts before its tail.
FetchCount(tail, head) ==
  IF tail < TailId THEN -1
  ELSE IF head <= HeadId \/ head <= tail THEN head - tail
  ELSE IF tail < HeadId THEN HeadId - tail ELSE 0

\* Mutant: the seek takes the Id for the slot of the next one.
ReadIntoNext(buf, tail, n) ==
  [i \in DOMAIN buf |->
     IF i <= n /\ Slot(tail) + i < NumRows
     THEN time[Slot(tail) + i]
     ELSE buf[i]]

\* buffer[i] after n sequential reads from the slot of tail.
ReadInto(buf, tail, n) ==
  [i \in DOMAIN buf |->
     IF i <= n /\ Slot(tail) + i - 1 < NumRows
     THEN time[Slot(tail) + i - 1]
     ELSE buf[i]]

\* Buffers are added, never removed.
Grown(size) ==
  [i \in 1 .. (IF size > Len(buffer) THEN size ELSE Len(buffer)) |->
     IF i <= Len(buffer) THEN buffer[i] ELSE 0]

\* A query for [tail0 .. head) taken from the queue by the PLC thread.
SendRows(tail0, head) ==
  LET tail == BatchTail(tail0, head)
      n == FetchCount(tail, head)
  IN /\ pc = "open"
     /\ buffer' = ReadInto(Grown(head - tail), tail, n)
     /\ reply' = [first |-> tail, rows |-> SubSeq(buffer', 1, n)]
     /\ UNCHANGED vars

FetchNext ==
  \/ (Recreate \/ Add) /\ UNCHANGED <<buffer, reply>>
  \/ \E tail, head \in 0 .. MaxId + 2 : SendRows(tail, head)

FetchSpec == FetchInit /\ [][FetchNext]_fetchVars
-----------------------------------------------------------------------------
RowIds(r) == {r.first + i - 1 : i \in DOMAIN r.rows}

RowsCorrect(r) == \A i \in DOMAIN r.rows : r.rows[i] = TimeOfId(r.first + i - 1)

\* A reply names only rows of the range, also when the range moved on after
\* the query was made (CircularDB.java:218-221); it is no longer than
\* MAX_BATCH_SIZE and leaves out no row between its own and the head of the query,
\* the newer ones being served (PlcEngine.java:28); and, whatever earlier queries
\* left in the buffers, it has the rows that its Ids name, as long as they are in
\* consecutive slots: those of a query that runs over the end of the file are
\* not read, and the reply has rows of an earlier query in their place.
RepliesCorrect ==
  [][\A tail, head \in 0 .. MaxId + 2 :
       SendRows(tail, head) =>
         /\ RowIds(reply') \subseteq TailId .. HeadId - 1
         /\ Len(reply'.rows) <= MaxBatch
         /\ reply'.rows # <<>> /\ head <= HeadId
              => reply'.first + Len(reply'.rows) = head
         /\ Slot(reply'.first) + Len(reply'.rows) <= NumRows
              => RowsCorrect(reply')]_fetchVars
=============================================================================
