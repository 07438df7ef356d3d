------------------------------ MODULE RowSync -------------------------------
(***************************************************************************)
(* Rows on their way from the PLC to the database of the server: the three *)
(* threads of PlcEngine (PLC round, server input, server output), the TCP  *)
(* connections between them and PlcServer2, and the server's mailbox.      *)
(*                                                                         *)
(* A row is the Id under which CircularDB.Add stored it; in a message it   *)
(* travels with a label, its RowId.  The ring is only its published range  *)
(* (CircularDB has the rest), HeadId and TailId change together, and a     *)
(* reply has the rows its query names.  Connections are numbered; what was *)
(* sent on one that broke arrives up to some point and the server may      *)
(* still be reading it when the next one is open.                          *)
(***************************************************************************)
EXTENDS SyncRanges

CONSTANTS Setups,   \* capacity: NumRows - 1, the most rows the range has;
                    \* oldBelow: rows below this one are older than ARCHIVE_TIMESPAN;
                    \* senderKeepsUp: the output queue is sent before a round ends;
                    \* firstHead: rows the PLC has when the model starts;
                    \* maxHead: bound of the model, rows added by the PLC
          MaxConn   \* bound of the model: connections

ASSUME SyncAssumption ==
  /\ Setups \subseteq [capacity : Nat \ {0}, oldBelow : Nat, senderKeepsUp : BOOLEAN,
                       firstHead : Nat, maxHead : Nat]
  /\ MaxConn \in Nat

VARIABLES
  setup,            \* chosen once
  HeadId, TailId,   \* _DB.HeadId, _DB.TailId
  round, modbus,    \* where the PLC thread stands in its round; modbus # null
  trigger,          \* _trigger_db_write
  outbox,           \* _messages_to_server
  queries,          \* _queries: ranges asked for
  input,            \* where the server input thread stands
  greeting,         \* range read for the greeting
  stream,           \* _messages_output_stream: its connection, 0 for null
  out,              \* server output thread: the stream it has picked up, or 0
  conn, up,         \* number of the newest connection, and whether it holds
  toServer, toPlc,  \* what is on its way on each connection
  user,             \* the server's user of each connection
  toFetch,          \* rows_to_fetch of each user
  db                \* SignalValue: rows and the labels they are stored under

ringVars == <<HeadId, TailId>>
plcVars == <<round, modbus, trigger>>
inputVars == <<input, greeting, stream>>
netVars == <<conn, up, toServer, toPlc>>
serverVars == <<user, toFetch, db>>
vars == <<setup, ringVars, plcVars, outbox, queries, inputVars, out, netVars, serverVars>>

Conns == 1 .. MaxConn
Greeting(r) == [type |-> "greeting", range |-> r]
LabelledRow(l, r) == [label |-> l, row |-> r]
Rows(s) == [type |-> "rows", rows |-> s]       \* ResponseToDatabaseRows
LiveRow(x) == [type |-> "live", rows |-> {x}]  \* OOBDatabaseRow

Init ==
  /\ setup \in Setups
  /\ HeadId = setup.firstHead
  /\ TailId = Max({0, setup.firstHead - setup.capacity})
  /\ round = "flush" /\ modbus = FALSE /\ trigger = FALSE
  /\ outbox = <<>> /\ queries = <<>>
  /\ input = "offline" /\ greeting = IdRange(0, 0) /\ stream = 0 /\ out = 0
  /\ conn = 0 /\ up = FALSE
  /\ toServer = [c \in Conns |-> <<>>] /\ toPlc = [c \in Conns |-> <<>>]
  /\ user = [c \in Conns |-> "none"] /\ toFetch = [c \in Conns |-> <<>>]
  /\ db = {}
-----------------------------------------------------------------------------
(* PLC thread: one round is flush, modbus and row, queries, logic, sleep. *)

\* Sleeping a second at the end of the round gives the output thread time.
FlushRound ==
  /\ round = "flush"
  /\ setup.senderKeepsUp /\ stream # 0 => outbox = <<>>
  /\ outbox' = <<>>
  /\ round' = IF modbus THEN "row" ELSE "connect"
  /\ UNCHANGED <<ringVars, modbus, trigger, queries, inputVars, out, netVars, serverVars>>

\* Without a modbus connection the round still looks at the queries.
ModbusConnect ==
  /\ round = "connect"
  /\ \/ modbus' = TRUE /\ trigger' = TRUE /\ round' = "row"
     \/ UNCHANGED <<modbus, trigger>> /\ round' = "queries"
  /\ UNCHANGED <<ringVars, outbox, queries, inputVars, out, netVars, serverVars>>

\* The modbus connection is closed; queries wait for the next round.
ModbusClose ==
  /\ modbus' = FALSE
  /\ round' = "flush"

\* No device answers.
DevicesFail ==
  /\ round = "row"
  /\ ModbusClose
  /\ UNCHANGED <<ringVars, trigger, outbox, queries, inputVars, out, netVars, serverVars>>

\* Some devices answer, one may have lost the connection.
AfterRow == ModbusClose \/ (round' = "queries" /\ UNCHANGED modbus)

\* The row is written when it differs or is triggered, else once in a minute;
\* the trigger is cleared in a step of its own.
CompareRow ==
  /\ round = "row"
  /\ \/ /\ HeadId < setup.maxHead
        /\ round' \in IF trigger THEN {"different"} ELSE {"different", "minute"}
        /\ UNCHANGED modbus
     \/ /\ ~trigger \/ HeadId = setup.maxHead
        /\ AfterRow
  /\ UNCHANGED <<ringVars, trigger, outbox, queries, inputVars, out, netVars, serverVars>>

\* Mutant of LiveLabel: once more off by one.
LiveLabelTwo == HeadId' + 1

\* The label of a live row is HeadId as it is after the Add.
LiveLabel == HeadId'

WriteRow ==
  /\ round \in {"different", "minute"}
  /\ trigger' = IF round = "different" THEN FALSE ELSE trigger
  /\ HeadId' = HeadId + 1
  /\ TailId' = Max({TailId, HeadId + 1 - setup.capacity})
  /\ outbox' = Append(outbox, LiveRow(LabelledRow(LiveLabel, HeadId)))
  /\ AfterRow
  /\ UNCHANGED <<queries, inputVars, out, netVars, serverVars>>

\* CircularDB.Fetch gives nothing when the range starts before the tail.
Fetched(r) ==
  IF r.tail < TailId THEN {}
  ELSE {LabelledRow(i, i) : i \in {j \in TailId .. HeadId - 1 : r.tail <= j /\ j < r.head}}

\* Mutant of ServeQuery: the query stays in the queue.
ServeQueryPeek ==
  /\ round = "queries"
  /\ queries # <<>>
  /\ outbox' = Append(outbox, Rows(Fetched(Head(queries))))
  /\ UNCHANGED <<ringVars, plcVars, queries, inputVars, out, netVars, serverVars>>

ServeQuery ==
  /\ round = "queries"
  /\ queries # <<>>
  /\ outbox' = Append(outbox, Rows(Fetched(Head(queries))))
  /\ queries' = Tail(queries)
  /\ UNCHANGED <<ringVars, plcVars, inputVars, out, netVars, serverVars>>

EndRound ==
  /\ round = "queries"
  /\ queries = <<>>
  /\ round' = "flush"
  /\ UNCHANGED <<ringVars, modbus, trigger, outbox, queries, inputVars, out, netVars, serverVars>>
-----------------------------------------------------------------------------
(* Server input thread. *)

Connect ==
  /\ input = "offline"
  /\ conn < MaxConn
  /\ conn' = conn + 1
  /\ up' = TRUE
  /\ user' = [user EXCEPT ![conn'] = "stranger"]
  /\ trigger' = TRUE
  /\ input' = "connected"
  /\ UNCHANGED <<ringVars, round, modbus, outbox, queries, greeting, stream, out,
                 toServer, toPlc, toFetch, db>>

\* The queue is emptied once more, the stream is set and the greeting begun.
OpenStream ==
  /\ input = "connected"
  /\ outbox' = <<>>
  /\ stream' = conn
  /\ input' = "tail"
  /\ UNCHANGED <<ringVars, plcVars, queries, greeting, out, netVars, serverVars>>

GreetTail ==
  /\ input = "tail"
  /\ greeting' = IdRange(TailId, 0)
  /\ input' = "head"
  /\ UNCHANGED <<ringVars, plcVars, outbox, queries, stream, out, netVars, serverVars>>

GreetHead ==
  /\ input = "head"
  /\ greeting' = [greeting EXCEPT !.head = HeadId]
  /\ input' = "greet"
  /\ UNCHANGED <<ringVars, plcVars, outbox, queries, stream, out, netVars, serverVars>>

Greet ==
  /\ input = "greet"
  /\ outbox' = Append(outbox, Greeting(greeting))
  /\ input' = "reading"
  /\ UNCHANGED <<ringVars, plcVars, queries, greeting, stream, out, netVars, serverVars>>

\* Queries of an earlier connection are not forgotten.
Read ==
  /\ input = "reading"
  /\ toPlc[conn] # <<>>
  /\ queries' = Append(queries, Head(toPlc[conn]))
  /\ toPlc' = [toPlc EXCEPT ![conn] = Tail(@)]
  /\ UNCHANGED <<ringVars, plcVars, outbox, inputVars, out, conn, up, toServer, serverVars>>

\* Nothing more can be read: the loop starts over.
ReadFails ==
  /\ input = "reading"
  /\ ~up
  /\ toPlc[conn] = <<>>
  /\ input' = "offline"
  /\ stream' = 0
  /\ outbox' = <<>>
  /\ UNCHANGED <<ringVars, plcVars, queries, greeting, out, netVars, serverVars>>
-----------------------------------------------------------------------------
(* Server output thread: the stream is picked up before the message. *)

PickStream ==
  /\ out = 0
  /\ stream # 0
  /\ out' = stream
  /\ UNCHANGED <<ringVars, plcVars, outbox, queries, inputVars, netVars, serverVars>>

\* A message written to a broken connection is gone.
Send ==
  /\ out # 0
  /\ outbox # <<>>
  /\ toServer' = IF out = conn /\ up
                 THEN [toServer EXCEPT ![out] = Append(@, Head(outbox))]
                 ELSE toServer
  /\ outbox' = Tail(outbox)
  /\ out' = 0
  /\ UNCHANGED <<ringVars, plcVars, queries, inputVars, conn, up, toPlc, serverVars>>

NothingToSend ==
  /\ out # 0
  /\ outbox = <<>>
  /\ out' = 0
  /\ UNCHANGED <<ringVars, plcVars, outbox, queries, inputVars, netVars, serverVars>>
-----------------------------------------------------------------------------
(* The connection breaks: a prefix of what was sent still arrives. *)
Break ==
  /\ up
  /\ up' = FALSE
  /\ \E n \in 0 .. Len(toServer[conn]), m \in 0 .. Len(toPlc[conn]) :
       /\ toServer' = [toServer EXCEPT ![conn] = SubSeq(@, 1, n)]
       /\ toPlc' = [toPlc EXCEPT ![conn] = SubSeq(@, 1, m)]
  /\ UNCHANGED <<ringVars, plcVars, outbox, queries, inputVars, out, conn, serverVars>>
-----------------------------------------------------------------------------
(* Server: one message of one connection is taken from the mailbox. *)

Labels == {x.label : x \in db}
Received(c) == Head(toServer[c])

\* query_next_rows_if_any, when the queue of user c is q; writing to a broken
\* connection fails.
QueryNext(c, q) ==
  IF q = <<>>
  THEN /\ toFetch' = [toFetch EXCEPT ![c] = q]
       /\ UNCHANGED toPlc
  ELSE /\ toFetch' = [toFetch EXCEPT ![c] = Tail(q)]
       /\ toPlc' = IF c = conn /\ up
                   THEN [toPlc EXCEPT ![c] = Append(@, Head(q))]
                   ELSE toPlc

\* The first message has to be the greeting, else the connection is closed.
Reject(c) ==
  /\ toServer[c] # <<>>
  /\ user[c] = "stranger"
  /\ Received(c).type # "greeting"
  /\ user' = [user EXCEPT ![c] = "rejected"]
  /\ up' = IF c = conn THEN FALSE ELSE up
  /\ toServer' = [toServer EXCEPT ![c] = <<>>]
  /\ UNCHANGED <<ringVars, plcVars, outbox, queries, inputVars, out, conn, toPlc,
                 toFetch, db>>

Welcome(c) ==
  /\ toServer[c] # <<>>
  /\ Received(c).type = "greeting"
  /\ user' = [user EXCEPT ![c] = "plc"]
  /\ QueryNext(c, RowsToFetch(Labels, Received(c).range.tail, Received(c).range.head))
  /\ toServer' = [toServer EXCEPT ![c] = Tail(@)]
  /\ UNCHANGED <<ringVars, plcVars, outbox, queries, inputVars, out, conn, up, db>>

\* A row that is there already, label and time, is not stored again.
StoreLive(c) ==
  /\ toServer[c] # <<>>
  /\ user[c] = "plc"
  /\ Received(c).type = "live"
  /\ db' = db \cup Received(c).rows
  /\ toServer' = [toServer EXCEPT ![c] = Tail(@)]
  /\ UNCHANGED <<ringVars, plcVars, outbox, queries, inputVars, out, conn, up, toPlc,
                 user, toFetch>>

\* Rows whose label the database does not have; the young ones are stored.
New(rows) == {x \in rows : x.label \notin Labels}
Old(rows) == {x \in rows : x.row < setup.oldBelow}

\* Mutant of Unfetched: one old row discards what is left, always.
UnfetchedAll(c) == <<>>

\* An old row ends the synchronisation: all that is left is older.
Unfetched(c) == IF Old(New(Received(c).rows)) # {} THEN <<>> ELSE toFetch[c]

StoreRows(c) ==
  /\ toServer[c] # <<>>
  /\ user[c] = "plc"
  /\ Received(c).type = "rows"
  /\ db' = db \cup (New(Received(c).rows) \ Old(Received(c).rows))
  /\ IF Received(c).rows = {}
     THEN UNCHANGED <<toFetch, toPlc>>
     ELSE QueryNext(c, Unfetched(c))
  /\ toServer' = [toServer EXCEPT ![c] = Tail(@)]
  /\ UNCHANGED <<ringVars, plcVars, outbox, queries, inputVars, out, conn, up, user>>

Serve(c) == Reject(c) \/ Welcome(c) \/ StoreLive(c) \/ StoreRows(c)
-----------------------------------------------------------------------------
PlcThread ==
  \/ FlushRound \/ ModbusConnect \/ DevicesFail \/ CompareRow \/ WriteRow
  \/ ServeQuery \/ EndRound
InputThread == Connect \/ OpenStream \/ GreetTail \/ GreetHead \/ Greet \/ Read \/ ReadFails
OutputThread == PickStream \/ Send \/ NothingToSend

Next ==
  /\ \/ PlcThread \/ InputThread \/ OutputThread
     \/ Break
     \/ \E c \in Conns : Serve(c)
  /\ UNCHANGED setup

Spec == Init /\ [][Next]_vars

Fair(A) == A /\ UNCHANGED setup

\* Every thread gets to run.  A round that gets as far as the rows gets as far
\* as the queries again and again: not every round loses the modbus connection.
Fairness ==
  /\ WF_vars(Fair(FlushRound)) /\ WF_vars(Fair(ModbusConnect)) /\ WF_vars(Fair(CompareRow))
  /\ WF_vars(Fair(WriteRow)) /\ WF_vars(Fair(EndRound)) /\ WF_vars(Fair(ServeQuery))
  /\ SF_vars(Fair(CompareRow) /\ round' # "flush")
  /\ WF_vars(Fair(Connect \/ OpenStream \/ GreetTail \/ GreetHead \/ Greet))
  /\ WF_vars(Fair(Read)) /\ WF_vars(Fair(ReadFails))
  /\ WF_vars(Fair(PickStream)) /\ WF_vars(Fair(Send)) /\ WF_vars(Fair(NothingToSend))
  /\ \A c \in Conns : WF_vars(Fair(Serve(c)))

FairSpec == Spec /\ Fairness
-----------------------------------------------------------------------------
RangeTypes == [tail : Nat, head : Nat]
RowTypes == [label : Nat, row : Nat]
IsMessage(m) ==
  \/ m.type = "greeting" /\ m.range \in RangeTypes
  \/ m.type \in {"live", "rows"} /\ m.rows \subseteq RowTypes

TypeOK ==
  /\ HeadId \in Nat /\ TailId \in 0 .. HeadId
  /\ round \in {"flush", "connect", "row", "different", "minute", "queries"}
  /\ modbus \in BOOLEAN /\ trigger \in BOOLEAN
  /\ input \in {"offline", "connected", "tail", "head", "greet", "reading"}
  /\ greeting \in RangeTypes
  /\ stream \in 0 .. conn /\ out \in 0 .. conn /\ conn \in 0 .. MaxConn /\ up \in BOOLEAN
  /\ \A i \in DOMAIN outbox : IsMessage(outbox[i])
  /\ \A c \in Conns : \A i \in DOMAIN toServer[c] : IsMessage(toServer[c][i])
  /\ queries \in Seq(RangeTypes)
  /\ toPlc \in [Conns -> Seq(RangeTypes)] /\ toFetch \in [Conns -> Seq(RangeTypes)]
  /\ user \in [Conns -> {"none", "stranger", "plc", "rejected"}]
  /\ db \subseteq RowTypes

\* What the database has are rows of the PLC, and whichever way a row came, by
\* whatever connection, it is under its own Id or the next one: a row can be
\* lost or doubled by the shift of live rows, but no further displaced
\* (PlcEngine.java:456 against PlcEngine.java:904).
StoredNearOwnId == \A x \in db : x.row < HeadId /\ x.label - x.row \in {0, 1}

\* What the server asks for is right whatever the database has by then, and however
\* far back the ring reaches (AsksRight of SyncRanges, PlcServer2.fs:183-200).
RangesRight == \A t \in 0 .. HeadId : AsksRight(Labels, t, HeadId)

Answers(s) == {i \in DOMAIN s : s[i].type = "rows"}

\* The queries and answers that are about, each with its place.
InPlay ==
  {<<"queries", 0, i>> : i \in DOMAIN queries}
    \cup {<<"outbox", 0, i>> : i \in Answers(outbox)}
    \cup (UNION {{<<"toPlc", c, i>> : i \in DOMAIN toPlc[c]} : c \in Conns})
    \cup (UNION {{<<"toServer", c, i>> : i \in Answers(toServer[c])} : c \in Conns})

\* Flow control: a query is sent for a greeting or for an answer, so there are
\* never more of them about than the server greeted connections, also when
\* answers to an old connection come in on a new one, or queries wait in
\* _queries over a reconnect (PlcServer2.fs:115-121, 202, 263).
OneQueryPerGreeting ==
  Cardinality(InPlay) <= Cardinality({c \in Conns : user[c] = "plc"})

Ranges(s) == UNION {IdsOf(s[i]) : i \in DOMAIN s}
Answered(s) == UNION {{x.label : x \in s[i].rows} : i \in Answers(s)}
AskedFor == Ranges(queries) \cup Ranges(toPlc[conn])
OnTheWay == Answered(outbox) \cup Answered(toServer[conn])

\* The database has rows from before the tail: then a batch may start below the tail,
\* and such a query is answered without rows (CircularDB.java:228).
Straddled ==
  IF \E l \in Labels : l < greeting.tail THEN greeting.tail .. greeting.tail + MaxBatch - 2 ELSE {}

\* While its connection holds, the ring retires nothing, no row is too old and the
\* output thread keeps up, an Id of the range the PLC greeted with is in the
\* database, still to be asked for, asked for or on its way; only Ids of a batch that
\* starts below the tail can be lost (PlcServer2.fs:169-205, 227-265).
NoIdForgotten ==
  setup.senderKeepsUp /\ setup.oldBelow = 0 /\ up /\ user[conn] = "plc" /\ TailId = greeting.tail
    => IdsOf(greeting) \ Straddled
         \subseteq Labels \cup Ranges(toFetch[conn]) \cup AskedFor \cup OnTheWay

EmptyAnswer(s) == \E i \in Answers(s) : s[i].rows = {}
NoEmptyAnswer == ~EmptyAnswer(outbox) /\ \A c \in Conns : ~EmptyAnswer(toServer[c])

\* The rows of the greeting all get to the server, whatever broke before, when a
\* connection it accepted holds, the output thread keeps up and no answer without
\* rows ends the synchronisation (PlcServer2.fs:202, 263, PlcEngine.java:547-624).
SyncFills ==
  setup.senderKeepsUp /\ []NoEmptyAnswer /\ <>[](up /\ user[conn] = "plc")
    => <>[](input = "reading" /\ IdsOf(greeting) \subseteq Labels)

=============================================================================
