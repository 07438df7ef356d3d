------------------------------ MODULE PlcServer ------------------------------
(***************************************************************************)
(* PlcServer2.fs: the thread of every connection, the mailbox that owns the *)
(* users, the thread that writes to each user, what the operators are told  *)
(* by SMS, and the clock of the pings.                                      *)
(*                                                                          *)
(* All PLC connections are of one PLC with one signal that has a            *)
(* notification condition; its connection and its value are counted the     *)
(* same way, so one counter stands for both.  A row is whether the signal   *)
(* alarms in it.  RowSync has the rows, their Ids and the queries for them. *)
(* Writing the log is left out.                                             *)
(***************************************************************************)
EXTENDS SmsSender, FiniteSets, SequencesExt

CONSTANTS Setups, Conns, None,
          Limit        \* MaxFails of the notification condition

\* What a counter of alarms is: AlarmCounter.
Counters == [count : Nat, notified : BOOLEAN]

ASSUME ServerAssumption ==
  /\ Limit \in Nat \ {0}
  /\ None \notin Conns \cup Counters
  /\ \A u \in Setups : u.answers \subseteq Seq(BOOLEAN)

VARIABLES
  reader,    \* serve_user of each connection
  peer,      \* its socket; "stalled" when the other end does not read
  inbox,     \* what is posted to the mailbox
  mailbox,   \* where mailbox_loop stands: "rows" with the rows it has still to count,
             \* "greet" and "query" while it writes a query itself
  users,     \* PlcUsers and OperatorUsers
  monitors,  \* operators with a PLC in PlcsToMonitor
  toWrite,   \* write_queue of each user
  writer,    \* write_thread of each user
  online,    \* NotifiedAsOnline of each PLC user
  fails,     \* SignalValueFails of each PLC user, for the signal
  clock,     \* due: it is time to ping; settled: the server is up for long
             \* enough; recent: the database has a row of the last minutes
  stopping,  \* PlcServerFacade.Stop was called
  left,      \* bound of the model: messages, stalls and ticks to come
  told,      \* ghost: what the last SMS said of the PLC and of the signal
  excused    \* ghost: ways that led the operators astray, see OperatorsKnow

connVars == <<reader, peer>>
userVars == <<users, monitors, toWrite, writer, online, fails>>
ghostVars == <<told, excused>>
vars == <<setup, senderVars, connVars, inbox, mailbox, userVars, clock, stopping, left,
          ghostVars>>

Plc(c) == setup.kind[c] = "plc"
PlcUsers == {c \in users : Plc(c)}
OperatorUsers == users \ PlcUsers

Busy(at, c, rows, answer) == [at |-> at, user |-> c, rows |-> rows, answer |-> answer]
Loop == Busy("loop", None, <<>>, FALSE)
Message(type, c) == [type |-> type, from |-> c, rows |-> <<>>, answer |-> FALSE]
SignalRows(c, rows, answer) ==
  [type |-> "message", from |-> c, rows |-> rows, answer |-> answer]

Init ==
  /\ setup \in Setups
  /\ SenderInit
  /\ reader = [c \in Conns |-> "none"] /\ peer = [c \in Conns |-> "none"]
  /\ inbox = <<>> /\ mailbox = Loop
  /\ users = {} /\ monitors = {}
  /\ toWrite = [c \in Conns |-> EmptyQueue] /\ writer = [c \in Conns |-> "none"]
  /\ online = [c \in Conns |-> FALSE] /\ fails = [c \in Conns |-> None]
  /\ clock = [due |-> FALSE, settled |-> FALSE, recent |-> FALSE]
  /\ stopping = FALSE
  /\ left = [messages |-> setup.messages, stalls |-> setup.stalls, ticks |-> setup.ticks]
  /\ told = [plc |-> "offline", signal |-> "none"] /\ excused = {}
------------------------------------------------------------------------------
(* serve_incoming_connections and serve_user. *)

Post(m) == inbox' = Append(inbox, m)

ReaderOnly ==
  UNCHANGED <<setup, senderVars, mailbox, userVars, clock, stopping, ghostVars>>

Accept(c) ==
  /\ reader[c] = "none" /\ ~stopping /\ setup.kind[c] # "absent"
  /\ reader' = [reader EXCEPT ![c] = "first"]
  /\ peer' = [peer EXCEPT ![c] = "open"]
  /\ UNCHANGED <<inbox, left>> /\ ReaderOnly

\* PostAndReply: the thread waits for the reply.
LogIn(c) ==
  /\ reader[c] = "first" /\ peer[c] \in {"open", "stalled"}
  /\ Post(Message("start", c))
  /\ reader' = [reader EXCEPT ![c] = "login"]
  /\ UNCHANGED <<peer, left>> /\ ReaderOnly

\* The end of the connection, or DROP_CONNECTION.
HangUp(c) ==
  /\ reader' = [reader EXCEPT ![c] = "gone"]
  /\ peer' = [peer EXCEPT ![c] = "closed"]
  /\ UNCHANGED left /\ ReaderOnly

LeaveFirst(c) == reader[c] = "first" /\ UNCHANGED inbox /\ HangUp(c)

\* At the end of the connection, or when told to drop it.
Leave(c) ==
  /\ reader[c] = "serving"
  /\ peer[c] \in {"broken", "closed"} \/ setup.drops
  /\ Post(Message("finish", c))
  /\ HangUp(c)

Read(c) ==
  /\ reader[c] = "serving" /\ peer[c] \in {"open", "stalled"}
  /\ left.messages > 0
  /\ left' = [left EXCEPT !.messages = @ - 1]
  /\ IF Plc(c)
     THEN \/ \E bad \in BOOLEAN : Post(SignalRows(c, <<bad>>, FALSE))
          \/ \E rows \in setup.answers : Post(SignalRows(c, rows, TRUE))
     ELSE Post(Message("forward", c)) \/ Post(Message("monitor", c))
  /\ UNCHANGED connVars /\ ReaderOnly
------------------------------------------------------------------------------
(* The other end of a connection. *)

PeerOnly ==
  UNCHANGED <<setup, senderVars, reader, inbox, mailbox, userVars, clock, stopping, ghostVars>>

Becomes(c, from, to) == peer[c] \in from /\ peer' = [peer EXCEPT ![c] = to]

Break(c) ==
  setup.breaks /\ Becomes(c, {"open", "stalled"}, "broken") /\ UNCHANGED left /\ PeerOnly

Stall(c) ==
  /\ left.stalls > 0
  /\ left' = [left EXCEPT !.stalls = @ - 1]
  /\ Becomes(c, {"open"}, "stalled") /\ PeerOnly

Resume(c) == Becomes(c, {"stalled"}, "open") /\ UNCHANGED left /\ PeerOnly
------------------------------------------------------------------------------
(* write_thread of a user. *)

WriterOnly ==
  UNCHANGED <<setup, senderVars, connVars, inbox, mailbox, users, monitors, online, fails,
              clock, stopping, left, ghostVars>>

TakeMessage(c) ==
  /\ writer[c] = "take"
  /\ \/ /\ Blocks(toWrite[c])
        /\ toWrite' = [toWrite EXCEPT ![c] = Wait(@)] /\ UNCHANGED writer
     \/ /\ Gives(toWrite[c])
        /\ toWrite' = [toWrite EXCEPT ![c] = Taken(@)]
        /\ writer' = [writer EXCEPT ![c] = "write"]
     \/ /\ GivesNone(toWrite[c])
        /\ writer' = [writer EXCEPT ![c] = "ended"] /\ UNCHANGED toWrite
  /\ WriterOnly

\* An error is logged, and the next message tried.
WriteMessage(c) ==
  /\ writer[c] = "write" /\ peer[c] # "stalled"
  /\ writer' = [writer EXCEPT ![c] = "take"]
  /\ UNCHANGED toWrite /\ WriterOnly
------------------------------------------------------------------------------
(* The counters of alarms. *)

\* Mutant of Counted: a value that comes back is taken as told of.
CountedAsTold(f, bad) ==
  IF f = None THEN [count |-> IF bad THEN 1 ELSE 0, notified |-> ~bad]
  ELSE IF bad
       THEN [count |-> f.count + 1, notified |-> IF f.count = 0 THEN FALSE ELSE f.notified]
       ELSE [count |-> 0, notified |-> TRUE]

\* _UpdateHistory: a failure that was told of is to be revoked, one that was not is
\* not to be told of any more.
Counted(f, bad) ==
  IF f = None THEN [count |-> IF bad THEN 1 ELSE 0, notified |-> ~bad]
  ELSE IF bad
       THEN [count |-> f.count + 1, notified |-> IF f.count = 0 THEN FALSE ELSE f.notified]
       ELSE [count |-> 0, notified |-> IF f.count > 0 THEN ~f.notified ELSE f.notified]

\* NotifySignalEvents: what there is to tell.
News(f) ==
  IF f = None \/ f.notified THEN "none"
  ELSE IF f.count >= Limit THEN "fail"
  ELSE IF f.count = 0 THEN "ok" ELSE "none"

NotifySignalEvents(c) ==
  LET news == News(fails[c])
  IN /\ fails' = IF news = "none" THEN fails ELSE [fails EXCEPT ![c].notified = TRUE]
     /\ IF news # "none" /\ setup.sms
        THEN sender' = QueueMessage(sender) /\ told' = [told EXCEPT !.signal = news]
        ELSE UNCHANGED <<sender, told>>
     /\ UNCHANGED serviceVars
------------------------------------------------------------------------------
(* mailbox_loop *)

MailboxOnly == UNCHANGED <<setup, stopping, left>>

Receives(type) ==
  /\ mailbox = Loop /\ inbox # <<>> /\ Head(inbox).type = type
  /\ inbox' = Tail(inbox)

Sender == Head(inbox).from

\* SendToPlc and SendToOperator.
Give(cs) ==
  toWrite' = [c \in Conns |-> IF c \in cs THEN Enqueue(toWrite[c], "message") ELSE toWrite[c]]

\* User.Close
CloseUsers(cs) ==
  /\ toWrite' = [c \in Conns |-> IF c \in cs THEN Stop(toWrite[c]) ELSE toWrite[c]]
  /\ peer' = [c \in Conns |-> IF c \in cs THEN "closed" ELSE peer[c]]

\* The reader of a stranger closes the connection.
Refuse ==
  /\ Receives("start") /\ setup.kind[Sender] = "stranger"
  /\ reader' = [reader EXCEPT ![Sender] = "gone"]
  /\ peer' = [peer EXCEPT ![Sender] = "closed"]
  /\ UNCHANGED <<senderVars, mailbox, userVars, clock, ghostVars>> /\ MailboxOnly

\* ProcessStart: a PLC is sent its configuration, an operator the list of users.  The
\* range of rows in the greeting of a PLC may be answered with a query.
Start ==
  /\ Receives("start") /\ setup.kind[Sender] # "stranger"
  /\ users' = users \cup {Sender}
  /\ writer' = [writer EXCEPT ![Sender] = "take"]
  /\ Give({Sender})
  /\ excused' = excused \cup
       (IF Plc(Sender) /\ told.signal = "fail" THEN {"forgotten"} ELSE {}) \cup
       (IF Plc(Sender) /\ PlcUsers # {} THEN {"two"} ELSE {})
  /\ \/ /\ reader' = [reader EXCEPT ![Sender] = "serving"] /\ UNCHANGED mailbox
     \/ /\ Plc(Sender) /\ mailbox' = Busy("greet", Sender, <<>>, FALSE) /\ UNCHANGED reader
  /\ UNCHANGED <<senderVars, peer, monitors, online, fails, clock, told>> /\ MailboxOnly

\* ProcessMessageFromPlc: the rows of a message are counted one by one.
ReceiveRows ==
  /\ Receives("message")
  /\ mailbox' = Busy("rows", Sender, Head(inbox).rows, Head(inbox).answer)
  /\ UNCHANGED <<senderVars, connVars, userVars, clock, ghostVars>> /\ MailboxOnly

\* The signal came back, which is still to be told, and fails again.
Hides(f, bad) == bad /\ f # None /\ f.count = 0 /\ ~f.notified

CountRow ==
  LET c == mailbox.user
      bad == Head(mailbox.rows)
  IN /\ mailbox.at = "rows" /\ mailbox.rows # <<>>
     /\ mailbox' = [mailbox EXCEPT !.rows = Tail(@)]
     /\ fails' = [fails EXCEPT ![c] = Counted(@, bad)]
     /\ excused' = excused \cup (IF Hides(fails[c], bad) THEN {"hidden"} ELSE {})
     /\ UNCHANGED <<senderVars, connVars, inbox, users, monitors, toWrite, writer, online,
                    clock, told>>
     /\ MailboxOnly

\* What there is to tell is told; an answer may have a query for more rows before that.
RowsDone ==
  /\ mailbox.at = "rows" /\ mailbox.rows = <<>>
  /\ clock' = [clock EXCEPT !.recent = TRUE]
  /\ \/ /\ mailbox' = Loop
        /\ NotifySignalEvents(mailbox.user)
        /\ Give(monitors \cap OperatorUsers)
     \/ /\ mailbox.answer
        /\ mailbox' = [mailbox EXCEPT !.at = "query"]
        /\ UNCHANGED <<senderVars, fails, told, toWrite>>
  /\ UNCHANGED <<connVars, inbox, users, monitors, writer, online, excused>> /\ MailboxOnly

\* A query is written by the mailbox itself, and waits for a peer that does not read.
Written == peer[mailbox.user] # "stalled" /\ mailbox' = Loop

Greeted ==
  /\ mailbox.at = "greet" /\ Written
  /\ reader' = [reader EXCEPT ![mailbox.user] = "serving"]
  /\ UNCHANGED <<senderVars, peer, inbox, userVars, clock, ghostVars>> /\ MailboxOnly

\* An error leaves the news untold.
QueryDone ==
  /\ mailbox.at = "query" /\ Written
  /\ IF peer[mailbox.user] = "open"
     THEN /\ NotifySignalEvents(mailbox.user) /\ UNCHANGED excused
          /\ Give(monitors \cap OperatorUsers)
     ELSE /\ excused' = excused \cup {"unheard"}
          /\ UNCHANGED <<senderVars, fails, toWrite, told>>
  /\ UNCHANGED <<connVars, inbox, users, monitors, writer, online, clock>> /\ MailboxOnly

\* ProcessMessageFromOperator: a message to the PLC goes to all its connections.
FromOperator ==
  /\ \/ Receives("forward") /\ Give(PlcUsers) /\ UNCHANGED monitors
     \/ Receives("monitor") /\ Give({Sender}) /\ monitors' = monitors \cup {Sender}
  /\ UNCHANGED <<senderVars, connVars, mailbox, users, writer, online, fails, clock, ghostVars>>
  /\ MailboxOnly

\* The sender after one SMS for each of them.
SentEach(cs) == FoldSet(LAMBDA c, s : SendMessage(s), sender, cs)

\* NotifyOffline and NotifyOnline, of these PLC users, and SendQueued when a ping is done.
Notify(cs, up, done) ==
  LET tell == {c \in cs : online[c] # up}
  IN IF setup.sms
     THEN /\ sender' = IF done THEN SendQueued(SentEach(tell)) ELSE SentEach(tell)
          /\ online' = [c \in Conns |-> IF c \in tell THEN up ELSE online[c]]
          /\ told' = IF tell = {} THEN told
                     ELSE [told EXCEPT !.plc = IF up THEN "online" ELSE "offline"]
          /\ UNCHANGED serviceVars
     ELSE UNCHANGED <<senderVars, online, told>>

\* ProcessFinish
Finish ==
  /\ Receives("finish")
  /\ users' = users \ {Sender}
  /\ monitors' = monitors \ {Sender}
  /\ Notify({Sender} \cap PlcUsers, FALSE, FALSE)
  /\ CloseUsers({Sender})
  /\ UNCHANGED <<reader, mailbox, writer, fails, clock, excused>> /\ MailboxOnly

\* ProcessDie: the connections are closed, and the loop goes on.
Die ==
  /\ Receives("die")
  /\ CloseUsers(users)
  /\ UNCHANGED <<senderVars, reader, mailbox, users, monitors, writer, online, fails, clock,
                 ghostVars>>
  /\ MailboxOnly

\* PingAllClients, CheckPlcUserConnections, SendQueued.  An error of the database ends
\* the loop, for it is not caught.
Ping ==
  /\ mailbox = Loop /\ clock.due
  /\ clock' = [clock EXCEPT !.due = FALSE]
  /\ Give(users)
  /\ \/ /\ Notify(IF clock.settled THEN PlcUsers ELSE {}, clock.recent, TRUE)
        /\ UNCHANGED mailbox
     \/ /\ setup.dbFails /\ clock.settled /\ PlcUsers # {}
        /\ mailbox' = [Loop EXCEPT !.at = "dead"]
        /\ UNCHANGED <<senderVars, online, told>>
  /\ UNCHANGED <<connVars, inbox, users, monitors, writer, fails, excused>> /\ MailboxOnly
------------------------------------------------------------------------------
(* Time, and the service that is stopped. *)

\* PING_PERIOD_MS is over; the last row may have become old.
Tick ==
  /\ left.ticks > 0
  /\ left' = [left EXCEPT !.ticks = @ - 1]
  /\ \E settled \in {clock.settled, TRUE}, recent \in {clock.recent, FALSE} :
       clock' = [due |-> TRUE, settled |-> settled, recent |-> recent]
  /\ UNCHANGED <<setup, senderVars, connVars, inbox, mailbox, userVars, stopping, ghostVars>>

\* PlcServerFacade.Stop
StopServer ==
  /\ setup.stops /\ ~stopping
  /\ stopping' = TRUE
  /\ Post(Message("die", None))
  /\ UNCHANGED <<setup, senderVars, connVars, mailbox, userVars, clock, left, ghostVars>>
------------------------------------------------------------------------------
Mailbox ==
  \/ Refuse \/ Start \/ Greeted \/ ReceiveRows \/ CountRow \/ RowsDone \/ QueryDone
  \/ FromOperator \/ Finish \/ Die \/ Ping

Modem ==
  /\ Service
  /\ UNCHANGED <<setup, connVars, inbox, mailbox, userVars, clock, stopping, left, ghostVars>>

ModemOpens ==
  /\ Opens
  /\ UNCHANGED <<setup, connVars, inbox, mailbox, userVars, clock, stopping, left, ghostVars>>

TestProgram ==
  /\ TestSendSms \/ CloseSender
  /\ UNCHANGED <<setup, connVars, inbox, mailbox, userVars, clock, stopping, left, ghostVars>>

Connection(c) ==
  \/ Accept(c) \/ LogIn(c) \/ LeaveFirst(c) \/ Leave(c) \/ Read(c)
  \/ Break(c) \/ Stall(c) \/ Resume(c)
  \/ TakeMessage(c) \/ WriteMessage(c)

Next ==
  \/ \E c \in Conns : Connection(c)
  \/ Mailbox \/ Modem \/ TestProgram \/ Tick \/ StopServer

\* Threads run and a peer reads again in the end; a modem that opens at times opens
\* some time.  Nobody has to connect, to send or to leave.
Fairness ==
  /\ WF_vars(Mailbox) /\ WF_vars(Modem) /\ SF_vars(ModemOpens)
  /\ \A c \in Conns :
       WF_vars(TakeMessage(c)) /\ WF_vars(WriteMessage(c)) /\ WF_vars(Resume(c))

Spec == Init /\ [][Next]_vars /\ Fairness
------------------------------------------------------------------------------
\* Every part is what its comment says.
TypeOK ==
  /\ reader \in [Conns -> {"none", "first", "login", "serving", "gone"}]
  /\ peer \in [Conns -> {"none", "open", "stalled", "broken", "closed"}]
  /\ writer \in [Conns -> {"none", "take", "write", "ended"}]
  /\ mailbox.at \in {"loop", "greet", "rows", "query", "dead"}
  /\ users \subseteq Conns /\ monitors \subseteq OperatorUsers

\* The operators know how the PLC and its signal are: the last SMS says that the PLC is
\* there exactly when it was last found there, a failure that lasts was told of, and a
\* signal that is well is not told to fail (NotifiedAsOnline and the counters of
\* _UpdateHistory).  Ways in which the code does mislead them, each named in "excused": a
\* PLC that connects again starts with new counters ("forgotten"), a lingering
\* connection is told of instead of the new one ("two"), rows that arrive together hide
\* that the signal came back ("hidden"), an error while the next query is written leaves
\* the news untold ("unheard").
OperatorsKnow ==
  setup.sms /\ mailbox = Loop /\ excused = {} =>
    /\ told.plc = "online" <=> \E c \in PlcUsers : online[c]
    /\ \A c \in PlcUsers : fails[c] # None =>
         /\ fails[c].count >= Limit => told.signal = "fail"
         /\ fails[c].count = 0 => told.signal # "fail"

\* No thread waits for ever: who logs in gets a reply unless the loop has died, the
\* writer of a user that was closed ends whatever its peer does, and so does the thread
\* of the modem when the sender is closed (PostAndReply, Monitor.Wait in Dequeue).  As
\* connections, messages and pings are bounded, each wait ends when again and again there
\* is none.
NobodyWaits ==
  []<>(/\ \A c \in Conns :
           /\ reader[c] = "login" => mailbox.at = "dead"
           /\ toWrite[c].stopped => writer[c] = "ended"
       /\ Stopped => service = "end")

\* With a modem that opens at times every SMS gets to its receiver or is given up, unless
\* the sender is closed: errors, retries behind newer SMS and re-opening lose none.
SmsEnds ==
  setup.modem # "dead" => []<>(Stopped \/ 1 .. sender.made \subseteq got \cup gaveUp)
==============================================================================
