# Verification of PumpingStationL

TLA+ models of the remote control of pumping stations: a PLC engine on an
Android tablet, the Modbus I/O it drives, the server that collects its rows and
informs the operators, and `socat`, through which serial lines and connections
are led.  Each module models one part from its source; TLC checks it on small
instances and TLAPS proves the central results for every value of the constants.

## 1. Inventory of the system

| Component | Source | State it keeps | Operations | Talks to |
|---|---|---|---|---|
| CircularDB | `PlcEngine/.../CircularDB.java` | file of NumRows rows, header (head, tail), fields HeadId and TailId | constructor with recovery, Add, Fetch, Close | called by the PLC thread, read by the server thread |
| Row format | `CircularRowFormat.java`, `BitUtils.java` | none | Encode, RestoreVariables, decode | PLC thread, rows, protobuf |
| PLC thread | `PlcEngine.java` plc_thread | modbus connection, previous row, wash index, `_trigger_db_write` | one round: sync, write row, wash, queries, logic | devices, CircularDB, query queue, output queue |
| Server threads of the engine | `PlcEngine.java` server_input_thread, server_output_thread | stream, output queue, OOB Id | connect, greet, read queries, send messages | PlcServer2 over TCP |
| I/O devices | `IODevice.java`, `IOSignal.java` | BitData / Data, ToBeWritten, IsLastSyncOk | SyncWithModbus, Write, getValue | modbus master, logic program |
| Modbus master | `ModbusMaster.java`, `ModbusFormat.java` | input and output stream | read and write queries with timeout | mbproxy |
| Modbus slave and proxy | `ModbusNpeX1000/*` | read and write buffer, register image in shared memory | receive bytes, process query, scan I/O | one process per connection and the main loop |
| Logic program | `Logic*.java`, `ComputedSignal.java`, `LoksaSetup/*/setup.prg` | signals | statements, ExtendFqi procedure | IOSignal |
| Configuration | `Context.java`, `setup.xml` | devices and signals | grouping of signals into devices | PLC thread |
| PLC server | `PlcServer2/PlcServer2.fs` | users, write queues, synchronisation ranges, alarm counters | messages from PLCs and operators, ping, timeouts | PLC, operators, database, SMS |
| PLC database | `PlcDb/PlcDb.fs`, SQL | rows by configuration, Id and timestamp | insert, query ranges, sessions | server |
| SMS messenger | `SmsMessenger/*.fs` | message queue, modem | queue, retry, reopen modem | server |
| Blocking queue | `BlockingQueue.fs` | queue, stopped flag | Enqueue, Dequeue, Stop | server and SMS writer threads |
| Operator panel | `ControlPanel/*.cs` | connection, monitored users, pending queries | read and write threads, reconnect | server |
| socat: transfer | `socat.c` `_socat`, `xioread.c`, `xiowrite.c`, `xioshutdown.c` | two streams with EOF, counts, timers | poll, transfer both ways, half close, end | descriptors, SIGCHLD |
| socat: servers | `xio-listen.c`, `xio-udp.c`, `xio-socket.c`, `xiosigchld.c` | number of children, packet under way | accept, fork, wait for the child | children by SIGCHLD and SIGUSR1 |
| socat: what a process holds | `xiolockfile.c`, `xioclose.c`, `xioinitialize.c`, `socat.c` | lock files, names, programs, `sock[]` | lock, fork, close, exit functions, signals | other socat processes by the file system |
| socat: opening | `xioopts.c`, `xioopen.c`, `xio-*.c` | options not used yet, descriptors, rights | one function per address | operating system |
| Older server, manager, dumper, Android UI, valve test | `PlcServer`, `PlcManager`, `DumpSignalValues`, `PlcMaster`, `ValveTest` | user interface or command line | | |

Generated or third-party: Coco/R parsers, protobuf classes, JSON and SQLite
libraries, `WindowsAndroid`.

### Hard behaviours

- crashes of the tablet between the write of a row and of its header; a header
  on the medium older than the rows; a recovery scan that trusts timestamps and
  a clock that starts in 1970;
- four threads of the engine sharing the output queue, the stream, the OOB Id,
  HeadId/TailId and the query queue without one lock for all;
- synchronisation of rows over a connection that drops, with batches that race
  the live rows;
- a washing sequence of timed steps that a query can abort at any round;
- modbus answers later than their timeout, frames in pieces, and several slave
  processes on one register image;
- the mailbox of the server, which waits in places for its peers; alarms that
  are counted, told and revoked; an SMS queue with retries;
- socat: signals between any two steps, EOF against data, children against their
  count, one lock file for several processes, and options that must be used at the
  right moment, once, on the right descriptor.

For each component, what makes it correct:

- **CircularDB**: an Id of the published range addresses the row added under it;
  Ids go on after any crash where they stopped, once a row is counted in the header; the
  range fits the ring.
- **Row queries**: an answer names rows of the range only, has the rows it names,
  and is the newer end of what was asked for.
- **Row synchronisation**: every row the PLC still has reaches the database under
  its own Id, whatever breaks; no row is asked for twice at a time; it goes on
  until nothing is missing.
- **Washing**: the sequence runs exactly while FJP.WASHING is set; the pump never
  runs against closed valves; a wash ends and the pump stops, also after a restart.
- **I/O devices, modbus**: no slave obeys a frame nobody sent; what is read was on
  the wire; relays follow the engine; a broken frame does no lasting harm.
- **PLC server**: the operators know how the PLC and its signals are; nobody waits
  for ever, not at shutdown either.
- **SMS messenger**: each message is sent or given up after its retries.
- **socat**: EOF after the data and nothing left behind; as many children as
  allowed and every client served; a lock has one holder and nothing of another's
  is removed; every option used, on the stream, and rights given up last.
- **Logic program**: the extended water count never goes back and never loses
  what a meter counted.
- **Operator panel**: every query is answered or reported failed over reconnects.

## 2. Modules

| Module | Models | Extends | Run |
|---|---|---|---|
| `RowLog` | what a store of numbered rows promises | | property of `ring` |
| `CircularDB` | CircularDB.java: constructor, Add, Close; kills, power failures, clock, row length | | `ring`, `ring_faults` |
| `RowFetch` | Fetch and `_sendRows` on the ring | CircularDB | `fetch` |
| `SyncRanges` | which batches the server asks for, as operators | | `sync` |
| `RowSync` | three engine threads, TCP connections, the server's handling of rows | SyncRanges | `sync` (by `MCRowSync`) |
| `WashSequence` | washing steps from the request to the outputs | | `wash` |
| `ModbusFrames` | the slave, byte for byte: checksum, frames, registers | | `modbus` |
| `ModbusLink` | engine loop, master, connection, slave processes, scan | ModbusFrames | `modbus` (`MCModbusLink`) |
| `Transfer` | the data transfer loop of socat | | `transfer` (`MCTransfer`) |
| `Serve` | servers of socat that fork | | `serve`, `serve_limit` (`MCServe`) |
| `Holdings` | lock files, names and programs of socat processes | | `holdings` (`MCHoldings`) |
| `OpenOptions`, `OpenAddresses` | options with group, phase and effect; addresses with groups | | `open` (`MCOpen`) |
| `OpenSteps`, `OpenSockets`, `OpenProxies`, `OpenFiles`, `OpenPrograms` | the functions that open addresses, as sequences of steps | OpenOptions | `open` |
| `Open` | what a step does to options, descriptors, children and rights | the above | `open` |
| `BlockingQueue` | BlockingQueue.fs | | `server` |
| `SmsSender` | SmsSender.fs and a modem that fails | BlockingQueue | `server` |
| `PlcServer` | PlcServer2.fs: connections, mailbox, writers, alarms, ping, stop | SmsSender | `server` (`MCPlcServer`) |

`CircularDB_proofs` (of CircularDB and RowFetch), `RowSync_proofs` (of SyncRanges and RowSync),
`WashSequence_proofs`, `ModbusLink_proofs` (of ModbusFrames and ModbusLink), `Transfer_proofs`,
`Serve_proofs`, `Holdings_proofs` and `PlcServer_proofs` have the theorems (section 4).

### CircularDB

A row is its timestamp, since recovery looks at nothing else. `time[s]` is the
row of slot s, `hdr` the header as the operating system has it, `disk` the header
on the medium, `pc` where the constructor (`tailscan`, `headscan`, `repair`) or Add
(`rowwritten`, `headerwritten`, `headset`) stands: one step per file access and per
assignment of a volatile field, because a kill, a power failure or an
unsynchronised reader can come between any two.  `owner` and `added` are ghosts.
`usable` says that the file is there with the version and row length of the program;
`Outdate` takes it away, and `Recreate` makes a new one.  The scans of the constructor are
actions, one per iteration.

A numbering of Ids ends when the file is re-created and when the constructor finds a header
with a head of 0.  It does not scan then (CircularDB.java:96): rows that were written before
the first header was, or whose header never reached the medium, are lost, and the next row
gets Id 0 again.  `RecoveryKeepsRows` says both halves of this in one formula, with `NextId`
as the Id to go on with; `StartOver` of RowLog is allowed in no other case.

Assumed of the medium: row pages reach it no later than the header that counts
them, and its header is less than NumRows rows old (259200 rows: three days
even at one row a second, three months as PlcEngine.java:19 counts them).
`Spec` has a clock that only advances; `AnySpec` adds `ClockSetBack` and
`RecreateWithNewLength`, after which a slot may hold any timestamp.

`RowLog` is the abstract store: ids are given in order, counted and published, the range
may lose its older end, and a restart that finds one row counted shows every row that was
given.  `counted` is the head in the header and `fits` is `usable`: only a restart with
nothing counted, or with a file that does not fit, may start over.  The refinement maps
its range to `[TailId .. HeadId)` while the object can be read and to the empty
range while it is being constructed.

### RowFetch

The buffers of `_Batch_Buffer` are state, since they outlive a query; `SendRows`
is lines 605-624 and 876-925 of PlcEngine.java and all of Fetch. A reply is kept
in a variable of its own so that the property can relate it to the range of the
moment it was made.

### SyncRanges and RowSync

SyncRanges has the range arithmetic of PlcServer2.fs:177-200 and U.fs:57-64 as set
comprehensions: a hole is a maximal run of missing Ids, and `NewestFirst` sorts the
batches.  `AsksRight` says what a queue of batches must be; `RangesRight` of RowSync
checks it in every reachable state, for the database of the moment and every tail.
RowSync has one action per step of each thread that another thread can tell apart:
the PLC round (flush, modbus connection, comparison, row, queries), the input thread
(connect, stream, both reads of the greeting, the greeting, reading), the output
thread (picking up the stream, sending).  A connection is a number; `toServer` and
`toPlc` are what is on its way, and `Break` lets a prefix arrive.  The server handles
one message of one connection at a time, as the mailbox does, and may still handle an
old connection when a new one is open.  A message has the rows as pairs of the Id they
were added under and the `RowId` they are labelled with.

`setup` chooses the capacity of the ring, which rows are too old for the server, how
many rows there are, and whether the output thread keeps up.  The PLC thread empties
the output queue at the start of every round (PlcEngine.java:364), a second after it
filled it; `senderKeepsUp` says that the output thread is done by then.  Without it a
greeting or an answer can be dropped and the connection stalls until it breaks.

Abstracted: a query and its answer are one message each (their bytes on the stream
may mix with pings in the code); HeadId and TailId change in one step; a reply has
the rows it names (RowFetch shows when not); one PLC configuration.

### WashSequence

The well pump P01 and the tank valves of step 0 are one output; the valves M1 to M4
and the pumps are coils of two devices, as in `LoksaSetup/Posti VTJ`.  A round is
connect, sync of each device, washing step, automatic start, queries, logic.
Commands go through `_queries` one by one, so that requests can get between them.
`Write` drops commands for a device that was not read yet, `SyncOk` reads a device
the first time and writes it later on.  Time is `due`, the number of steps whose
start time has passed; it advances at any moment. `mishap` is a ghost: a device
failed while the connection held, or modbus was refused.  `PumpHasPath` is about the
outputs at every moment of a round: the pumps are written before the valves, so that
the valves must still be right for the pumps as they will be.

### ModbusFrames and ModbusLink

ModbusFrames has the slave's query processing on byte sequences with the checksum
computed, because the question is which bytes a slave takes for a frame. A query for
more coils or registers than there are is answered with zeroes in the model and with
what earlier replies left in the write buffer in the code.  ModbusLink composes the
loop over the devices with the master (purge, query, wait, timeout), a connection
whose two directions are queues of chunks, one slave process per connection with its
buffer and its timeout, and the proxy's scan of inputs and outputs.  `orders`,
`toggles`, `cuts`, `delays` and `breaks` of a setup bound what is commanded, changes
and goes wrong; `phantom` is a ghost: a slave obeyed a frame that the master had not
sent; `late` is one too: the master gave up a query that was still under way.  Since
it cannot tell which query an answer is for, the inputs of one device may then be taken
for those of the next, and `InputsAreReal` says no more than that.  Time is counted in
the pauses of the loop.

### Transfer

`phase` is the place in `_socat`: head of the loop, start of the poll loop (where
EINTR leads back), poll, both transfers, the EOFs.  The bytes of a side are numbered,
so `sent`, `taken` and `given` are counts.  Side conditions of the options
(`ignoreeof`, `readbytes`, `escape`, `-u`, `-T`, cool-write) are in `setup`.  `ChildDies`
is the signal handler and can come between any two steps.  A sub process may close its
output before it dies, and what it has started may send over its channel after it; the
ghost `owed` counts the bytes that came before the death, which are those the loop promises to
pass on.  Left out: the conversion of line ends, `-v` and `-x`, that xioshutdown waits for a
one-way program, reads and writes that fail with EAGAIN (socat.c:971: descriptors that do not
block or are shared, chunks that the conversion swallows), and bytes that wait inside
OpenSSL, where poll does not see them (xiopending, socat.c:983).

### Serve

Three servers in one module because they share handlers and count: `listen`
(accept, fork, max-children), `udp` (a socket per sender, connected back), `recvfrom`
(the parent waits until the child has read its packet and says so by SIGUSR1).
`chld` and `usr1` are pending signals, `masked` that they are blocked.  `pc` "sleep" and
"rest" are the `Sleep` calls that a signal ends.  `CallFails` is a fork, an accept, a poll or
look for a packet, or the socket of a round of UDP-LISTEN that fails: a listening address with
retry starts anew, all others end with an error.  `ServesOn` is about all three servers and
names its exceptions: `Overslept`, a server asleep for what has happened already, which the
two loops that test and then sleep risk, and `NoPlace`, children that stay and fill
max-children.

### Holdings

A command line is a sequence of items (lock of the process, lock of a stream, name,
program), each of a stream; processes open them in order, a master may fork kids that
inherit what is open, and `Signal`, `SignalAgain` and `Crash` end them between any two
steps.  A file is known by its path, a program by the process that started it, which is
the parent when the child inherited it.  `owner` says whose file or program is there, `held` what a process believes to hold;
`ended` and `robbed` are ghosts.  `Dropped` is what a child gives up at once: locks of
streams, the lock of the process, and programs of the first address when the second
one listens; `Shared` are the programs it keeps, those of the address that listens.  `Listed` are the streams with a place in `sock[]`:
the code has two places and a dual address overwrites one.  The temporary file in which a lock
is written before it gets its name by `link` is left out: its own name is made by mkstemp, so
that no two processes meet at it.

### Open

Every function that opens an address is an operator that gives a sequence of steps
(retry point, open, apply a phase of options, accept, fork, chroot, su, take what is
left, ...).  `Open` executes the steps: `left` are the options not used yet,
`on` which option was put on which descriptor, `lost` descriptors that nobody will
close, `rights` user and root.  Options are named by one representative where they
differ in the value only; values, options given twice and name resolution are left out.
`dropopts` throws options away, and what it throws away does not count as used.  `AllUsed` says
that an address that is open has used each of its options, but for those `Forgotten` names
option by option: the addresses that never look at a phase (`UnixSenders`, `UnixReceivers`,
`Unchecked`), what `dropopts` takes from a file that did not exist (xio-named.c:145), and what
is due after a detached retry or fork of xioopen_connect (`Detached`).  Whatever else is in the
same command line must still be used.

### BlockingQueue, SmsSender and PlcServer

BlockingQueue is the queue with its waiters and its stop.  SmsSender has the texts
collected for the next SMS, the queue, and the thread of the modem: open, send, count
errors, queue again, re-open.  PlcServer has, for each connection, the reading thread
(first message, login by PostAndReply, messages, finish), the state of its peer, the
user with its queue and writing thread; the mailbox with one action per message, except
that the rows of a message are counted one by one (mailbox state `rows`) and that a
query it writes itself takes time (`greet`, `query`); ping and timeouts by `clock`.  One PLC has one signal with a notification condition; the
counters of the connection and of the value work alike and one stands for both.
`told` is a ghost: what the operators believe after the SMS so far.  `excused` names
the ways in which the code misleads them; `OperatorsKnow` is about all other
behaviours.  An SMS goes to one receiver; texts are not divided; the AT commands of
`Modem.fs` are one step that succeeds, fails, or fails after the SMS was sent.

## 3. Runs

| Run | Shows | Bounds |
|---|---|---|
| `ring` | behind a header that counts a row, kills and power failures at any step lose and renumber nothing; the ring implements RowLog | 3 slots, 8 instants and Ids: the ring wraps twice, the header lags by up to a whole ring |
| `ring_faults` | with any clock and any old bytes the range fits the ring and the constructor ends | 3 slots, every content of the slots |
| `fetch` | answers to every query on a wrapping ring with any buffers | 4 slots, 6 Ids, batches of 2 |
| `sync` | exactly the missing Ids are asked for, once per greeting, newest first; rows are stored under their Id or the next; no Id of a greeting is forgotten, except in a batch that starts below the tail; all of them arrive in the end | 2 connections; rings of 2 and 4 rows with an old row and a slow output thread; a ring of 9, no old rows, with one that keeps up; batches of 2 |
| `wash` | sequence and signal agree, the pump has a path at every moment of a round, washes end, the pump stops | 2 requests, 1 restart, any number of failures |
| `modbus` | no slave obeys a frame nobody sent; inputs are real, their own unless an answer came late; the master recovers; relays follow | 2 connections, 2 devices, 5 setups with 1 cut, 3 delays, 1 break, 2 orders, 1 toggle or a scan that dies; timeout 2; buffer of 64 bytes |
| `transfer` | EOF after the data, nothing left behind, the loop ends when it should and only then, also with sub processes that close early or leave others behind | 10 command lines, 2 bytes each way, a buffer of 2, 1 interval of inactivity |
| `serve` | children are counted right, a packet is one child's, the server goes on unless it overslept or has no place | 7 setups over the three servers, one call that fails in each of them, 3 clients, 3 children |
| `serve_limit` | violation, see 6 | max-children=1, 3 clients |
| `holdings` | a lock has one holder; what is removed of another's (six ways), what is left behind, who waits | 2 processes and 1 child, a lock, a link and a program; 4 command lines: `-W L pty,link=N tcp-l:P,fork`, `pty,link=N,waitlock=L X`, `exec:Q!!Z,lockfile=L tcp-l:P,fork`, `exec:Q!!tcp-l:P,lockfile=L,fork X` (the last next to the second only) |
| `open` | options are used and are on the stream, descriptors closed, rights given up last and for good | every address with no option, with each it takes, and each of them next to fork, retry, su, su-d or range; 2 retries, 1 child |
| `server` | operators know how things are, nobody waits for ever, no SMS is lost | 10 small setups, 2 connections, notification after 2 errors, 2 retries of an SMS, 2 errors before the modem is re-opened |

A ring of three slots has a row below the range, one in it and one about to be
overwritten. Two connections are enough for a message, a query or an answer of
one to meet those of the next. Two requests are enough to start and stop, or to
stop and start a wash within a round. Two bytes are enough for one that is read
and one that is still to come when the other side ends, and a buffer of two for a
write that is cut in half. Three clients and children are enough for one child that
ends, one that is being counted and one whose client waits. With the master, two
devices with inputs of their own are needed for the answer to the first query to be taken
for that of the second, and 3 delays for an answer that comes after the timeout of 2. In `open` an
attempt that fails, one that fails again and one that succeeds are what the loops can
tell apart, and two options are enough because steps take them independently unless
one is about processes, attempts, peers or rights; those are the partners.

Every property has a mutant: a definition is replaced by the form a plausible slip
would give it, and the run then refutes the property. The mutant operators stand in
front of the definition they replace.  Some properties name cases in which the code
does not do what they say; the comment at the property says which, and section 6
lists them.  They hold in all other behaviours, and a mutant shows that they
would notice.

`CHECK_DEADLOCK` is off everywhere: clients, requests, faults and clocks are
bounded, so every system comes to rest when they are used up.  Where something must
still happen then, a liveness property says so.

### Fairness

- `ring_faults`: a process that is not killed goes on with the constructor (weak
  fairness of its scan steps).
- `sync`: every thread is scheduled (weak fairness of each of its steps), and a PLC
  round that reads its devices gets as far as the queries again and again (strong
  fairness), since otherwise no query is ever served.  `SyncFills` asks in its premise
  for a connection that lasts in the end and for no answer without rows; neither is
  guaranteed by the code.
- `wash`: the PLC thread runs, time passes, and each device answers again and again
  (strong fairness of a successful sync): the sequence does not advance in rounds
  that are cut off.
- `modbus`: time passes, the engine, the slave processes and the scan run, and what
  is sent arrives (weak fairness, written with the guards of the steps).  Faults are
  bounded and not fair: they need not happen.
- `transfer`: the loop is scheduled again and again (strong fairness, since a stop of
  the peer can hold it up) and a peer that stalls reads again (weak fairness).
- `serve`: the parent, the delivery of signals and each step of a child are fair;
  only a child that is done need exit.  `serve_limit` adds that clients come to their end.
- `holdings`: each process goes on with what it does; `WaitEnds` asks in its
  premise that those that hold a lock end one day.
- `server`: the mailbox, the writing threads and the modem run (weak fairness), a peer
  that stalls reads again, and a modem that is re-opened again and again opens one day
  (strong fairness).  Nobody must connect, send or leave.  `[]<>` of "not waiting"
  says that each wait ends because connections, messages and pings are bounded.
- `open` and `fetch` check safety only.

## 4. Proofs

All theorems hold for every value of the constants that the named assumption of the
module admits.  Types are part of each inductive invariant.

**`CircularDB_proofs`**, for every `NumRows >= 2` and all bounds:

- `TypeCorrect`, `RangeIsBounded` for `AnySpec`, from `RangeInv`: the range of the
  header, on the medium, and of the fields at every `pc` fits the ring.  It is
  inductive because `FieldsOK` says how fields, header and locals relate at each
  step of the constructor and of Add.
- `RowsAreWhereTheirIdsSay`, `NumberingContinues`, `RecoveryKeeps` and
  `RingImplementsLog` for `Spec`.  `NumberingContinues` says what a constructor goes on with,
  in terms of what was there before it: with the Id after the last row that reached the file
  when the header counts a row, with 0 otherwise.  They come from `RingInv` (`RingAlways`), which adds: every slot holds the
  newest row it was given and rows are ordered in time as their Ids are (`RowsOK`);
  the header lags behind the rows by less than a ring (`HeadersLag`); what the tail
  scan gave up is old (`GivenUp`).  The centre is `ScanStopsAtLastRow`: under
  `RingInv` the head scan goes on exactly as long as there are rows it has not
  counted, because the slot after the last row holds an older one.

The lemmas on `Slot` are the arithmetic of `%` the provers need: Ids less than
NumRows apart have different slots, Ids NumRows apart the same.

Of RowFetch: `AnswersHaveTheirRows`, every answer names rows of the range,
is the newer end of the query, and has the rows it names when their slots follow one
another in the file.  It builds on `RangeInv` of the ring and the types of the
buffers; `CountInRange` is about the bounds `_sendRows` computes, `SlotNext` about
neighbouring slots, `BuffersRead` about what one read of the file leaves in them.

**`RowSync_proofs`**, of the ranges: `QueueRight`, `AsksRight` for every finite set of Ids and every
range.  `NewestFirst` puts each batch at the place that the number of newer ones gives it;
`Ranked` shows that this is a sequence of all of them.  Two batches never overlap, since
two holes do not and the batches of one hole are cut at multiples of MaxBatch; a missing
Id is in the first hole, in one between neighbours, or in the last.

Of the protocol, for every setup and number of connections:

- `RowsNearTheirIds`.  `NearInv` says of every place a row can be in on its way (output
  queue, connections, database) that it was added and is labelled with its own Id or
  the next.  It needs nothing of the queries, since Fetched gives rows of the range
  only, whatever was asked for.
- `ScanRight` and `TypeCorrect`: the labels of the database are finitely many, so that
  `QueueRight` is about every state; what travels is typed.
- `QueriesDoNotMultiply`.  `GreetOnce`: a connection is greeted once, after its stream is
  there and before anything is asked on it; a greeting in the output queue is the one
  the input thread made.  `QueryInv` counts the places of queries and answers: every
  step that makes one takes another away or greets a connection.
- `NothingForgotten`.  `KeptInv` says where an Id of the greeting is: stored, in a batch
  not yet asked for, in a query, or in an answer; ranges that start below the tail do
  not count.  The attempt to prove it without `Straddled` failed for the reason in
  section 6.

**`WashSequence_proofs`**: `SequenceFollows`, `WashTyped` and `PumpNeverBlocked`.  `SignalInv`
strengthens the property for the middle of a round: a sequence is under way only while
the signal is set; when it is over and the signal is still set, the command that
clears it is in a queue.  `PathInv`, as long as there was no mishap: each step of the
sequence has made sure of the outputs the next one relies on (`Goals`: what an output
will be when all commands under way have been dealt with); the pumps as they will be
fit the valves as they still are (`Outputs`), since a sync writes pumps before valves;
and no command of an earlier round is left when a round comes to its washing step
(`QueuesLag`).

**`ModbusLink_proofs`**, for every configuration of devices and initial inputs, number of
connections and bounds on faults; the checksum, the slave's buffer and the replies are
computed on arbitrary bytes.  `ModbusLinkAssumption` says that a device has at most 32 bits
(`WriteMultipleCoils` takes them in an `int`, and the board has fewer inputs), that the buffer
holds the longest frame the engine sends and that the board has outputs; without the last the
scan's counter would leave its type.

- `LinkTyped` and `LinkExact` from `LinkInv`.  `LinkExact` is `ExactUntilLate`: as long as the
  master has given up no query while its bytes were under way, `NoPhantom` holds and inputs are
  those of their own wires, however frames are cut and connections break.  Neither is
  inductive by itself; `OnTime` says where the bytes are: every connection is `Settled`
  (nothing under way, nothing buffered) except the one on which the master waits, and there
  either the slave has a beginning of the query and the rest is under way (`Asking`), or the
  master has a beginning of an answer that fits the query and the rest is under way or lost
  (`Answering`).  What a slave buffers is no older than the query, so a timeout of the slave
  comes when the master has given up and never separates two halves of a query in time.
- `LinkUncut`: also after late answers, on a network that does not cut, `NoPhantom` and
  `InputsAreReal`.  `Uncut` says that what is under way to a slave is whole queries: a slave
  without buffered bytes has none after them, has obeyed what was asked, and has answered what
  the wires had (`Clean`, `WholeQueries`).  `Truthful` says that the bytes that come to the
  master begin with a whole reply which, if it is one to a query for inputs, shows those of
  some device (`StartsTrue`), whatever query it is taken for.
- `LinkPrompt`: when no time passes over bytes under way, nothing is ever late (`Prompt`), so
  that `NoPhantom` and `InputsAreReal` hold without a condition on the history.

What the frames rest on: `CrcType` (two bytes, for bytes), `Sealed` passes its own check
(`SealedQuery`), a query has the size the slave expects at each of its bytes and no other
(`SizeOfQuery`), the slave obeys it at the last one however it is cut (`MoreOfQuery`), bytes that
come in two parts are as good as those together (`InTwo`), and a bit comes out of a byte as
it went in (`BitOfByte`, `ShowsBits`).  CRC16 and `Received` are recursive functions; what they
compute is proved with induction in the form of a set (`SetInduction`, `Recursion`, `Along`): a
set of numbers that has 0 and each successor has them all, from the well-foundedness of the
natural numbers.

**`Transfer_proofs`**: `EofComesLast`, `AllPassedOn` and `TransferTyped`.  `EofInv` ties the
variables of the loop to the bytes: a side is marked as readable only when there is
something to read or its end, and as ended only when it is drained (all that is owed has
been read, and its peer or child is gone), was cut off by count, escape character or reset, or is a file.  `LeftInv` adds that what was read has been
passed on, and that a side which had its turn in this round and is still seen as
readable, with the other side writable, has nothing more to be read: so the loop does
not end on the EOF of one side with bytes of the other in reach.

**`Serve_proofs`**: `ChildrenCounted` and `PacketsOwned`.  `CountInv` says that `num_child` is the number
of children made and not yet waited for, except for the one that is forked and not yet counted
while SIGCHLD is blocked; the handler waits for all zombies at once.  `PacketsOwned`:
`PacketInv` says that at most one child has yet to read, that its packet is the first at
the socket while the parent waits for it and for no other, that the flag is down
until then, and that a pending SIGUSR1 is never from a child that has yet to read.

**`Holdings_proofs`**, for every number of processes and command lines:
`OneHolderOfALock`, `NothingIsLeft`, `RemovesItsOwn` and `HoldingsTyped`.  `Placed` says that
what a process counts as held is an item it has passed; `LocksHeld` that the file of a
held lock is its own unless it was robbed of it, or the holder is a child that has
its parent's things for a moment.  `KInv` adds for each process how it can have come to
its end (`EndsAs`), what of its parent's a child still has (`Inherits`), which locks are
its own until it has removed them (`StillHas`), and that each file it made is one it
will remove or could not see (`Traced`); a program is its starter's or gone
(`ByStarter`).

**`PlcServer_proofs`**, for every limit, setup and number of connections:
`OperatorsAreTold`.  `ServerInv` has three parts besides the types.  `Order`: each posted
message agrees with its reader and the users, nothing of a connection is ahead of its
start or behind its finish, and a connection that has not started has no counters.
`OnePlc`: as long as nothing is excused there is one PLC user, which the counters and
`told` are about.  `Known`: at every row, also between the rows of one message, the
counter and the last SMS agree (`Agrees`: a count that was notified is a failure that was
told of, a zero that was not is one still to be revoked), and when the mailbox is back in
its loop there is nothing left to tell (`Settled`).  The assumption is that `None` is
neither a connection nor a counter and that the rows of an answer are Boolean.

Only checked by TLC:

- Liveness, which is beyond the prover: `RecoveryEnds`, `SyncFills`, `WashEnds`,
  `PumpStops`, `Recovers`, `RelaysFollow`, `EofEnds`, `InactivityEnds`, `FollowsFirst`,
  `ServesOn`, `KeepsListening`, `WaitEnds`, `NobodyWaits`, `SmsEnds`.
- `NoPhantom` and `InputsAreReal` of ModbusLink after a late answer on a network that also
  cuts: there the rest of one frame can meet the beginning of another, and a checksum of 16
  bits is right by chance for some frames.  That it is not for those of the instance is a
  fact about numbers which TLC checks.
- The properties of Open: they are about the tables of addresses, options and steps,
  which are data; a proof would be the enumeration that TLC does.

## 5. What is left

In this order, were the work to go on:

1. The mailbox writing a query to a PLC's stream while the writing thread does the
   same, so that bytes mix.
2. `Panel`: the connection of the operator panel with its pending queries.
3. Algorithms in one module for TLC: ExtendFqi with 16 and 32 bits, the grouping of signals
   into devices, bit positions of the row format.
4. Proofs: the properties of Open one address at a time; `NoPhantom` under cuts and late
   answers for the frames whose rests the checksum is known to tell apart.

## 6. Findings

`serve_limit` is the one disagreement that a run shows as a violation: with
max-children a server can fall asleep for ever (xio-listen.c:334).  RECVFROM tests and sleeps
in the same way (xio-socket.c:1430-1432): the SIGUSR1 or SIGCHLD of the only child it waits for
can come in between, and packets then wait until some other signal comes.

The models name further cases in which the code does not do what a property says; the
property leaves exactly these out.

- *Rows.* Rows behind a header that counts none are not looked for (CircularDB.java:96): after
  a kill in the first Add, or a power failure before the first header reached the medium, they
  are lost and their Ids are given out again.  Fetch seeks once and reads past the end of the file when a query wraps
  around; the rows behind are those of an earlier query (CircularDB.java:240).  Rows of
  an earlier lap are counted as new after the clock was set back (CircularDB.java:133).
  A live row carries the Id of the row after it (PlcEngine.java:456).  The batch beyond
  the head has no rows, and the synchronisation does not go on (PlcServer2.fs:198).  When the
  database has Ids from before the tail, a hole between two Ids may start below the tail;
  the PLC answers its first batch without rows (CircularDB.java:228), so that the rows of
  this batch it still has are not asked for again on that connection (PlcServer2.fs:188-194).  An
  old row in an answer to an earlier connection clears the batches of the new
  greeting (PlcServer2.fs:261).
- *Washing.* The reset of a restarted engine is dropped when modbus is refused in its
  first round (PlcEngine.java:216).  A device that fails alone is not noticed by the
  washing steps, which go on without its valves.  Step 6 closes M1 and M3 once more where
  its comment opens the valves (PlcEngine.java:98, 126); the comments at the steps (11m, 21m,
  25m) are not their times (9, 17, 21 minutes); `FJP.ENABLE_WASH` of setup.prg is not
  looked at by the automatic start.
- *Modbus.* An answer that comes after its timeout, and after the input was purged for
  the next query, is taken for the answer to that one (ModbusMaster.java:196-244): address,
  function and size are compared, and signals of one module that do not follow on each
  other are devices of the same address and function (Context.java:304).  The inputs of
  one device are then those of another until a purge finds the answer in time.
- *Server.* The mailbox writes queries itself: a PLC that does not read holds up
  everybody.  An error in CheckPlcUserConnections ends the mailbox, and logins wait for ever.
  Finish of an old session tells "offline" while a new one is online.  A PLC that
  connects again forgets a failure that was told.  Rows of one message that go
  well, fail and go well hide that a signal came back (PlcServer2.fs:397).  SMS that are
  tried again come behind newer ones, or twice.  Who logs in behind Die stays, since
  the branch of Die does not end the loop.
- *socat, options.* xioopen_connect detaches its caller from the options after a second
  attempt or a fork, so that su among others is dropped in silence.  Options of an open
  descriptor go to the listening socket after accept; those of a socket pair go to the end of
  the program.  Some functions never look at late options (unix-sendto, unix-recv, pty).
  perm-early, user-early and group-early of a file that does not exist yet are thrown away with
  a debug line only (xio-named.c:145).  su-d comes before chroot, and is not looked at where
  late options are not.  stdio applies chroot-e twice, the second time inside the first;
  stdio and unnamed pipes take su and chroot in the order of the command line; chroot is
  applied again in later attempts and in children, where it fails.
- *socat, descriptors.* A connect-timeout, a failed listen, an attempt of the proxy
  and socks clients, a rejected peer and a failed fork leave descriptors behind.
- *socat, locks and names.* A stream of a dual address is not tracked in `sock[]`; the
  lock of the process is given up before the names it guards; a signal between the removal
  of a lock and the note of it removes the next one's; a child hit before
  xio_forked_inchild removes its parent's things; when a program is in the same
  address as the server that forks, the first child kills it, since `sock1` is not set yet
  (xioinitialize.c:199, against the comment at line 147); who loses the race for a lock ends with
  an error, with waitlock too, and leaves the temporary file of the lock behind, as does a signal
  before it is unlinked (xiolockfile.c:64-65).
- *socat, transfer.* A dead sub process whose channel is empty once is at EOF (socat.c:693),
  although a process it has started may hold the channel and send more: that is lost.  After an ignored EOF of the second address only `mayrd1` is reset
  (socat.c:912), so the second file is not followed.

## 7. Not modelled

Parsing of setup.xml and setup.prg, the protobuf encoding, the row format, the logic
program, the user interfaces (Android, operator panel), PlcServer (replaced by
PlcServer2), PlcManager and DumpSignalValues (command line tools over the
database), ValveTest, and third-party code.  PROJECT.json marks them not_modelled.

Of the modelled parts: the proxy's moving average and diodes; registers of devices and
their reading periods; answers to operators' queries, configurations and the log of the
server; sessions, archiving and transactions of the database; the division of long
texts and AT commands; line ends and dumps of socat's transfer, its reads and writes
with EAGAIN, data inside OpenSSL, and the wait of xioshutdown for a one-way program; values of socat's options; the passing on of
SIGHUP, SIGINT and SIGQUIT to sub processes; `filan` and `procan`, which print what the
operating system says of descriptors and processes, and the wrappers of
system calls (`sycls.c`), which log them.
