----------------------------- MODULE ModbusLink -----------------------------
(***************************************************************************)
(* The engine and the inputs and outputs of the NPE X1000, end to end:     *)
(* the loop over the devices and the Modbus master of the engine           *)
(* (PlcEngine.java, IODevice.java, ModbusMaster.java), a TCP connection    *)
(* that can cut, delay and break, one slave process per connection         *)
(* (mbproxy.cpp, modbus_slave.c) and the scan of the proxy, all on one     *)
(* register image that nothing locks.                                      *)
(*                                                                         *)
(* Time is counted in pauses of the loop (Thread.sleep(10)); Timeout is    *)
(* TimeoutMs of the master and TIMEOUT_US of the slave in that unit.       *)
(***************************************************************************)
EXTENDS ModbusFrames

CONSTANTS
  Setups,      \* configurations, inputs and faults to be started with
  Conns,       \* bound of the model: connections that there are at a time
  MaxDevices,  \* bound of the model: devices of a configuration
  Timeout,
  ReadBuffer   \* sizeof(_read_buffer)

ASSUME ModbusLinkAssumption ==
  /\ OutputCount > 0    \* the board has outputs
  /\ Timeout \in Nat \ {0}
  /\ ReadBuffer \in Nat /\ ReadBuffer > 13   \* the longest frame the engine sends
  /\ Conns # {} /\ Conns \subseteq Nat \ {0}
  /\ MaxDevices \in Nat
  /\ \A u \in Setups :
       /\ u.devices \in Seq([type : {"COIL", "DISCRETE_INPUT"}, start : Words, count : 1..32])
       /\ Len(u.devices) \in 1..MaxDevices
       /\ u.inputs \subseteq [0..InputCount - 1 -> BOOLEAN]
       /\ {u.delays, u.cuts, u.breaks, u.orders, u.toggles} \subseteq Nat
       /\ u.dies \in BOOLEAN

VARIABLES
  setup,
  conn,               \* modbus: the connection in use, 0 for null
  device, stage,      \* where the loop over plcContext.Devices stands
  failed,             \* socket_exception_count
  reconnect,          \* should_reconnect
  query, got, waited, \* the query asked, its answer so far, the time since it was sent
  data, want, ok,     \* BitData, _BitDataToBeWritten, IsLastSyncOk of every device
  up, down,           \* bytes under way on each connection
  state,              \* of each connection: "none", "open", "broken", "closed"
  buf, idle,          \* _read_buffer of each slave, the time since its last byte
  regs,               \* modbus_registers
  main, scan,         \* the process that scans, the output it comes to next
  input, relay,       \* what is on the wires
  been,               \* values the input had
  phantom,            \* ghost: a slave obeyed a frame that nobody asked
  late,               \* ghost: the master gave up a query that was still under way
  delays, cuts, breaks, orders, toggles   \* what is left of the faults and inputs

engineVars ==
  <<conn, device, stage, failed, reconnect, query, got, waited, data, want, ok, late>>
netVars == <<up, down, state>>
slaveVars == <<buf, idle, phantom>>
proxyVars == <<main, scan, relay>>
worldVars == <<input, been, delays, cuts, breaks, orders, toggles>>
vars == <<setup, engineVars, netVars, slaveVars, regs, proxyVars, worldVars>>

Devices == setup.devices
Device == Devices[device]
None == <<>>
Waiting == stage \in {"readWait", "writeWait"}
-----------------------------------------------------------------------------
(* ModbusMaster *)

ReadQuery(d) ==
  Sealed(<<Address, IF d.type = "COIL" THEN 1 ELSE 2>> \o Word(d.start) \o Word(d.count))

WriteQuery(d, coils) ==
  LET payload == PackedAll({i \in 0..d.count - 1 : coils[i + 1]}, d.count) IN
  Sealed(<<Address, 15>> \o Word(d.start) \o Word(d.count) \o <<Len(payload)>> \o payload)

\* The bytes that the answer to a query has when all is well.
Expected == IF stage = "readWait" THEN 5 + (Device.count + 7) \div 8 ELSE 8

\* _ReadInputFailIfIncorrect and the checks after it.
Accepted(reply) ==
  /\ reply[1] = Address /\ reply[2] = query[2]
  /\ _IsChecksumOK(reply)
  /\ IF stage = "readWait" THEN reply[3] = Expected - 5
     ELSE SubSeq(reply, 3, 6) = SubSeq(query, 3, 6)

BitsOf(reply) ==
  [i \in 1..Device.count |-> IsSet(reply[4 + (i - 1) \div 8], (i - 1) % 8)]

Init ==
  /\ setup \in Setups
  /\ conn = 0
  /\ device = 1 /\ stage = "pause" /\ failed = 0 /\ reconnect = FALSE
  /\ query = None /\ got = None /\ waited = 0
  /\ data = [d \in DOMAIN Devices |-> None]
  /\ want = [d \in DOMAIN Devices |-> None]
  /\ ok = [d \in DOMAIN Devices |-> FALSE]
  /\ up = [c \in Conns |-> None] /\ down = [c \in Conns |-> None]
  /\ state = [c \in Conns |-> "none"]
  /\ buf = [c \in Conns |-> None] /\ idle = [c \in Conns |-> 0]
  /\ regs = [dout |-> [o \in 0..OutputCount - 1 |-> FALSE],
             din |-> [i \in 0..InputCount - 1 |-> FALSE],
             ain |-> [r \in 0..RegisterCount - 1 |-> 0]]
  /\ main = "starting" /\ scan = 0
  /\ input \in setup.inputs
  /\ relay = [o \in 0..OutputCount - 1 |-> FALSE]
  /\ been = {input} /\ phantom = FALSE /\ late = FALSE
  /\ delays = setup.delays /\ cuts = setup.cuts /\ breaks = setup.breaks
  /\ orders = setup.orders /\ toggles = setup.toggles
-----------------------------------------------------------------------------
(* The loop of the engine. *)

EngineOnly == UNCHANGED <<setup, slaveVars, regs, proxyVars, worldVars>>

\* _socketByConnectionString fails until the proxy listens; it forks a process
\* for the connection (process_tcp_server), which begins with ModbusSlave_Init.
Connect ==
  /\ conn = 0 /\ stage = "pause" /\ main # "starting"
  /\ \E c \in Conns :
       /\ state[c] # "open" /\ up[c] = None
       /\ conn' = c
       /\ state' = [state EXCEPT ![c] = "open"]
       /\ down' = [down EXCEPT ![c] = None]
       /\ buf' = [buf EXCEPT ![c] = None] /\ idle' = [idle EXCEPT ![c] = 0]
  /\ got' = None
  /\ UNCHANGED <<setup, device, stage, failed, reconnect, query, waited, data, want, ok, late,
                 up, phantom, regs, proxyVars, worldVars>>

\* Mutant of NextDevice: a device that fails ends the round.
NextDeviceNever(fails, fatal) ==
  LET last == device = Len(Devices) \/ fails > failed
      closes == last /\ (reconnect \/ fatal \/ fails = Len(Devices)) IN
  /\ device' = IF last THEN 1 ELSE device + 1
  /\ failed' = IF last THEN 0 ELSE fails
  /\ reconnect' = (~last /\ (reconnect \/ fatal))
  /\ stage' = "pause"
  /\ conn' = IF closes THEN 0 ELSE conn
  /\ state' = IF closes /\ state[conn] = "open" THEN [state EXCEPT ![conn] = "closed"] ELSE state

\* The end of one device: on to the next one, or to the end of the round, which
\* closes a connection that failed or on which all the devices failed.
NextDevice(fails, fatal) ==
  LET last == device = Len(Devices)
      closes == last /\ (reconnect \/ fatal \/ fails = Len(Devices)) IN
  /\ device' = IF last THEN 1 ELSE device + 1
  /\ failed' = IF last THEN 0 ELSE fails
  /\ reconnect' = (~last /\ (reconnect \/ fatal))
  /\ stage' = "pause"
  /\ conn' = IF closes THEN 0 ELSE conn
  /\ state' = IF closes /\ state[conn] = "open" THEN [state EXCEPT ![conn] = "closed"] ELSE state

\* A query after a purge of the input; a broken connection raises SocketException.
Ask(bytes, next) ==
  /\ ok' = [ok EXCEPT ![device] = FALSE]
  /\ query' = bytes /\ got' = None /\ waited' = 0
  /\ IF state[conn] = "open"
     THEN /\ up' = [up EXCEPT ![conn] = @ \o bytes]
          /\ stage' = next
          /\ UNCHANGED <<conn, device, failed, reconnect, state>>
     ELSE NextDevice(failed, TRUE) /\ UNCHANGED up
  /\ UNCHANGED <<data, want, late, down>> /\ EngineOnly

AskToRead == conn # 0 /\ stage = "read" /\ Ask(ReadQuery(Device), "readWait")
AskToWrite == stage = "write" /\ Ask(WriteQuery(Device, want[device]), "writeWait")

Take(reply) == got' = SubSeq(got, Len(reply) + 1, Len(got))

\* Mutant of Read: what was read once is not read again.
ReadOnce(reply) == IF data[device] = None THEN BitsOf(reply) ELSE data[device]

\* What a device is found to be: read back every time, outputs too.
Read(reply) == BitsOf(reply)

\* The rest of SyncWithModbus.  Coils are read back and written when they differ
\* from what is to be written; the first time they are only read.
Answer ==
  /\ Waiting /\ Len(got) >= Expected
  /\ LET reply == SubSeq(got, 1, Expected) IN
     /\ Take(reply)
     /\ IF ~Accepted(reply)
        THEN NextDevice(failed + 1, FALSE) /\ UNCHANGED <<data, want, ok>>
        ELSE IF stage = "writeWait"
        THEN /\ data' = [data EXCEPT ![device] = want[device]]
             /\ ok' = [ok EXCEPT ![device] = TRUE]
             /\ NextDevice(failed, FALSE) /\ UNCHANGED want
        ELSE LET bits == Read(reply) IN
             /\ data' = [data EXCEPT ![device] = bits]
             /\ want' = IF Device.type = "COIL" /\ want[device] = None
                        THEN [want EXCEPT ![device] = bits] ELSE want
             /\ IF Device.type = "COIL" /\ bits # want'[device]
                THEN /\ stage' = "write"
                     /\ UNCHANGED <<conn, device, failed, reconnect, ok, state>>
                ELSE ok' = [ok EXCEPT ![device] = TRUE] /\ NextDevice(failed, FALSE)
  /\ UNCHANGED <<query, waited, late, up, down>> /\ EngineOnly

\* The bytes read so far are gone with the exception, those that come later are not.
TimesOut ==
  /\ Waiting /\ Len(got) < Expected /\ waited >= Timeout
  /\ got' = None
  /\ late' = (late \/ up[conn] # None \/ down[conn] # None)
  /\ NextDevice(failed + 1, FALSE)
  /\ UNCHANGED <<query, waited, data, want, ok, up, down>> /\ EngineOnly

Engine == Connect \/ AskToRead \/ AskToWrite \/ Answer \/ TimesOut

\* IODevice.Write, from the logic program or from the server; ignored before
\* the coils were read.
Write(d) ==
  /\ orders > 0 /\ want[d] # None
  /\ \E i \in 1..Devices[d].count : want' = [want EXCEPT ![d][i] = ~@]
  /\ orders' = orders - 1
  /\ UNCHANGED <<setup, conn, device, stage, failed, reconnect, query, got, waited,
                 data, ok, late, netVars, slaveVars, regs, proxyVars, input, been, delays, cuts,
                 breaks, toggles>>
-----------------------------------------------------------------------------
(* The slave of a connection. *)

\* Queries that the engine asks.
Asked ==
  UNION {{ReadQuery(d)} \cup
         (IF d.type = "COIL" THEN {WriteQuery(d, b) : b \in [1..d.count -> BOOLEAN]} ELSE {})
         : d \in {Devices[i] : i \in DOMAIN Devices}}

\* Uart_CharReceived: a whole frame at the head of the buffer is processed (one
\* call does, since it leaves less than four bytes); a full buffer is dropped.
NotFull(s) == IF Len(s.buf) >= ReadBuffer THEN [s EXCEPT !.buf = None] ELSE s
Uart_CharReceived(s, ch) == NotFull(_ProcessReceivedData([s EXCEPT !.buf = Append(@, ch)]))

\* What a slave makes of bytes that arrive together.
Received(s, bytes) ==
  LET after[i \in 0..Len(bytes)] ==
        IF i = 0 THEN s ELSE Uart_CharReceived(after[i - 1], bytes[i]) IN
  after[Len(bytes)]

\* A timeout discards the previous input.
Kept(c) == IF idle[c] > Timeout THEN None ELSE buf[c]

\* serve_client reads what has arrived: all of it, or less when the network cuts it.
Serve(c) ==
  /\ up[c] # None /\ state[c] # "none"
  /\ \E n \in 1..Len(up[c]) :
       /\ n < Len(up[c]) => cuts > 0
       /\ cuts' = IF n < Len(up[c]) THEN cuts - 1 ELSE cuts
       /\ \E s \in {Received([buf |-> Kept(c), regs |-> regs, out |-> None, done |-> None],
                             SubSeq(up[c], 1, n))} :
          /\ buf' = [buf EXCEPT ![c] = s.buf]
          /\ regs' = s.regs
          /\ phantom' = (phantom \/ \E i \in DOMAIN s.done : s.done[i] \notin Asked)
          /\ down' = IF state[c] = "open" THEN [down EXCEPT ![c] = @ \o s.out] ELSE down
       /\ up' = [up EXCEPT ![c] = SubSeq(@, n + 1, Len(@))]
  /\ idle' = [idle EXCEPT ![c] = 0]
  /\ UNCHANGED <<setup, engineVars, state, proxyVars, input, been, delays, breaks, orders,
                 toggles>>

\* Bytes of a reply arrive at the master, all of them or less.
Arrive(c) ==
  /\ down[c] # None /\ c = conn
  /\ \E n \in 1..Len(down[c]) :
       /\ n < Len(down[c]) => cuts > 0
       /\ cuts' = IF n < Len(down[c]) THEN cuts - 1 ELSE cuts
       /\ got' = got \o SubSeq(down[c], 1, n)
       /\ down' = [down EXCEPT ![c] = SubSeq(@, n + 1, Len(@))]
  /\ UNCHANGED <<setup, conn, device, stage, failed, reconnect, query, waited, data,
                 want, ok, late, up, state, slaveVars, regs, proxyVars, input, been, delays, breaks,
                 orders, toggles>>

\* The connection breaks; the proxy may still get what was under way to it.
Break ==
  /\ breaks > 0 /\ conn # 0 /\ state[conn] = "open"
  /\ state' = [state EXCEPT ![conn] = "broken"]
  /\ down' = [down EXCEPT ![conn] = None]
  /\ breaks' = breaks - 1
  /\ UNCHANGED <<setup, engineVars, up, slaveVars, regs, proxyVars, input, been, delays, cuts,
                 orders, toggles>>

UnderWay == \E c \in Conns : up[c] # None \/ (down[c] # None /\ c = conn)

\* Time passes, over bytes under way only as often as delays says, and never over
\* an answer that is there.
Tick ==
  /\ \/ stage = "pause" /\ conn # 0
     \/ Waiting /\ Len(got) < Expected /\ waited < Timeout
  /\ UnderWay => delays > 0
  /\ delays' = IF UnderWay THEN delays - 1 ELSE delays
  /\ stage' = IF stage = "pause" THEN "read" ELSE stage
  /\ waited' = IF Waiting THEN waited + 1 ELSE waited
  /\ idle' = [c \in Conns |-> IF idle[c] > Timeout THEN idle[c] ELSE idle[c] + 1]
  /\ UNCHANGED <<setup, conn, device, failed, reconnect, query, got, data, want, ok,
                 late, netVars, buf, phantom, regs, proxyVars, input, been, cuts, breaks, orders,
                 toggles>>
-----------------------------------------------------------------------------
(* The proxy. *)

ProxyOnly == UNCHANGED <<setup, engineVars, netVars, slaveVars, worldVars>>

\* Mutant of Start: the proxy listens before the first scan.
StartListening ==
  /\ main = "starting"
  /\ main' = "running"
  /\ regs' = [regs EXCEPT !.dout = relay]
  /\ UNCHANGED <<scan, relay>> /\ ProxyOnly

\* main up to the fork of the TCP server: the registers get current values first.
Start ==
  /\ main = "starting"
  /\ main' = "running"
  /\ regs' = [regs EXCEPT !.din = input, !.dout = relay]
  /\ UNCHANGED <<scan, relay>> /\ ProxyOnly

\* One round of the loop reads the inputs, then sets the outputs one by one.
ScanInputs ==
  /\ main = "running" /\ scan = 0
  /\ regs' = [regs EXCEPT !.din = input]
  /\ scan' = 1
  /\ UNCHANGED <<main, relay>> /\ ProxyOnly

SetOutput ==
  /\ main = "running" /\ scan > 0
  /\ relay' = [relay EXCEPT ![scan - 1] = regs.dout[scan - 1]]
  /\ scan' = (scan + 1) % (OutputCount + 1)
  /\ UNCHANGED <<main, regs>> /\ ProxyOnly

\* An input or output that cannot be accessed is an exception that ends main;
\* the processes of the connections go on.
MainDies ==
  /\ setup.dies /\ main = "running"
  /\ main' = "dead"
  /\ UNCHANGED <<scan, regs, relay>> /\ ProxyOnly

Proxy == Start \/ ScanInputs \/ SetOutput

\* The input changes.
Toggle ==
  /\ toggles > 0
  /\ toggles' = toggles - 1
  /\ \E i \in DOMAIN input : input' = [input EXCEPT ![i] = ~@]
  /\ been' = been \cup {input'}
  /\ UNCHANGED <<setup, engineVars, netVars, slaveVars, regs, proxyVars, delays, cuts, breaks,
                 orders>>

Next ==
  \/ Engine \/ (\E d \in DOMAIN Devices : Write(d))
  \/ \E c \in Conns : Serve(c) \/ Arrive(c)
  \/ Break \/ Tick
  \/ Proxy \/ MainDies \/ Toggle

EngineReady ==
  \/ conn = 0 /\ main # "starting" /\ \E c \in Conns : state[c] # "open" /\ up[c] = None
  \/ conn # 0 /\ stage = "read"
  \/ stage = "write"
  \/ Waiting /\ (Len(got) >= Expected \/ waited >= Timeout)

\* The processes run, what is under way arrives and time passes: weak fairness,
\* with the enabling conditions written out where ENABLED would compute checksums.
Fairness ==
  /\ WF_vars(Proxy) /\ WF_vars(Tick)
  /\ []<>~EngineReady \/ []<><<Engine>>_vars
  /\ \A c \in Conns :
       /\ []<>(up[c] = None) \/ []<><<Serve(c)>>_vars
       /\ []<>(down[c] = None \/ c # conn) \/ []<><<Arrive(c)>>_vars

Spec == Init /\ [][Next]_vars /\ Fairness
-----------------------------------------------------------------------------
TypeOK ==
  /\ conn \in {0} \cup Conns
  /\ device \in DOMAIN Devices
  /\ stage \in {"pause", "read", "readWait", "write", "writeWait"}
  /\ failed \in 0..Len(Devices) - 1 /\ reconnect \in BOOLEAN /\ waited \in 0..Timeout
  /\ \A d \in DOMAIN Devices :
       {data[d], want[d]} \subseteq {None} \cup [1..Devices[d].count -> BOOLEAN]
  /\ state \in [Conns -> {"none", "open", "broken", "closed"}]
  /\ \A c \in Conns : Len(buf[c]) < ReadBuffer /\ idle[c] \in 0..Timeout + 1
  /\ regs \in Registers
  /\ main \in {"starting", "running", "dead"} /\ scan \in 0..OutputCount
  /\ relay \in [0..OutputCount - 1 -> BOOLEAN]

\* Devices that the proxy has all the inputs or outputs of.
Exists(d) ==
  Devices[d].start + Devices[d].count <=
    IF Devices[d].type = "COIL" THEN OutputCount ELSE InputCount

\* However frames are cut, delayed and glued to the rest of others, a slave
\* obeys no frame that was not asked.
NoPhantom == ~phantom

\* The bits that device d is found to have are what inputs e were when the wires had v.
Shows(d, e, v) ==
  \A i \in 1..Devices[d].count :
    LET at == Devices[e].start + i - 1 IN
    data[d][i] <=> i <= Devices[e].count /\ at \in DOMAIN v /\ v[at]

\* What the engine has for inputs was on their own wires at some time.  The master does
\* not know which query an answer is for: once it gave up one that was still under way,
\* its answer is taken for that of the next device when the input was purged too early,
\* and the engine has for a device what other inputs were (_ReadInputFailIfIncorrect).
InputsAreReal ==
  \A d \in DOMAIN Devices :
    Devices[d].type = "DISCRETE_INPUT" /\ Exists(d) /\ data[d] # None =>
      \E e \in DOMAIN Devices, v \in been :
        /\ e = d \/ (late /\ Devices[e].type = "DISCRETE_INPUT")
        /\ Shows(d, e, v)

\* Where no answer can be taken for another: a reply is cut, a connection breaks and a
\* query is lost, but the master has given up none while bytes were under way.
ExactUntilLate == ~late => NoPhantom /\ InputsAreReal

\* Once cuts and delays are over, every device that exists is read time and
\* again, whatever a broken frame left in a buffer and whatever other devices do.
Recovers ==
  \A d \in 1..MaxDevices : []<>(d \in DOMAIN Devices /\ Exists(d) => ok[d])

\* Once orders are over, the relays are and stay what the engine wants, also
\* when an old query is obeyed after a new one; main must be alive.
RelaysFollow ==
  <>[](main = "running" =>
         \A d \in DOMAIN Devices :
           Devices[d].type = "COIL" /\ Exists(d) /\ want[d] # None =>
             \A i \in 1..Devices[d].count : relay[Devices[d].start + i - 1] = want[d][i])

=============================================================================
