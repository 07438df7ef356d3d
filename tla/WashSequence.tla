---------------------------- MODULE WashSequence ----------------------------
(***************************************************************************)
(* Washing of the filter: the sequence of timed commands that the PLC      *)
(* thread works through, the commands that stop it, and the outputs they   *)
(* get to (PlcEngine.java, wired as in LoksaSetup/Posti VTJ).              *)
(*                                                                         *)
(* FJP.WASHING is a variable of the engine; the other signals are coils of *)
(* two modbus devices.  P01 stands for the well pump and the tank valves   *)
(* that step 0 closes with it.  Time is the number of steps whose start    *)
(* time has passed.  Operators set FJP.WASHING only.                       *)
(***************************************************************************)
EXTENDS Integers, Sequences

CONSTANTS MaxRequests,    \* bound of the model: requests for FJP.WASHING
          MaxRestarts     \* bound of the model: restarts of the engine

ASSUME WashAssumption == MaxRequests \in Nat /\ MaxRestarts \in Nat

VARIABLES
  actual,       \* the outputs
  wanted,       \* _BitDataToBeWritten of the two devices
  known,        \* devices that were synchronised once: their arrays are not null
  failed,       \* devices that did not answer in this round
  broken,       \* the modbus connection was lost in this round
  modbus,       \* modbus # null
  mishap,       \* ghost: a device failed alone, or modbus was refused
  washing,      \* value of FJP.WASHING
  index,        \* _wash_index
  due,          \* steps whose start time has passed since _wash_start_time_ms
  queries,      \* _queries
  pending,      \* commands the PLC thread is adding to it
  phase,        \* where the PLC thread stands in its round
  requests,     \* requests so far
  restarts      \* restarts so far

ioVars == <<actual, wanted, known, failed, broken, modbus, mishap>>
washVars == <<washing, index, due>>
vars == <<ioVars, washVars, queries, pending, phase, requests, restarts>>

Pumps == "U2"
Valves == "U4"
Devices == {Pumps, Valves}
CoilsOf(d) == IF d = Pumps THEN {"P01", "P5"} ELSE {"M1", "M2", "M3", "M4"}
Coils == CoilsOf(Pumps) \cup CoilsOf(Valves)
DeviceOf(c) == IF c \in CoilsOf(Pumps) THEN Pumps ELSE Valves
Wash == "FJP.WASHING"

Set(s, v) == [signal |-> s, value |-> v]

\* _wash_steps.  M1 and M3: 1 closes; M2 and M4: 1 opens.
WashSteps ==
  << <<Set("P01", 0)>>,
     <<Set("M1", 1), Set("M3", 1), Set("M2", 1), Set("M4", 0)>>,
     <<Set("P5", 1)>>,
     <<Set("M2", 0), Set("M4", 1)>>,
     <<Set("P5", 0), Set("M4", 0)>>,
     <<Set("M1", 1), Set("M3", 1)>>,
     <<Set(Wash, 0)>> >>

\* Mutant of WashReset: the pump is left to the steps.
WashResetValves ==
  <<Set("M1", 0), Set("M2", 0), Set("M3", 0), Set("M4", 0), Set(Wash, 0)>>

\* _wash_reset.
WashReset ==
  <<Set("P5", 0), Set("M1", 0), Set("M2", 0), Set("M3", 0), Set("M4", 0), Set(Wash, 0)>>

\* Mutant of StartQueries: nothing is reset.
StartQueriesNone == <<>>

\* start calls _resetWash.
StartQueries == WashReset

Init ==
  /\ actual = [c \in Coils |-> 0] /\ wanted = [c \in Coils |-> 0]
  /\ known = {} /\ failed = {} /\ broken = FALSE /\ modbus = FALSE
  /\ mishap = FALSE
  /\ washing = 0 /\ index = -1 /\ due = 0
  /\ queries = StartQueries /\ pending = <<>>
  /\ phase = "connect"
  /\ requests = 0 /\ restarts = 0
-----------------------------------------------------------------------------
(* Modbus: connect, then one device after the other. *)

Connect ==
  /\ phase = "connect"
  /\ \/ modbus' = TRUE /\ phase' = "pumps" /\ UNCHANGED mishap
     \/ ~modbus /\ modbus' = FALSE /\ phase' = "wash" /\ mishap' = TRUE
  /\ failed' = {} /\ broken' = FALSE
  /\ UNCHANGED <<actual, wanted, known, washVars, queries, pending, requests, restarts>>

\* SyncWithModbus: the first time the coils are only read, later on they are
\* written when they differ from what is wanted.
SyncOk(d) ==
  /\ ~broken
  /\ known' = known \cup {d}
  /\ IF d \in known
     THEN /\ actual' = [c \in Coils |-> IF c \in CoilsOf(d) THEN wanted[c] ELSE actual[c]]
          /\ UNCHANGED wanted
     ELSE /\ wanted' = [c \in Coils |-> IF c \in CoilsOf(d) THEN actual[c] ELSE wanted[c]]
          /\ UNCHANGED actual
  /\ UNCHANGED <<failed, broken, mishap>>

\* An exception; the coils may have been written before it.
SyncFails(d) ==
  /\ failed' = failed \cup {d}
  /\ \/ broken' = TRUE /\ UNCHANGED mishap
     \/ ~broken /\ mishap' = TRUE /\ UNCHANGED broken
  /\ \/ UNCHANGED actual
     \/ /\ d \in known /\ ~broken
        /\ actual' = [c \in Coils |-> IF c \in CoilsOf(d) THEN wanted[c] ELSE actual[c]]
  /\ UNCHANGED <<wanted, known>>

SyncPumps ==
  /\ phase = "pumps"
  /\ SyncOk(Pumps) \/ SyncFails(Pumps)
  /\ phase' = "valves"
  /\ UNCHANGED <<modbus, washVars, queries, pending, requests, restarts>>

\* Reconnect when a connection was lost or no device answered: the rest of the
\* round is left out.
SyncValves ==
  /\ phase = "valves"
  /\ SyncOk(Valves) \/ SyncFails(Valves)
  /\ IF broken' \/ failed' = Devices
     THEN modbus' = FALSE /\ phase' = "connect"
     ELSE UNCHANGED modbus /\ phase' = "wash"
  /\ UNCHANGED <<washVars, queries, pending, requests, restarts>>
-----------------------------------------------------------------------------
(* The steps. *)

LastStep == Len(WashSteps) - 1

\* Mutant of Due: a step later.
DueLate(i) == i + 1 < due

\* ss.startTimeMs < wtime_ms
Due(i) == i < due

\* Mutant of NextStep: the last step is one of many.
NextStepNoReset ==
  IF index >= 0 /\ Due(index)
  THEN pending' = WashSteps[index + 1] /\ index' = index + 1 /\ UNCHANGED due
  ELSE UNCHANGED <<pending, index, due>>

\* One step in a round; after the last one everything is reset.
NextStep ==
  IF index >= 0 /\ Due(index)
  THEN /\ pending' = WashSteps[index + 1] \o (IF index = LastStep THEN WashReset ELSE <<>>)
       /\ index' = IF index = LastStep THEN -1 ELSE index + 1
       /\ due' = IF index = LastStep THEN 0 ELSE due
  ELSE UNCHANGED <<pending, index, due>>

WashStep ==
  /\ phase = "wash"
  /\ pending = <<>>
  /\ NextStep
  /\ phase' = "start"
  /\ UNCHANGED <<ioVars, washing, queries, requests, restarts>>

\* Once in three days, at three in the morning.
AutoStart ==
  /\ phase = "start"
  /\ pending = <<>>
  /\ phase' = "queries"
  /\ \/ UNCHANGED <<pending, requests>>
     \/ /\ requests < MaxRequests
        /\ pending' = <<Set(Wash, 1)>>
        /\ requests' = requests + 1
  /\ UNCHANGED <<ioVars, washVars, queries, restarts>>

\* handleMessage, one command at a time: others add to the queue as well.
AddPending ==
  /\ pending # <<>>
  /\ queries' = Append(queries, Head(pending))
  /\ pending' = Tail(pending)
  /\ UNCHANGED <<ioVars, washVars, phase, requests, restarts>>

Tick ==
  /\ index >= 0
  /\ due < Len(WashSteps)
  /\ due' = due + 1
  /\ UNCHANGED <<ioVars, washing, index, queries, pending, phase, requests, restarts>>
-----------------------------------------------------------------------------
(* The queries, and the logic program at the end of the round. *)

Starts(q) == q.value > 0 /\ washing = 0 /\ index < 0

\* Mutant of Stops: the sequence goes on.
StopsNever(q) == FALSE

Stops(q) == q.value = 0 /\ washing > 0 /\ index >= 0

SetWash(q) ==
  /\ washing' = q.value
  /\ index' = IF Starts(q) THEN 0 ELSE IF Stops(q) THEN -1 ELSE index
  /\ due' = IF Starts(q) \/ Stops(q) THEN 0 ELSE due
  /\ pending' = IF Stops(q) THEN WashReset ELSE <<>>
  /\ UNCHANGED wanted

\* IODevice.Write: before the first synchronisation nothing is written.
Write(c, v) ==
  wanted' = IF DeviceOf(c) \in known THEN [wanted EXCEPT ![c] = v] ELSE wanted

Poll ==
  /\ phase = "queries"
  /\ pending = <<>>
  /\ queries # <<>>
  /\ queries' = Tail(queries)
  /\ LET q == Head(queries)
     IN IF q.signal = Wash
        THEN SetWash(q)
        ELSE Write(q.signal, q.value) /\ UNCHANGED <<washVars, pending>>
  /\ UNCHANGED <<actual, known, failed, broken, modbus, mishap, phase, requests, restarts>>

\* setup.prg keeps P01 off while washing and switches it by the levels else.
Logic ==
  /\ phase = "queries"
  /\ pending = <<>>
  /\ queries = <<>>
  /\ \E v \in 0 .. 1 - washing : Write("P01", v)
  /\ phase' = "connect"
  /\ UNCHANGED <<actual, known, failed, broken, modbus, mishap, washVars, queries,
                 pending, requests, restarts>>
-----------------------------------------------------------------------------
\* A message from the server or from the user interface, at any time.
Request ==
  /\ requests < MaxRequests
  /\ requests' = requests + 1
  /\ \E v \in 0 .. 1 : queries' = Append(queries, Set(Wash, v))
  /\ UNCHANGED <<ioVars, washVars, pending, phase, restarts>>

\* The engine starts anew; FJP.WASHING is not kept, the outputs stay as they are.
Restart ==
  /\ restarts < MaxRestarts
  /\ restarts' = restarts + 1
  /\ wanted' = [c \in Coils |-> 0]
  /\ known' = {} /\ failed' = {} /\ broken' = FALSE /\ modbus' = FALSE
  /\ washing' = 0 /\ index' = -1 /\ due' = 0
  /\ queries' = StartQueries /\ pending' = <<>>
  /\ phase' = "connect"
  /\ UNCHANGED <<actual, mishap, requests>>

PlcThread ==
  \/ Connect \/ SyncPumps \/ SyncValves
  \/ WashStep \/ AutoStart \/ AddPending
  \/ Poll \/ Logic

Next == PlcThread \/ Tick \/ Request \/ Restart

Spec == Init /\ [][Next]_vars

\* The thread runs, time passes, and again and again all devices answer.
Fairness ==
  /\ WF_vars(PlcThread) /\ WF_vars(Tick)
  /\ SF_vars(SyncPumps /\ SyncOk(Pumps)) /\ SF_vars(SyncValves /\ SyncOk(Valves))

FairSpec == Spec /\ Fairness
-----------------------------------------------------------------------------
Commands == [signal : Coils \cup {Wash}, value : 0 .. 1]

TypeOK ==
  /\ actual \in [Coils -> 0 .. 1] /\ wanted \in [Coils -> 0 .. 1]
  /\ known \subseteq Devices /\ failed \subseteq Devices
  /\ broken \in BOOLEAN /\ modbus \in BOOLEAN /\ mishap \in BOOLEAN
  /\ washing \in 0 .. 1 /\ index \in -1 .. LastStep /\ due \in 0 .. Len(WashSteps)
  /\ queries \in Seq(Commands) /\ pending \in Seq(Commands)
  /\ phase \in {"connect", "pumps", "valves", "wash", "start", "queries"}
  /\ requests \in 0 .. MaxRequests /\ restarts \in 0 .. MaxRestarts

\* When the PLC thread has dealt with the queries of a round, the sequence is
\* under way exactly when FJP.WASHING says so: whatever requests got between
\* the commands of a step or of a reset, none is left half done
\* (PlcEngine.java:506-542, 570-592).
SequenceFollowsSignal ==
  phase = "queries" /\ pending = <<>> /\ queries = <<>> => (washing = 1 <=> index >= 0)

\* With the washing pump running, water can pass: the filter is cut off from
\* the tanks (M1, M3), one of the washing ways is open (M2 or M4), and the well
\* pump stands (steps 1 to 5 of PlcEngine.java:119-127), at any moment of a round,
\* also after an abort, a restart or a loss of connection in the middle; devices
\* that fail one by one are another matter.
PumpHasPath ==
  ~mishap /\ actual["P5"] = 1
    => /\ actual["M1"] = 1 /\ actual["M3"] = 1
       /\ actual["M2"] = 1 \/ actual["M4"] = 1
       /\ actual["P01"] = 0

\* A wash ends, however its steps are delayed by rounds that are cut off.
WashEnds == (index >= 0) ~> (index < 0)

\* After a wash has ended, was stopped, or was cut off by a restart, the pump
\* stands or the next wash has begun (PlcEngine.java:129-139, 212-217).
PumpStops == []~mishap => ((index < 0) ~> (actual["P5"] = 0 \/ index >= 0))

=============================================================================
