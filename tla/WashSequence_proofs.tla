------------------------ MODULE WashSequence_proofs ------------------------
(***************************************************************************)
(* For any number of requests and restarts: the washing sequence and       *)
(* FJP.WASHING agree, and the washing pump does not run against closed     *)
(* valves while devices fail only together with their connection.          *)
(***************************************************************************)
EXTENDS WashSequence, SequenceTheorems, TLAPS

WashOff == Set(Wash, 0)

\* The command that clears FJP.WASHING is still to come.
OffIsIn(s) == \E i \in 1 .. Len(s) : s[i] = WashOff

(* A sequence runs only while FJP.WASHING is set; when it is over and the *)
(* signal is not, the command that clears it is on its way, whatever got   *)
(* in front of it.                                                         *)
SignalInv ==
  /\ TypeOK
  /\ index >= 0 => washing = 1
  /\ washing = 1 /\ index < 0 => OffIsIn(queries) \/ OffIsIn(pending)
-----------------------------------------------------------------------------
LEMMA StepsTyped ==
  /\ LastStep = 6 /\ Len(WashSteps) = 7
  /\ \A i \in 0 .. LastStep : WashSteps[i + 1] \in Seq(Commands)
<1>1. LastStep = 6 /\ Len(WashSteps) = 7
  BY DEF LastStep, WashSteps
<1>2. /\ <<Set("P01", 0)>> \in Seq(Commands)
      /\ <<Set("M1", 1), Set("M3", 1), Set("M2", 1), Set("M4", 0)>> \in Seq(Commands)
      /\ <<Set("P5", 1)>> \in Seq(Commands)
      /\ <<Set("M2", 0), Set("M4", 1)>> \in Seq(Commands)
      /\ <<Set("P5", 0), Set("M4", 0)>> \in Seq(Commands)
      /\ <<Set("M1", 1), Set("M3", 1)>> \in Seq(Commands)
      /\ <<Set(Wash, 0)>> \in Seq(Commands)
  BY DEF Set, Commands, Coils, CoilsOf, Pumps, Valves, Wash
<1>3. SUFFICES ASSUME NEW i \in 0 .. 6
               PROVE  WashSteps[i + 1] \in Seq(Commands)
  BY <1>1
<1>4. i = 0 \/ i = 1 \/ i = 2 \/ i = 3 \/ i = 4 \/ i = 5 \/ i = 6
  OBVIOUS
<1>5. /\ WashSteps[1] \in Seq(Commands) /\ WashSteps[2] \in Seq(Commands)
      /\ WashSteps[3] \in Seq(Commands) /\ WashSteps[4] \in Seq(Commands)
      /\ WashSteps[5] \in Seq(Commands) /\ WashSteps[6] \in Seq(Commands)
      /\ WashSteps[7] \in Seq(Commands)
  BY <1>2 DEF WashSteps
<1>6. i + 1 \in {1, 2, 3, 4, 5, 6, 7}
  BY <1>4
<1> QED BY <1>5, <1>6

LEMMA ResetTyped == WashReset \in Seq(Commands) /\ OffIsIn(WashReset)
<1>1. WashReset \in Seq(Commands)
  BY DEF WashReset, Set, Commands, Coils, CoilsOf, Pumps, Valves, Wash
<1>2. Len(WashReset) = 6 /\ WashReset[6] = WashOff
  BY DEF WashReset, WashOff
<1> QED BY <1>1, <1>2 DEF OffIsIn

(* What taking the first command and adding one at the end do to a queue. *)
LEMMA OffStaysBehind ==
  ASSUME NEW s \in Seq(Commands), s # <<>>, OffIsIn(s), Head(s) # WashOff
  PROVE  OffIsIn(Tail(s))
<1>1. PICK i \in 1 .. Len(s) : s[i] = WashOff
  BY DEF OffIsIn
<1>2. Len(s) \in Nat /\ Head(s) = s[1]
  BY HeadTailProperties, LenProperties
<1>3. i # 1 /\ i - 1 \in 1 .. Len(s) - 1
  BY <1>1, <1>2
<1>4. Len(Tail(s)) = Len(s) - 1 /\ Tail(s)[i - 1] = s[(i - 1) + 1]
  BY <1>3, HeadTailProperties
<1> QED BY <1>1, <1>2, <1>3, <1>4 DEF OffIsIn

LEMMA OffStaysInFront ==
  ASSUME NEW s \in Seq(Commands), NEW c \in Commands, OffIsIn(s) \/ c = WashOff
  PROVE  OffIsIn(Append(s, c))
<1>1. /\ Len(s) \in Nat /\ Len(Append(s, c)) = Len(s) + 1
      /\ \A i \in 1 .. Len(s) : Append(s, c)[i] = s[i]
      /\ Append(s, c)[Len(s) + 1] = c
  BY AppendProperties, LenProperties
<1> QED BY <1>1 DEF OffIsIn

LEMMA OffIsInEnd ==
  ASSUME NEW s \in Seq(Commands), NEW t \in Seq(Commands), OffIsIn(t)
  PROVE  OffIsIn(s \o t)
<1>1. PICK i \in 1 .. Len(t) : t[i] = WashOff
  BY DEF OffIsIn
<1>2. Len(s) \in Nat /\ Len(t) \in Nat /\ Len(s \o t) = Len(s) + Len(t)
  BY ConcatProperties, LenProperties
<1>3. (s \o t)[Len(s) + i] = t[i] /\ Len(s) + i \in 1 .. Len(s \o t)
  BY <1>2, ConcatProperties
<1> QED BY <1>1, <1>3 DEF OffIsIn

LEMMA NothingIsInEmpty == ~OffIsIn(<<>>)
BY EmptySeq DEF OffIsIn
-----------------------------------------------------------------------------
LEMMA SignalInit == Init => SignalInv
<1> SUFFICES ASSUME Init PROVE SignalInv
  OBVIOUS
<1>1. queries \in Seq(Commands) /\ pending \in Seq(Commands)
  BY ResetTyped, EmptySeq DEF Init, StartQueries
<1>2. actual \in [Coils -> 0 .. 1] /\ wanted \in [Coils -> 0 .. 1]
  BY DEF Init
<1>3. index \in -1 .. LastStep /\ due \in 0 .. Len(WashSteps)
  BY StepsTyped DEF Init
<1>4. known \subseteq Devices /\ failed \subseteq Devices
  BY DEF Init
<1>5. broken \in BOOLEAN /\ modbus \in BOOLEAN /\ mishap \in BOOLEAN
  BY DEF Init
<1>6. /\ washing = 0 /\ index < 0 /\ phase = "connect"
      /\ requests \in 0 .. MaxRequests /\ restarts \in 0 .. MaxRestarts
  BY WashAssumption DEF Init
<1> QED BY <1>1, <1>2, <1>3, <1>4, <1>5, <1>6 DEF SignalInv, TypeOK

LEMMA SignalStep == SignalInv /\ [Next]_vars => SignalInv'
<1> SUFFICES ASSUME SignalInv, [Next]_vars
             PROVE  SignalInv'
  OBVIOUS
<1> USE WashAssumption
<1>0. queries \in Seq(Commands) /\ pending \in Seq(Commands)
  BY DEF SignalInv, TypeOK
<1>1. CASE Connect
  BY <1>1 DEF Connect, SignalInv, TypeOK, washVars, Devices
<1>2. CASE SyncPumps
  <2>1. /\ actual' \in [Coils -> 0 .. 1] /\ wanted' \in [Coils -> 0 .. 1]
        /\ known' \subseteq Devices /\ failed' \subseteq Devices
        /\ broken' \in BOOLEAN /\ mishap' \in BOOLEAN
    BY <1>2 DEF SyncPumps, SyncOk, SyncFails, SignalInv, TypeOK, Devices
  <2> QED BY <1>2, <2>1 DEF SyncPumps, SignalInv, TypeOK, washVars
<1>3. CASE SyncValves
  <2>1. /\ actual' \in [Coils -> 0 .. 1] /\ wanted' \in [Coils -> 0 .. 1]
        /\ known' \subseteq Devices /\ failed' \subseteq Devices
        /\ broken' \in BOOLEAN /\ mishap' \in BOOLEAN
    BY <1>3 DEF SyncValves, SyncOk, SyncFails, SignalInv, TypeOK, Devices
  <2>2. modbus' \in BOOLEAN /\ phase' \in {"connect", "wash"}
    BY <1>3 DEF SyncValves, SignalInv, TypeOK
  <2> QED BY <1>3, <2>1, <2>2 DEF SyncValves, SignalInv, TypeOK, washVars
<1>4. CASE WashStep
  <2>1. CASE index >= 0 /\ Due(index)
    <3> DEFINE end == IF index = LastStep THEN WashReset ELSE <<>>
    <3>1. index \in 0 .. LastStep /\ washing = 1
      BY <2>1 DEF SignalInv, TypeOK
    <3>2. WashSteps[index + 1] \in Seq(Commands) /\ end \in Seq(Commands)
      BY <3>1, StepsTyped, ResetTyped, EmptySeq
    <3>3. pending' = WashSteps[index + 1] \o end
      BY <1>4, <2>1 DEF WashStep, NextStep
    <3>4. pending' \in Seq(Commands)
      BY <3>2, <3>3, ConcatProperties
    <3>5. index = LastStep => OffIsIn(pending')
      BY <3>2, <3>3, ResetTyped, OffIsInEnd
    <3>6. /\ index' = IF index = LastStep THEN -1 ELSE index + 1
          /\ due' = IF index = LastStep THEN 0 ELSE due
          /\ phase' = "start" /\ UNCHANGED <<ioVars, washing, queries, requests, restarts>>
      BY <1>4, <2>1 DEF WashStep, NextStep
    <3> HIDE DEF end
    <3>7. TypeOK'
      BY <3>1, <3>4, <3>6, StepsTyped DEF SignalInv, TypeOK, ioVars
    <3> QED BY <3>1, <3>5, <3>6, <3>7, StepsTyped DEF SignalInv
  <2>2. CASE ~(index >= 0 /\ Due(index))
    BY <1>4, <2>2 DEF WashStep, NextStep, SignalInv, TypeOK, ioVars
  <2> QED BY <2>1, <2>2
<1>5. CASE AutoStart
  <2>1. pending = <<>> /\ pending' \in Seq(Commands)
    <3>1. Set(Wash, 1) \in Commands
      BY DEF Set, Commands
    <3>2. <<Set(Wash, 1)>> \in Seq(Commands)
      BY <3>1
    <3> QED BY <1>0, <1>5, <3>2 DEF AutoStart
  <2>2. requests' \in 0 .. MaxRequests
    BY <1>5 DEF AutoStart, SignalInv, TypeOK
  <2>3. washing = 1 /\ index < 0 => OffIsIn(queries)
    BY <2>1, NothingIsInEmpty DEF SignalInv
  <2> QED BY <1>5, <2>1, <2>2, <2>3 DEF AutoStart, SignalInv, TypeOK, ioVars, washVars
<1>6. CASE AddPending
  <2>1. /\ pending # <<>>
        /\ queries' = Append(queries, Head(pending)) /\ pending' = Tail(pending)
        /\ UNCHANGED <<ioVars, washVars, phase, requests, restarts>>
    BY <1>6 DEF AddPending
  <2>2. Head(pending) \in Commands /\ pending' \in Seq(Commands)
    BY <1>0, <2>1, HeadTailProperties
  <2>3. queries' \in Seq(Commands)
    BY <1>0, <2>1, <2>2, AppendProperties
  <2>4. OffIsIn(queries) \/ OffIsIn(pending) => OffIsIn(queries') \/ OffIsIn(pending')
    BY <1>0, <2>1, <2>2, OffStaysBehind, OffStaysInFront
  <2> QED BY <2>1, <2>2, <2>3, <2>4 DEF SignalInv, TypeOK, ioVars, washVars
<1>7. CASE Poll
  <2> DEFINE q == Head(queries)
  <2>1. /\ pending = <<>> /\ queries # <<>> /\ queries' = Tail(queries)
        /\ UNCHANGED <<actual, known, failed, broken, modbus, mishap, phase, requests, restarts>>
    BY <1>7 DEF Poll
  <2>2. q \in Commands /\ queries' \in Seq(Commands)
    BY <1>0, <2>1, HeadTailProperties
  <2>3. washing = 1 /\ index < 0 => OffIsIn(queries)
    BY <2>1, NothingIsInEmpty DEF SignalInv
  <2>4. washing = 1 /\ index < 0 /\ q # WashOff => OffIsIn(queries')
    BY <1>0, <2>1, <2>3, OffStaysBehind
  <2>5. index \in -1 .. LastStep /\ washing \in 0 .. 1 /\ (index >= 0 => washing = 1)
    BY DEF SignalInv, TypeOK
  <2>6. CASE q.signal = Wash
    <3>1. SetWash(q)
      BY <1>7, <2>6 DEF Poll
    <3>2. q.value \in 0 .. 1 /\ (q.value = 0 => q = WashOff)
      BY <2>2, <2>6 DEF Commands, Set, WashOff
    <3> HIDE DEF q
    <3>3. pending' \in Seq(Commands)
      BY <3>1, ResetTyped, EmptySeq DEF SetWash
    <3>4. /\ washing' = q.value /\ wanted' = wanted
          /\ index' = IF Starts(q) THEN 0 ELSE IF Stops(q) THEN -1 ELSE index
          /\ due' = IF Starts(q) \/ Stops(q) THEN 0 ELSE due
      BY <3>1 DEF SetWash
    <3>5. index' \in -1 .. LastStep /\ (index' >= 0 => washing' = 1)
      BY <2>5, <3>2, <3>4, StepsTyped DEF Starts, Stops
    <3>6. washing' = 1 /\ index' < 0 => OffIsIn(queries')
      <4>1. CASE q.value = 0
        BY <3>4, <4>1
      <4>2. CASE q.value = 1
        <5>1. q # WashOff
          BY <4>2 DEF WashOff, Set
        <5>2. index < 0 => washing = 1 \/ Starts(q)
          BY <2>5, <4>2 DEF Starts
        <5>3. index' < 0 => index < 0 /\ washing = 1
          BY <2>5, <3>4, <4>2, <5>2 DEF Starts, Stops
        <5> QED BY <2>4, <5>1, <5>3
      <4> QED BY <3>2, <4>1, <4>2
    <3> QED BY <2>1, <2>2, <3>2, <3>3, <3>4, <3>5, <3>6 DEF SignalInv, TypeOK
  <2>7. CASE q.signal # Wash
    <3>1. Write(q.signal, q.value) /\ UNCHANGED <<washVars, pending>>
      BY <1>7, <2>7 DEF Poll
    <3>2. q # WashOff /\ q.value \in 0 .. 1
      BY <2>2, <2>7 DEF WashOff, Set, Commands
    <3> HIDE DEF q
    <3>3. wanted' \in [Coils -> 0 .. 1]
      BY <3>1, <3>2 DEF Write, SignalInv, TypeOK
    <3> QED BY <2>1, <2>2, <2>4, <2>5, <3>1, <3>2, <3>3 DEF SignalInv, TypeOK, washVars
  <2> QED BY <2>6, <2>7
<1>8. CASE Logic
  <2>1. PICK v \in 0 .. 1 - washing : Write("P01", v)
    BY <1>8 DEF Logic
  <2>2. v \in 0 .. 1
    BY DEF SignalInv, TypeOK
  <2>3. wanted' \in [Coils -> 0 .. 1]
    BY <2>1, <2>2 DEF Write, SignalInv, TypeOK
  <2> QED BY <1>8, <2>3 DEF Logic, SignalInv, TypeOK, washVars
<1>9. CASE Tick
  BY <1>9, StepsTyped DEF Tick, SignalInv, TypeOK, ioVars, LastStep
<1>10. CASE Request
  <2>1. PICK v \in 0 .. 1 : queries' = Append(queries, Set(Wash, v))
    BY <1>10 DEF Request
  <2>2. Set(Wash, v) \in Commands
    BY DEF Set, Commands
  <2>3. queries' \in Seq(Commands) /\ (OffIsIn(queries) => OffIsIn(queries'))
    BY <1>0, <2>1, <2>2, AppendProperties, OffStaysInFront
  <2>4. requests' \in 0 .. MaxRequests
    BY <1>10 DEF Request, SignalInv, TypeOK
  <2> QED BY <1>10, <2>3, <2>4 DEF Request, SignalInv, TypeOK, ioVars, washVars
<1>11. CASE Restart
  <2>1. queries' \in Seq(Commands) /\ pending' \in Seq(Commands)
    BY <1>11, ResetTyped, EmptySeq DEF Restart, StartQueries
  <2>2. restarts' \in 0 .. MaxRestarts
    BY <1>11 DEF Restart, SignalInv, TypeOK
  <2>3. actual' \in [Coils -> 0 .. 1] /\ wanted' \in [Coils -> 0 .. 1]
    BY <1>11 DEF Restart, SignalInv, TypeOK
  <2>4. index' \in -1 .. LastStep /\ due' \in 0 .. Len(WashSteps)
    BY <1>11, StepsTyped DEF Restart
  <2>5. known' \subseteq Devices /\ failed' \subseteq Devices
    BY <1>11 DEF Restart
  <2>6. broken' \in BOOLEAN /\ modbus' \in BOOLEAN /\ mishap' \in BOOLEAN
    BY <1>11 DEF Restart, SignalInv, TypeOK
  <2>7. /\ washing' = 0 /\ index' < 0 /\ phase' = "connect"
        /\ requests' \in 0 .. MaxRequests
    BY <1>11 DEF Restart, SignalInv, TypeOK
  <2> QED BY <2>1, <2>2, <2>3, <2>4, <2>5, <2>6, <2>7 DEF SignalInv, TypeOK
<1>12. CASE UNCHANGED vars
  BY <1>12 DEF vars, ioVars, washVars, SignalInv, TypeOK
<1> QED
  BY <1>1, <1>2, <1>3, <1>4, <1>5, <1>6, <1>7, <1>8, <1>9, <1>10, <1>11, <1>12
     DEF Next, PlcThread

(* The variables of the washing sequence keep their types. *)
THEOREM WashTyped == Spec => []TypeOK
<1>1. SignalInv => TypeOK
  BY DEF SignalInv
<1> QED BY <1>1, SignalInit, SignalStep, PTL DEF Spec

(* Whatever requests, aborts and restarts come between the commands of a    *)
(* step, when a round is done with its queries the sequence is under way    *)
(* exactly when FJP.WASHING is set (PlcEngine.java:506-542, 570-592).       *)
THEOREM SequenceFollows == Spec => []SequenceFollowsSignal
<1>1. SignalInv => SequenceFollowsSignal
  <2> SUFFICES ASSUME SignalInv, pending = <<>>, queries = <<>>
               PROVE  washing = 1 <=> index >= 0
    BY DEF SequenceFollowsSignal
  <2>1. ~OffIsIn(queries) /\ ~OffIsIn(pending)
    BY NothingIsInEmpty
  <2> QED BY <2>1 DEF SignalInv, TypeOK
<1> QED BY <1>1, SignalInit, SignalStep, PTL DEF Spec

-----------------------------------------------------------------------------
(* The washing pump and the valves. *)

\* A queue has a command for c; its last one gives c the value v.
Commanded(s, c) == \E i \in DOMAIN s : s[i].signal = c
Last(s, c, v) ==
  \E i \in DOMAIN s : s[i] = Set(c, v) /\ \A j \in DOMAIN s : j > i => s[j].signal # c

\* What the outputs are going to be: devices that are not known yet are read first.
Target == [c \in Coils |-> IF DeviceOf(c) \in known THEN wanted[c] ELSE actual[c]]

\* When all commands that are on their way have been dealt with, c is v.
Goal(c, v) ==
  \/ Last(pending, c, v)
  \/ /\ ~Commanded(pending, c)
     /\ Last(queries, c, v) \/ (~Commanded(queries, c) /\ Target[c] = v)

\* Water can pass with the pumps as in p and the valves as in v.
Open(v) == v["M1"] = 1 /\ v["M3"] = 1 /\ (v["M2"] = 1 \/ v["M4"] = 1)
Passes(p, v) == p["P5"] = 1 => Open(v) /\ p["P01"] = 0

\* What each step of the sequence has made sure of.
Goals ==
  /\ index \notin {3, 4} => Goal("P5", 0)
  /\ index \in {2, 3} => Goal("M1", 1) /\ Goal("M3", 1) /\ Goal("M2", 1)
  /\ index = 4 => Goal("M1", 1) /\ Goal("M3", 1) /\ Goal("M4", 1)

(* Between two rounds of queries the pumps are written first, then the valves: water *)
(* passes with the pumps as they will be and the valves as they still are, and       *)
(* nothing new is wanted before both are written.                                    *)
Outputs ==
  /\ Passes(actual, actual)
  /\ phase \in {"connect", "pumps", "valves"} => Passes(Target, Target) /\ Passes(Target, actual)
  /\ phase = "valves" /\ ~broken =>
       Pumps \in known /\ \A c \in CoilsOf(Pumps) : actual[c] = Target[c]
  /\ phase \in {"wash", "start", "queries"} => known = Devices
  /\ phase = "wash" => \A c \in Coils : actual[c] = wanted[c]
  /\ phase \in {"start", "queries"} /\ index \in {3, 4} => Open(actual)

\* Before the step of a round the commands of the last one are done with.
QueuesLag ==
  phase \in {"connect", "pumps", "valves", "wash"} =>
    /\ pending = <<>>
    /\ index >= 0 => \A i \in DOMAIN queries : queries[i].signal = Wash

PathInv == ~mishap => Goals /\ Outputs /\ QueuesLag

LEMMA LastTail ==
  ASSUME NEW s \in Seq(Commands), s # <<>>, NEW c, NEW v
  PROVE  /\ Commanded(s, c) <=> Head(s).signal = c \/ Commanded(Tail(s), c)
         /\ Last(s, c, v) => \/ Last(Tail(s), c, v)
                             \/ Head(s) = Set(c, v) /\ ~Commanded(Tail(s), c)
         /\ Tail(s) \in Seq(Commands) /\ Head(s) \in Commands
  <1> DEFINE t == Tail(s)
  <1>1. /\ Len(s) \in Nat \ {0} /\ DOMAIN s = 1 .. Len(s) /\ Head(s) = s[1]
        /\ Head(s) \in Commands /\ t \in Seq(Commands)
        /\ DOMAIN t = 1 .. Len(s) - 1
        /\ \A i \in 1 .. Len(s) - 1 : t[i] = s[i + 1]
    BY HeadTailProperties, EmptySeq, LenProperties
  <1>2. \A i \in 2 .. Len(s) : i - 1 \in 1 .. Len(s) - 1 /\ t[i - 1] = s[i]
    BY <1>1
  <1>3. \A i \in 1 .. Len(s) - 1 : i + 1 \in 2 .. Len(s)
    BY <1>1
  <1>4. 1 .. Len(s) = {1} \cup 2 .. Len(s)
    BY <1>1
  <1> HIDE DEF t
  <1>5. Commanded(s, c) <=> Head(s).signal = c \/ Commanded(t, c)
    <2>1. ASSUME Commanded(s, c) PROVE Head(s).signal = c \/ Commanded(t, c)
      <3>1. PICK i \in DOMAIN s : s[i].signal = c
        BY <2>1 DEF Commanded
      <3>2. CASE i = 1
        BY <1>1, <3>1, <3>2
      <3>3. CASE i \in 2 .. Len(s)
        BY <1>1, <1>2, <3>1, <3>3 DEF Commanded
      <3> QED BY <1>1, <1>4, <3>2, <3>3
    <2>2. Head(s).signal = c => Commanded(s, c)
      BY <1>1 DEF Commanded
    <2>3. ASSUME Commanded(t, c) PROVE Commanded(s, c)
      <3>1. PICK i \in DOMAIN t : t[i].signal = c
        BY <2>3 DEF Commanded
      <3>2. i + 1 \in DOMAIN s /\ s[i + 1].signal = c
        BY <1>1, <1>3, <3>1
      <3> QED BY <3>2 DEF Commanded
    <2> QED BY <2>1, <2>2, <2>3
  <1>6. ASSUME Last(s, c, v)
        PROVE  Last(t, c, v) \/ (Head(s) = Set(c, v) /\ ~Commanded(t, c))
    <2>1. PICK i \in DOMAIN s : s[i] = Set(c, v) /\ \A j \in DOMAIN s : j > i => s[j].signal # c
      BY <1>6 DEF Last
    <2>2. CASE i = 1
      <3>1. ASSUME NEW k \in DOMAIN t PROVE t[k].signal # c
        <4>1. k + 1 \in DOMAIN s /\ k + 1 > i /\ t[k] = s[k + 1]
          BY <1>1, <1>3, <2>2, <3>1
        <4> QED BY <2>1, <4>1
      <3> QED BY <1>1, <2>1, <2>2, <3>1 DEF Commanded
    <2>3. CASE i \in 2 .. Len(s)
      <3>1. i - 1 \in DOMAIN t /\ t[i - 1] = Set(c, v)
        BY <1>1, <1>2, <2>1, <2>3
      <3>2. ASSUME NEW k \in DOMAIN t, k > i - 1 PROVE t[k].signal # c
        <4>1. k + 1 \in DOMAIN s /\ k + 1 > i /\ t[k] = s[k + 1]
          BY <1>1, <1>3, <2>3, <3>2
        <4> QED BY <2>1, <4>1
      <3> QED BY <3>1, <3>2 DEF Last
    <2> QED BY <1>1, <1>4, <2>1, <2>2, <2>3
  <1> QED BY <1>1, <1>5, <1>6 DEF t

LEMMA LastAppend ==
  ASSUME NEW s \in Seq(Commands), NEW m \in Commands, NEW c, NEW v
  PROVE  /\ Commanded(Append(s, m), c) <=> Commanded(s, c) \/ m.signal = c
         /\ Last(s, c, v) /\ m.signal # c => Last(Append(s, m), c, v)
         /\ m = Set(c, v) => Last(Append(s, m), c, v)
         /\ Append(s, m) \in Seq(Commands)
  <1> DEFINE t == Append(s, m)
  <1>1. /\ Len(s) \in Nat /\ DOMAIN s = 1 .. Len(s) /\ t \in Seq(Commands)
        /\ DOMAIN t = 1 .. Len(s) + 1
        /\ \A i \in 1 .. Len(s) : t[i] = s[i]
        /\ t[Len(s) + 1] = m
    BY AppendProperties, LenProperties
  <1>2. 1 .. Len(s) + 1 = (1 .. Len(s)) \cup {Len(s) + 1}
    BY <1>1
  <1> HIDE DEF t
  <1>3. Commanded(t, c) <=> Commanded(s, c) \/ m.signal = c
    BY <1>1, <1>2 DEF Commanded
  <1>4. Last(s, c, v) /\ m.signal # c => Last(t, c, v)
    BY <1>1, <1>2 DEF Last
  <1>5. m = Set(c, v) => Last(t, c, v)
    BY <1>1 DEF Last
  <1> QED BY <1>1, <1>3, <1>4, <1>5 DEF t

LEMMA LastEmpty ==
  ASSUME NEW c, NEW v
  PROVE  ~Commanded(<<>>, c) /\ ~Last(<<>>, c, v)
  BY DEF Commanded, Last

\* What the steps and the reset command.
LEMMA StepsCommand ==
  /\ \A c \in Coils : Commanded(WashSteps[1], c) => c = "P01"
  /\ Last(WashSteps[2], "M1", 1) /\ Last(WashSteps[2], "M3", 1) /\ Last(WashSteps[2], "M2", 1)
  /\ ~Commanded(WashSteps[2], "P5")
  /\ \A c \in Coils : Commanded(WashSteps[3], c) => c = "P5"
  /\ ~Commanded(WashSteps[4], "M1") /\ ~Commanded(WashSteps[4], "M3")
  /\ Last(WashSteps[4], "M4", 1)
  /\ Last(WashSteps[5], "P5", 0)
  /\ ~Commanded(WashSteps[6], "P5")
  <1> USE DEF Set, Commanded, Last
  <1>1. \A c \in Coils : Commanded(WashSteps[1], c) => c = "P01"
    <2>1. WashSteps[1] = <<Set("P01", 0)>>
      BY DEF WashSteps
    <2> QED BY <2>1
  <1>2. /\ Last(WashSteps[2], "M1", 1) /\ Last(WashSteps[2], "M3", 1)
        /\ Last(WashSteps[2], "M2", 1) /\ ~Commanded(WashSteps[2], "P5")
    <2>1. WashSteps[2] = <<Set("M1", 1), Set("M3", 1), Set("M2", 1), Set("M4", 0)>>
      BY DEF WashSteps
    <2> DEFINE s == WashSteps[2]
    <2>2. /\ DOMAIN s = 1 .. 4 /\ s[1] = Set("M1", 1) /\ s[2] = Set("M3", 1)
          /\ s[3] = Set("M2", 1) /\ s[4] = Set("M4", 0)
      BY <2>1
    <2>3. 1 .. 4 = {1, 2, 3, 4}
      OBVIOUS
    <2> HIDE DEF s
    <2>4. Last(s, "M1", 1) /\ Last(s, "M3", 1) /\ Last(s, "M2", 1) /\ ~Commanded(s, "P5")
      BY <2>2, <2>3
    <2> QED BY <2>4 DEF s
  <1>3. \A c \in Coils : Commanded(WashSteps[3], c) => c = "P5"
    <2>1. WashSteps[3] = <<Set("P5", 1)>>
      BY DEF WashSteps
    <2> QED BY <2>1
  <1>4. /\ ~Commanded(WashSteps[4], "M1") /\ ~Commanded(WashSteps[4], "M3")
        /\ Last(WashSteps[4], "M4", 1)
    <2>1. WashSteps[4] = <<Set("M2", 0), Set("M4", 1)>>
      BY DEF WashSteps
    <2> QED BY <2>1
  <1>5. Last(WashSteps[5], "P5", 0)
    <2>1. WashSteps[5] = <<Set("P5", 0), Set("M4", 0)>>
      BY DEF WashSteps
    <2> QED BY <2>1
  <1>6. ~Commanded(WashSteps[6], "P5")
    <2>1. WashSteps[6] = <<Set("M1", 1), Set("M3", 1)>>
      BY DEF WashSteps
    <2> QED BY <2>1
  <1> QED BY <1>1, <1>2, <1>3, <1>4, <1>5, <1>6

LEMMA ResetCommands == Last(WashReset, "P5", 0) /\ Last(WashSteps[7] \o WashReset, "P5", 0)
  <1>1. /\ DOMAIN WashReset = 1 .. 6
        /\ WashReset[1] = Set("P5", 0) /\ WashReset[2] = Set("M1", 0)
        /\ WashReset[3] = Set("M2", 0) /\ WashReset[4] = Set("M3", 0)
        /\ WashReset[5] = Set("M4", 0) /\ WashReset[6] = Set(Wash, 0)
    BY DEF WashReset
  <1>2. 1 .. 6 = {1, 2, 3, 4, 5, 6}
    OBVIOUS
  <1>3. \A j \in 1 .. 6 : j > 1 => WashReset[j].signal # "P5"
    BY <1>1, <1>2 DEF Set, Wash
  <1>4. Last(WashReset, "P5", 0)
    BY <1>1, <1>3 DEF Last
  <1> DEFINE s == WashSteps[7]
             r == WashReset
             t == s \o r
  <1>5. s \in Seq(Commands) /\ Len(s) = 1
    BY DEF WashSteps, Set, Commands
  <1>6. r \in Seq(Commands) /\ Len(r) = 6
    BY ResetTyped DEF WashReset
  <1> HIDE DEF s, r
  <1>7. /\ t \in Seq(Commands) /\ Len(t) = 7
        /\ \A i \in 1 .. 7 : t[i] = IF i <= 1 THEN s[i] ELSE r[i - 1]
    <2>1. /\ t \in Seq(Commands) /\ Len(t) = Len(s) + Len(r)
          /\ \A i \in 1 .. Len(s) + Len(r) : t[i] = IF i <= Len(s) THEN s[i] ELSE r[i - Len(s)]
      BY <1>5, <1>6, ConcatProperties
    <2> QED BY <1>5, <1>6, <2>1
  <1>8. r[1] = Set("P5", 0) /\ \A i \in 2 .. 6 : r[i].signal # "P5"
    BY <1>1, <1>3 DEF r
  <1> HIDE DEF t
  <1>9. DOMAIN t = 1 .. 7 /\ t[2] = Set("P5", 0) /\ \A j \in DOMAIN t : j > 2 => t[j].signal # "P5"
    <2>1. DOMAIN t = 1 .. 7 /\ t[2] = Set("P5", 0)
      BY <1>7, <1>8
    <2>2. ASSUME NEW j \in 1 .. 7, j > 2 PROVE t[j].signal # "P5"
      <3>1. j - 1 \in 2 .. 6 /\ t[j] = r[j - 1]
        BY <1>7, <2>2
      <3> QED BY <1>8, <3>1
    <2> QED BY <2>1, <2>2
  <1>10. Last(t, "P5", 0)
    BY <1>9 DEF Last
  <1> QED BY <1>4, <1>10 DEF s, r, t

LEMMA CoilFacts ==
  /\ \A c \in {"P01", "P5"} : c \in Coils /\ c \in CoilsOf(Pumps) /\ c \notin CoilsOf(Valves)
                              /\ DeviceOf(c) = Pumps
  /\ \A c \in {"M1", "M2", "M3", "M4"} :
       c \in Coils /\ c \in CoilsOf(Valves) /\ c \notin CoilsOf(Pumps) /\ DeviceOf(c) = Valves
  /\ \A c \in Coils : c # Wash /\ (c \in CoilsOf(Pumps) \/ c \in CoilsOf(Valves))
  /\ \A c \in Coils : \A d \in Devices : c \in CoilsOf(d) <=> DeviceOf(c) = d
  /\ Pumps # Valves /\ Devices = {Pumps, Valves}
  BY DEF CoilsOf, Coils, DeviceOf, Pumps, Valves, Devices, Wash

\* A device that answers gets what is wanted of it; what is not known yet stays.
LEMMA Synchronised ==
  ASSUME SignalInv, NEW d \in Devices, SyncOk(d)
  PROVE  /\ known' = known \cup {d} /\ ~broken /\ broken' = broken
         /\ \A c \in Coils : Target'[c] = Target[c]
         /\ \A c \in Coils : actual'[c] = IF c \in CoilsOf(d) THEN Target[c] ELSE actual[c]
  <1>1. actual \in [Coils -> 0 .. 1] /\ wanted \in [Coils -> 0 .. 1]
    BY DEF SignalInv, TypeOK
  <1>2. known' = known \cup {d} /\ ~broken /\ broken' = broken
    BY DEF SyncOk
  <1>3. CASE d \in known
    <2>1. known' = known /\ wanted' = wanted
          /\ actual' = [c \in Coils |-> IF c \in CoilsOf(d) THEN wanted[c] ELSE actual[c]]
      BY <1>2, <1>3 DEF SyncOk
    <2> QED BY <1>2, <1>3, <2>1, CoilFacts DEF Target
  <1>4. CASE d \notin known
    <2>1. /\ actual' = actual
          /\ wanted' = [c \in Coils |-> IF c \in CoilsOf(d) THEN actual[c] ELSE wanted[c]]
      BY <1>4 DEF SyncOk
    <2> QED BY <1>2, <1>4, <2>1, CoilFacts DEF Target
  <1> QED BY <1>3, <1>4

LEMMA NotSynchronised ==
  ASSUME SignalInv, NEW d \in Devices, SyncFails(d), ~mishap'
  PROVE  /\ known' = known /\ broken'
         /\ \A c \in Coils : Target'[c] = Target[c]
         /\ \/ actual' = actual
            \/ /\ ~broken
               /\ \A c \in Coils : actual'[c] = IF c \in CoilsOf(d) THEN Target[c] ELSE actual[c]
  <1>1. actual \in [Coils -> 0 .. 1] /\ wanted \in [Coils -> 0 .. 1]
    BY DEF SignalInv, TypeOK
  <1>2. known' = known /\ wanted' = wanted /\ broken'
    BY DEF SyncFails
  <1>3. CASE actual' = actual
    BY <1>2, <1>3 DEF Target
  <1>4. CASE /\ d \in known /\ ~broken
             /\ actual' = [c \in Coils |-> IF c \in CoilsOf(d) THEN wanted[c] ELSE actual[c]]
    BY <1>1, <1>2, <1>4, CoilFacts DEF Target
  <1> QED BY <1>2, <1>3, <1>4 DEF SyncFails

\* A goal stays one while commands are moved to the queue ...
LEMMA GoalMoves ==
  ASSUME SignalInv, NEW c, NEW v, Goal(c, v), AddPending
  PROVE  Goal(c, v)'
  <1>1. /\ queries \in Seq(Commands) /\ pending \in Seq(Commands)
        /\ pending # <<>> /\ queries' = Append(queries, Head(pending)) /\ pending' = Tail(pending)
        /\ UNCHANGED <<actual, wanted, known>>
    BY DEF AddPending, ioVars, SignalInv, TypeOK
  <1>2. Target' = Target
    BY <1>1 DEF Target
  <1> DEFINE m == Head(pending)
  <1>3. /\ Commanded(pending, c) <=> m.signal = c \/ Commanded(pending', c)
        /\ Last(pending, c, v) => Last(pending', c, v) \/ (m = Set(c, v) /\ ~Commanded(pending', c))
        /\ m \in Commands
    BY <1>1, LastTail
  <1> HIDE DEF m
  <1>4. /\ Commanded(queries', c) <=> Commanded(queries, c) \/ m.signal = c
        /\ Last(queries, c, v) /\ m.signal # c => Last(queries', c, v)
        /\ m = Set(c, v) => Last(queries', c, v)
    BY <1>1, <1>3, LastAppend DEF m
  <1> QED BY <1>2, <1>3, <1>4 DEF Goal

\* ... and while commands are dealt with.
LEMMA GoalReached ==
  ASSUME SignalInv, NEW c \in Coils, NEW v, Goal(c, v),
         pending = <<>>, queries # <<>>, queries' = Tail(queries),
         ~Commanded(pending', c), UNCHANGED <<actual, known>>, known = Devices,
         wanted' = IF Head(queries).signal = Wash THEN wanted
                   ELSE [wanted EXCEPT ![Head(queries).signal] = Head(queries).value]
  PROVE  Goal(c, v)'
  <1> DEFINE m == Head(queries)
  <1>1. queries \in Seq(Commands) /\ wanted \in [Coils -> 0 .. 1]
    BY DEF SignalInv, TypeOK
  <1>2. /\ Commanded(queries, c) <=> m.signal = c \/ Commanded(queries', c)
        /\ Last(queries, c, v) => Last(queries', c, v) \/ (m = Set(c, v) /\ ~Commanded(queries', c))
        /\ m \in Commands
    BY <1>1, LastTail
  <1>3. Target[c] = wanted[c] /\ Target'[c] = wanted'[c]
    BY CoilFacts DEF Target
  <1>4. c # Wash
    BY CoilFacts
  <1> HIDE DEF m
  <1>5. m.signal # c => wanted'[c] = wanted[c]
    BY <1>1, <1>2, <1>4 DEF m, Commands
  <1>6. m = Set(c, v) => wanted'[c] = v
    BY <1>1, <1>2, <1>4 DEF m, Set
  <1>7. Last(queries, c, v) \/ (~Commanded(queries, c) /\ Target[c] = v)
    BY LastEmpty DEF Goal
  <1>8. Last(queries', c, v) \/ (~Commanded(queries', c) /\ Target'[c] = v)
    BY <1>2, <1>3, <1>5, <1>6, <1>7
  <1> QED BY <1>8 DEF Goal

\* When nothing is on its way the goals are reached.
LEMMA GoalThere ==
  ASSUME NEW c \in Coils, NEW v, pending = <<>>, known = Devices,
         \A i \in DOMAIN queries : queries[i].signal = Wash, Goal(c, v)
  PROVE  wanted[c] = v
  <1>1. ~Last(pending, c, v)
    BY LastEmpty
  <1>2. ~Last(queries, c, v)
    BY CoilFacts DEF Last, Set
  <1> QED BY <1>1, <1>2, CoilFacts DEF Goal, Target

LEMMA PathInit == Init => PathInv
  <1> SUFFICES ASSUME Init PROVE PathInv
    OBVIOUS
  <1>1. /\ actual = [c \in Coils |-> 0] /\ known = {} /\ index = -1 /\ phase = "connect"
        /\ queries = WashReset /\ pending = <<>>
    BY DEF Init, StartQueries
  <1>2. Goal("P5", 0)
    BY <1>1, ResetCommands, LastEmpty DEF Goal
  <1>3. actual["P5"] = 0 /\ Target["P5"] = 0
    BY <1>1, CoilFacts DEF Target
  <1> QED BY <1>1, <1>2, <1>3 DEF PathInv, Goals, Outputs, QueuesLag, Passes

LEMMA PathStep == SignalInv /\ PathInv /\ [Next]_vars => PathInv'
  <1> SUFFICES ASSUME SignalInv, PathInv, [Next]_vars, ~mishap'
               PROVE  Goals' /\ Outputs' /\ QueuesLag'
    BY DEF PathInv
  <1>1. /\ actual \in [Coils -> 0 .. 1] /\ wanted \in [Coils -> 0 .. 1]
        /\ queries \in Seq(Commands) /\ pending \in Seq(Commands)
        /\ index \in -1 .. 6 /\ washing \in 0 .. 1
        /\ phase \in {"connect", "pumps", "valves", "wash", "start", "queries"}
    BY StepsTyped DEF SignalInv, TypeOK
  <1>2. ~mishap
    BY DEF Next, PlcThread, Connect, SyncPumps, SyncValves, SyncOk, SyncFails, WashStep, AutoStart,
           AddPending, Poll, Logic, Tick, Request, Restart, vars, ioVars
  <1>3. Goals /\ Outputs /\ QueuesLag
    BY <1>2 DEF PathInv
  <1>4. ASSUME index' = index, \A c \in Coils : \A v \in 0 .. 1 : Goal(c, v) => Goal(c, v)'
        PROVE  Goals'
    BY <1>3, <1>4, CoilFacts DEF Goals
  <1>5. ASSUME UNCHANGED <<index, queries, pending>>, \A c \in Coils : Target'[c] = Target[c]
        PROVE  Goals'
    <2>1. \A c \in Coils : \A v \in 0 .. 1 : Goal(c, v) => Goal(c, v)'
      BY <1>5 DEF Goal
    <2> QED BY <1>4, <1>5, <2>1
  <1>6. ASSUME UNCHANGED <<index, queries, pending, actual, wanted, known, broken, phase>>
        PROVE  Goals' /\ Outputs' /\ QueuesLag'
    <2>1. Target' = Target
      BY <1>6 DEF Target
    <2>2. Outputs' /\ QueuesLag'
      BY <1>3, <1>6, <2>1 DEF Outputs, QueuesLag
    <2> QED BY <1>5, <1>6, <2>1, <2>2
  <1>7. CASE UNCHANGED vars
    BY <1>6, <1>7 DEF vars, ioVars, washVars
  <1>8. CASE Tick
    BY <1>6, <1>8 DEF Tick, ioVars
  <1>9. CASE Connect
    <2>1. /\ phase = "connect" /\ phase' = "pumps"
          /\ UNCHANGED <<index, queries, pending, actual, wanted, known>>
      BY <1>9 DEF Connect, washVars
    <2>2. Target' = Target
      BY <2>1 DEF Target
    <2>3. Outputs' /\ QueuesLag'
      BY <1>3, <2>1, <2>2 DEF Outputs, QueuesLag
    <2> QED BY <1>5, <2>1, <2>2, <2>3
  <1>10. CASE SyncPumps
    <2>1. /\ phase = "pumps" /\ phase' = "valves" /\ UNCHANGED <<index, queries, pending>>
          /\ SyncOk(Pumps) \/ SyncFails(Pumps)
      BY <1>10 DEF SyncPumps, washVars
    <2>2. QueuesLag'
      BY <1>3, <2>1 DEF QueuesLag
    <2>3. /\ Passes(actual, actual) /\ Passes(Target, Target) /\ Passes(Target, actual)
      BY <1>3, <2>1 DEF Outputs
    <2>4. /\ \A c \in Coils : Target'[c] = Target[c]
          /\ \/ actual' = actual
             \/ \A c \in Coils : actual'[c] = IF c \in CoilsOf(Pumps) THEN Target[c] ELSE actual[c]
          /\ ~broken' => /\ Pumps \in known'
                         /\ \A c \in CoilsOf(Pumps) : actual'[c] = Target'[c]
      <3>1. CASE SyncOk(Pumps)
        BY <3>1, Synchronised, CoilFacts DEF Coils
      <3>2. CASE SyncFails(Pumps)
        BY <3>2, NotSynchronised, CoilFacts
      <3> QED BY <2>1, <3>1, <3>2
    <2>5. Passes(actual', actual') /\ Passes(Target', Target') /\ Passes(Target', actual')
      BY <2>3, <2>4, CoilFacts DEF Passes, Open
    <2>6. Outputs'
      BY <2>1, <2>4, <2>5 DEF Outputs
    <2> QED BY <1>5, <2>1, <2>2, <2>4, <2>6
  <1>11. CASE SyncValves
    <2>1. /\ phase = "valves" /\ UNCHANGED <<index, queries, pending>>
          /\ SyncOk(Valves) \/ SyncFails(Valves)
          /\ phase' \in {"connect", "wash"} /\ (broken' => phase' = "connect")
      BY <1>11 DEF SyncValves, washVars
    <2>2. QueuesLag'
      BY <1>3, <2>1 DEF QueuesLag
    <2>3. /\ Passes(actual, actual) /\ Passes(Target, Target) /\ Passes(Target, actual)
          /\ ~broken => Pumps \in known /\ \A c \in CoilsOf(Pumps) : actual[c] = Target[c]
      BY <1>3, <2>1 DEF Outputs
    <2>4. /\ \A c \in Coils : Target'[c] = Target[c]
          /\ (actual' = actual /\ broken') \/ \A c \in Coils : actual'[c] = Target[c]
          /\ ~broken' => known' = Devices /\ \A c \in Coils : actual'[c] = wanted'[c]
      <3>1. CASE SyncOk(Valves)
        <4>1. /\ known' = known \cup {Valves} /\ ~broken /\ broken' = broken
              /\ \A c \in Coils : Target'[c] = Target[c]
              /\ \A c \in Coils : actual'[c] = IF c \in CoilsOf(Valves) THEN Target[c] ELSE actual[c]
          BY <3>1, Synchronised, CoilFacts
        <4>2. known' = Devices
          BY <2>3, <4>1, CoilFacts DEF SignalInv, TypeOK
        <4>3. \A c \in Coils : actual'[c] = Target[c]
          BY <2>3, <4>1, CoilFacts
        <4>4. \A c \in Coils : Target'[c] = wanted'[c]
          BY <4>2, CoilFacts DEF Target
        <4> QED BY <4>1, <4>2, <4>3, <4>4
      <3>2. CASE SyncFails(Valves)
        <4>1. /\ known' = known /\ broken'
              /\ \A c \in Coils : Target'[c] = Target[c]
              /\ \/ actual' = actual
                 \/ /\ ~broken
                    /\ \A c \in Coils : actual'[c] = IF c \in CoilsOf(Valves) THEN Target[c] ELSE actual[c]
          BY <3>2, NotSynchronised, CoilFacts
        <4> QED BY <2>3, <4>1, CoilFacts
      <3> QED BY <2>1, <3>1, <3>2
    <2>5. Passes(actual', actual') /\ Passes(Target', Target') /\ Passes(Target', actual')
      BY <2>3, <2>4, CoilFacts DEF Passes, Open
    <2>6. Outputs'
      BY <2>1, <2>4, <2>5 DEF Outputs
    <2> QED BY <1>5, <2>1, <2>2, <2>4, <2>6
  <1>12. CASE WashStep
    <2>1. /\ phase = "wash" /\ phase' = "start" /\ pending = <<>> /\ NextStep
          /\ UNCHANGED <<actual, wanted, known, queries>>
      BY <1>12 DEF WashStep, ioVars
    <2>2. Target' = Target
      BY <2>1 DEF Target
    <2>3. /\ known = Devices /\ Passes(actual, actual) /\ \A c \in Coils : actual[c] = wanted[c]
      BY <1>3, <2>1 DEF Outputs
    <2>4. index >= 0 => \A i \in DOMAIN queries : queries[i].signal = Wash
      BY <1>3, <2>1 DEF QueuesLag
    <2>5. index \in {2, 3, 4} => Open(actual)
      <3> SUFFICES ASSUME index \in {2, 3, 4} PROVE Open(actual)
        OBVIOUS
      <3>1. \A c \in Coils : \A v : Goal(c, v) => actual[c] = v
        BY <2>1, <2>3, <2>4, GoalThere
      <3> QED BY <1>3, <3>1, CoilFacts DEF Goals, Open
    <2>6. \A c, v : Goal(c, v) => ~Last(<<>>, c, v)
      BY LastEmpty
    <2>7. \A c, v : Last(pending', c, v) => Goal(c, v)'
      BY DEF Goal
    <2>8. \A c, v : Goal(c, v) /\ ~Commanded(pending', c) => Goal(c, v)'
      BY <2>1, <2>2, LastEmpty DEF Goal
    <2>9. QueuesLag'
      BY <2>1 DEF QueuesLag
    <2>10. CASE index >= 0 /\ Due(index)
      <3>1. /\ pending' = WashSteps[index + 1] \o (IF index = 6 THEN WashReset ELSE <<>>)
            /\ index' = IF index = 6 THEN -1 ELSE index + 1
        BY <2>1, <2>10, StepsTyped DEF NextStep
      <3>2. index # 6 => pending' = WashSteps[index + 1]
        <4>1. index \in 0 .. 6 => WashSteps[index + 1] \in Seq(Commands)
          BY StepsTyped
        <4> QED BY <1>1, <2>10, <3>1, <4>1, ConcatProperties
      <3>3. Goals'
        <4>1. CASE index = 0
          BY <1>3, <2>7, <2>8, <3>1, <3>2, <4>1, StepsCommand, CoilFacts DEF Goals
        <4>2. CASE index = 1
          BY <1>3, <2>7, <2>8, <3>1, <3>2, <4>2, StepsCommand, CoilFacts DEF Goals
        <4>3. CASE index = 2
          BY <1>3, <2>7, <2>8, <3>1, <3>2, <4>3, StepsCommand, CoilFacts DEF Goals
        <4>4. CASE index = 3
          BY <1>3, <2>7, <2>8, <3>1, <3>2, <4>4, StepsCommand, CoilFacts DEF Goals
        <4>5. CASE index = 4
          BY <1>3, <2>7, <2>8, <3>1, <3>2, <4>5, StepsCommand, CoilFacts DEF Goals
        <4>6. CASE index = 5
          BY <1>3, <2>7, <2>8, <3>1, <3>2, <4>6, StepsCommand, CoilFacts DEF Goals
        <4>7. CASE index = 6
          BY <2>7, <3>1, <4>7, ResetCommands DEF Goals
        <4> QED BY <1>1, <2>10, <4>1, <4>2, <4>3, <4>4, <4>5, <4>6, <4>7
      <3>4. index' \in {3, 4} => index \in {2, 3, 4}
        BY <1>1, <3>1
      <3>5. Outputs'
        BY <2>1, <2>3, <2>5, <3>4 DEF Outputs
      <3> QED BY <2>9, <3>3, <3>5
    <2>11. CASE ~(index >= 0 /\ Due(index))
      <3>1. UNCHANGED <<pending, index>>
        BY <2>1, <2>11 DEF NextStep
      <3>2. Outputs'
        BY <2>1, <2>3, <2>5, <3>1 DEF Outputs
      <3> QED BY <1>5, <2>1, <2>2, <2>9, <3>1, <3>2
    <2> QED BY <2>10, <2>11
  <1>13. CASE AutoStart
    <2>1. /\ phase = "start" /\ phase' = "queries" /\ pending = <<>>
          /\ pending' \in {<<>>, <<Set(Wash, 1)>>}
          /\ UNCHANGED <<actual, wanted, known, queries, index>>
      BY <1>13 DEF AutoStart, ioVars, washVars
    <2>2. \A c \in Coils : ~Commanded(pending', c)
      BY <2>1, LastEmpty, CoilFacts DEF Commanded, Set
    <2>3. Target' = Target
      BY <2>1 DEF Target
    <2>4. \A c \in Coils : \A v \in 0 .. 1 : Goal(c, v) => Goal(c, v)'
      BY <2>1, <2>2, <2>3, LastEmpty DEF Goal
    <2>5. Outputs' /\ QueuesLag'
      BY <1>3, <2>1 DEF Outputs, QueuesLag
    <2> QED BY <1>4, <2>1, <2>4, <2>5
  <1>14. CASE AddPending
    <2>1. pending # <<>> /\ UNCHANGED <<actual, wanted, known, broken, phase, index>>
      BY <1>14 DEF AddPending, ioVars, washVars
    <2>2. Target' = Target
      BY <2>1 DEF Target
    <2>3. \A c \in Coils : \A v \in 0 .. 1 : Goal(c, v) => Goal(c, v)'
      BY <1>14, GoalMoves
    <2>4. Outputs' /\ QueuesLag'
      BY <1>3, <2>1, <2>2 DEF Outputs, QueuesLag
    <2> QED BY <1>4, <2>1, <2>3, <2>4
  <1>15. CASE Poll
    <2> DEFINE q == Head(queries)
    <2>1. /\ phase = "queries" /\ pending = <<>> /\ queries # <<>> /\ queries' = Tail(queries)
          /\ UNCHANGED <<actual, known, broken, phase>>
          /\ IF q.signal = Wash THEN SetWash(q)
             ELSE Write(q.signal, q.value) /\ UNCHANGED <<washVars, pending>>
      BY <1>15 DEF Poll
    <2>2. known = Devices /\ Passes(actual, actual) /\ (index \in {3, 4} => Open(actual))
      BY <1>3, <2>1 DEF Outputs
    <2>3. q \in Commands
      BY <1>1, <2>1, LastTail
    <2>4. wanted' = IF q.signal = Wash THEN wanted ELSE [wanted EXCEPT ![q.signal] = q.value]
      <3>1. CASE q.signal = Wash
        BY <2>1, <3>1 DEF SetWash
      <3>2. CASE q.signal # Wash
        <4>1. q.signal \in Coils
          BY <2>3, <3>2 DEF Commands
        <4> HIDE DEF q
        <4>2. DeviceOf(q.signal) \in known
          BY <2>2, <4>1, CoilFacts
        <4> QED BY <2>1, <3>2, <4>2 DEF Write
      <3> QED BY <3>1, <3>2
    <2>5. ASSUME NEW c \in Coils, NEW v \in 0 .. 1, Goal(c, v), ~Commanded(pending', c)
          PROVE  Goal(c, v)'
      BY <2>1, <2>2, <2>4, <2>5, GoalReached
    <2>6. QueuesLag'
      BY <2>1 DEF QueuesLag
    <2> HIDE DEF q
    <2>7. CASE q.signal = Wash /\ Stops(q)
      <3>1. index' = -1 /\ pending' = WashReset
        <4>1. ~Starts(q)
          BY <1>1, <2>7 DEF Starts, Stops
        <4> QED BY <2>1, <2>7, <4>1 DEF SetWash
      <3>2. Goal("P5", 0)'
        BY <3>1, ResetCommands DEF Goal
      <3>3. Goals' /\ Outputs'
        BY <2>1, <2>2, <3>1, <3>2 DEF Goals, Outputs
      <3> QED BY <2>6, <3>3
    <2>8. CASE ~(q.signal = Wash /\ Stops(q))
      <3>1. /\ pending' = <<>>
            /\ index' = index \/ (index' = 0 /\ index < 0)
        BY <2>1, <2>8 DEF SetWash, Starts, washVars
      <3>2. \A c \in Coils : \A v \in 0 .. 1 : Goal(c, v) => Goal(c, v)'
        BY <2>5, <3>1, LastEmpty
      <3>3. Outputs'
        BY <2>1, <2>2, <3>1 DEF Outputs
      <3>4. Goals'
        BY <1>1, <1>3, <3>1, <3>2, CoilFacts DEF Goals
      <3> QED BY <2>6, <3>3, <3>4
    <2> QED BY <2>7, <2>8
  <1>16. CASE Logic
    <2>1. /\ phase = "queries" /\ phase' = "connect" /\ pending = <<>> /\ queries = <<>>
          /\ UNCHANGED <<actual, known, index, queries, pending>>
      BY <1>16 DEF Logic, washVars
    <2>2. known = Devices /\ Passes(actual, actual) /\ (index \in {3, 4} => Open(actual))
      BY <1>3, <2>1 DEF Outputs
    <2>3. PICK v \in 0 .. 1 - washing : wanted' = [wanted EXCEPT !["P01"] = v]
      BY <1>16, <2>2, CoilFacts DEF Logic, Write
    <2>4. /\ \A c \in Coils : c # "P01" => wanted'[c] = wanted[c]
          /\ wanted'["P01"] = v
      BY <1>1, <2>3, CoilFacts
    <2>5. \A c \in Coils : Target[c] = wanted[c] /\ Target'[c] = wanted'[c]
      BY <2>1, <2>2, CoilFacts DEF Target
    <2>6. \A c \in Coils : \A w : Goal(c, w) <=> wanted[c] = w
      BY <2>1, <2>5, LastEmpty DEF Goal
    <2>7. \A c \in Coils : \A w : c # "P01" => (Goal(c, w)' <=> wanted'[c] = w)
      BY <2>1, <2>5, LastEmpty DEF Goal
    <2>8. Goals'
      BY <1>3, <2>1, <2>4, <2>6, <2>7, CoilFacts DEF Goals
    <2>9. wanted["P5"] = 1 => index \in {3, 4} /\ Open(wanted)
      BY <1>3, <2>6, CoilFacts DEF Goals, Open
    <2>10. index \in {3, 4} => v = 0
      <3>1. ~OffIsIn(queries) /\ ~OffIsIn(pending)
        BY <2>1, NothingIsInEmpty
      <3>2. index >= 0 => washing = 1
        BY DEF SignalInv
      <3> QED BY <1>1, <2>3, <3>2
    <2>11. Passes(Target', Target') /\ Passes(Target', actual')
      BY <2>1, <2>2, <2>4, <2>5, <2>9, <2>10, CoilFacts DEF Passes, Open
    <2>12. Outputs' /\ QueuesLag'
      BY <2>1, <2>2, <2>11 DEF Outputs, QueuesLag
    <2> QED BY <2>8, <2>12
  <1>17. CASE Request
    <2>1. UNCHANGED <<actual, wanted, known, broken, phase, index, pending>>
      BY <1>17 DEF Request, ioVars, washVars
    <2>2. PICK v \in 0 .. 1 : queries' = Append(queries, Set(Wash, v))
      BY <1>17 DEF Request
    <2>3. Set(Wash, v) \in Commands /\ Set(Wash, v).signal = Wash
      BY DEF Set, Commands
    <2>4. Target' = Target
      BY <2>1 DEF Target
    <2>5. \A c \in Coils : \A w : /\ Commanded(queries', c) <=> Commanded(queries, c)
                                  /\ Last(queries, c, w) => Last(queries', c, w)
      BY <1>1, <2>2, <2>3, LastAppend, CoilFacts
    <2>6. \A c \in Coils : \A w \in 0 .. 1 : Goal(c, w) => Goal(c, w)'
      BY <2>1, <2>4, <2>5 DEF Goal
    <2>7. (\A i \in DOMAIN queries : queries[i].signal = Wash)
            => \A i \in DOMAIN queries' : queries'[i].signal = Wash
      BY <1>1, <2>2, <2>3, AppendProperties
    <2>8. Outputs' /\ QueuesLag'
      BY <1>3, <2>1, <2>4, <2>7 DEF Outputs, QueuesLag
    <2> QED BY <1>4, <2>1, <2>6, <2>8
  <1>18. CASE Restart
    <2>1. /\ UNCHANGED actual /\ known' = {} /\ index' = -1 /\ phase' = "connect"
          /\ queries' = WashReset /\ pending' = <<>>
      BY <1>18 DEF Restart, StartQueries
    <2>2. Goal("P5", 0)'
      BY <2>1, ResetCommands, LastEmpty DEF Goal
    <2>3. Goals' /\ QueuesLag'
      BY <2>1, <2>2 DEF Goals, QueuesLag
    <2>4. \A c \in Coils : Target'[c] = actual[c]
      BY <2>1 DEF Target
    <2>5. Passes(actual, actual)
      BY <1>3 DEF Outputs
    <2>6. Passes(Target', Target') /\ Passes(Target', actual') /\ Passes(actual', actual')
      BY <2>1, <2>4, <2>5, CoilFacts DEF Passes, Open
    <2>7. Outputs'
      BY <2>1, <2>6 DEF Outputs
    <2> QED BY <2>3, <2>7
  <1> QED
    BY <1>7, <1>8, <1>9, <1>10, <1>11, <1>12, <1>13, <1>14, <1>15, <1>16, <1>17, <1>18
    DEF Next, PlcThread

(* Unless a device fails alone, the washing pump never runs against closed valves or *)
(* beside the well pump, whatever is requested, in whatever round the engine or the  *)
(* connection stops (PlcEngine.java:66-139, 386-416, 506-592).                       *)
THEOREM PumpNeverBlocked == Spec => []PumpHasPath
  <1>1. PathInv => PumpHasPath
    BY DEF PathInv, Outputs, Passes, Open, PumpHasPath
  <1> QED BY <1>1, SignalInit, SignalStep, PathInit, PathStep, PTL DEF Spec
=============================================================================
