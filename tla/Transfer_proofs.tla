--------------------------- MODULE Transfer_proofs ---------------------------
(***************************************************************************)
(* For every command line, number of bytes and size of the buffer: the     *)
(* transfer loop of socat passes an EOF on after the data, and leaves      *)
(* nothing behind when it ends.                                            *)
(***************************************************************************)
EXTENDS Transfer, TLAPS

\* No more bytes come from a side, except over the channel of a dead child.
Silent(s) == finished[s] \/ (setup.child[s] /\ ~pid[s])

\* The ends of a side that leave bytes unread by intention, and files, which grow.
CutOff(s) == AtCount(s) \/ actescape[s] \/ reset[s] \/ setup.kind[s] = "file"

\* What the peer or the child itself sent has been read.
Caught(s) == taken[s] >= owed[s]

Drained(s) == CutOff(s) \/ (Silent(s) /\ Caught(s))

(* What the loop takes for an EOF is one: a side is only seen as readable  *)
(* when there is something to read or its end, and is only marked with an  *)
(* EOF when it is drained.                                                 *)
EofInv ==
  /\ TypeOK
  /\ \A s \in Sides : mayrd[s] => Unread(s) > 0 \/ Silent(s) \/ CutOff(s)
  /\ \A s \in Sides : eof[s] = 2 \/ bytes[s] = 0 => Drained(s)
-----------------------------------------------------------------------------
LEMMA SetupTyped ==
  ASSUME TypeOK, NEW s \in Sides
  PROVE  /\ setup.readbytes[s] \in Nat /\ setup.escape[s] \in Nat
         /\ setup.child[s] \in BOOLEAN
         /\ Other(s) \in Sides /\ Other(s) # s
<1>1. setup \in Setups
  BY DEF TypeOK
<1> QED BY <1>1, TransferAssumption DEF Sides, Other

(* A chunk that is read was there to be read; only the escape character   *)
(* in it cuts the side off.                                                *)
LEMMA ChunkTaken ==
  ASSUME TypeOK, NEW s \in Sides, NEW n \in 1 .. BufSize, TakeChunk(s, n)
  PROVE  /\ n <= Unread(s) /\ ~AtCount(s)
         /\ taken' = [taken EXCEPT ![s] = @ + n]
         /\ taken' \in [Sides -> Nat]
         /\ \A t \in Sides : taken'[t] \in 0 .. sent[t]
         /\ actbytes' \in [Sides -> Nat]
         /\ \A t \in Sides \ {s} : actbytes'[t] = actbytes[t]
         /\ actescape' \in [Sides -> BOOLEAN]
         /\ \A t \in Sides : actescape[t] => actescape'[t]
         /\ EscapeIn(s, n) => actescape'[s]
         /\ Passed(s, n) \in 0 .. n
<1> USE DEF Unread
<1>1. /\ sent \in [Sides -> 0 .. MaxBytes] /\ taken \in [Sides -> Nat]
      /\ \A t \in Sides : taken[t] \in 0 .. sent[t]
      /\ actbytes \in [Sides -> Nat] /\ actescape \in [Sides -> BOOLEAN]
      /\ BufSize \in Nat /\ MaxBytes \in Nat
  BY TransferAssumption DEF TypeOK
<1>2. setup.readbytes[s] \in Nat /\ setup.escape[s] \in Nat
  BY SetupTyped
<1>3. n = ReadSize(s) /\ n > 0
  BY DEF TakeChunk
<1>4. ~AtCount(s) /\ n <= sent[s] - taken[s]
      /\ (setup.readbytes[s] # 0 => n <= actbytes[s])
  BY <1>1, <1>2, <1>3 DEF ReadSize, MinOf
<1>5. taken' = [taken EXCEPT ![s] = @ + n]
  BY DEF TakeChunk
<1>6. taken' \in [Sides -> Nat] /\ \A t \in Sides : taken'[t] \in 0 .. sent[t]
  BY <1>1, <1>4, <1>5
<1>7. actbytes' \in [Sides -> Nat] /\ \A t \in Sides \ {s} : actbytes'[t] = actbytes[t]
  BY <1>1, <1>4 DEF TakeChunk
<1>8. /\ actescape' \in [Sides -> BOOLEAN]
      /\ \A t \in Sides : actescape[t] => actescape'[t]
      /\ EscapeIn(s, n) => actescape'[s]
  <2>1. actescape' = [actescape EXCEPT ![s] = actescape[s] \/ EscapeIn(s, n)]
    BY DEF TakeChunk
  <2>2. EscapeIn(s, n) \in BOOLEAN
    BY DEF EscapeIn
  <2> QED BY <1>1, <2>1, <2>2
<1>9. Passed(s, n) \in 0 .. n
  BY <1>1, <1>2 DEF Passed, EscapeIn
<1> QED BY <1>4, <1>5, <1>6, <1>7, <1>8, <1>9
-----------------------------------------------------------------------------
LEMMA TypeInit == Init => TypeOK
<1> SUFFICES ASSUME Init PROVE TypeOK
  OBVIOUS
<1>1. setup \in Setups
  BY DEF Init
<1>2. /\ setup.ignoreeof \in [Sides -> BOOLEAN] /\ setup.readbytes \in [Sides -> Nat]
      /\ Intervals \in Nat /\ MaxBytes \in Nat
  BY <1>1, TransferAssumption DEF Sides
<1>3. /\ eof \in [Sides -> 0..2] /\ ignoreeof \in [Sides -> BOOLEAN]
      /\ actbytes \in [Sides -> Nat] /\ actescape \in [Sides -> BOOLEAN]
      /\ pid \in [Sides -> BOOLEAN]
  BY <1>2 DEF Init
<1>4. /\ mayrd \in [Sides -> BOOLEAN] /\ maywr \in [Sides -> BOOLEAN]
      /\ closing \in 0..2 /\ polling \in BOOLEAN /\ wasaction \in BOOLEAN
      /\ left \in 0..Intervals /\ timed \in BOOLEAN
      /\ bytes \in [Sides -> Int] /\ shut \in [Sides -> BOOLEAN]
  <2>1. mayrd \in [Sides -> BOOLEAN] /\ maywr \in [Sides -> BOOLEAN] /\ shut \in [Sides -> BOOLEAN]
    BY DEF Init
  <2>2. bytes \in [Sides -> Int] /\ closing \in 0..2 /\ left \in 0..Intervals
    BY <1>2 DEF Init
  <2> QED BY <2>1, <2>2 DEF Init
<1>5. /\ sent \in [Sides -> 0..MaxBytes] /\ owed \in [Sides -> Nat]
      /\ taken \in [Sides -> Nat] /\ given \in [Sides -> Nat]
      /\ \A s \in Sides :
           owed[s] \in 0..sent[s] /\ taken[s] \in 0..sent[s] /\ given[s] \in 0..taken[s]
  BY <1>2 DEF Init
<1>6. /\ finished \in [Sides -> BOOLEAN] /\ stalled \in [Sides -> BOOLEAN]
      /\ reset \in [Sides -> BOOLEAN]
  BY DEF Init
<1> QED BY <1>1, <1>3, <1>4, <1>5, <1>6 DEF Init, TypeOK

LEMMA TypeStep == TypeOK /\ [Next]_vars => TypeOK'
<1> SUFFICES ASSUME TypeOK, [Next]_vars
             PROVE  TypeOK'
  OBVIOUS
<1> USE TransferAssumption DEF streamVars, loopVars, peerVars, dataVars
<1>1. CASE Top
  BY <1>1 DEF Top, TypeOK
<1>2. CASE Arm
  BY <1>2 DEF Arm, TypeOK
<1>3. CASE PollReturns
  <2>1. \A s \in Sides : InReady(s) \in BOOLEAN /\ OutReady(s) \in BOOLEAN
    BY DEF InReady, OutReady
  <2> QED BY <1>3, <2>1 DEF PollReturns, TypeOK
<1>4. CASE PollTimesOut
  BY <1>4 DEF PollTimesOut, TypeOK, Sides
<1>5. ASSUME NEW s \in Sides, Transfer(s)
      PROVE  TypeOK'
  <2>0. NextPhase(s) \in {"transfer2", "ends"}
    BY DEF NextPhase
  <2>1. CASE NotBoth(s)
    BY <2>0, <2>1 DEF NotBoth, TypeOK
  <2>2. CASE ReadFails(s)
    BY <2>0, <2>2 DEF ReadFails, MaxOf, TypeOK
  <2>3. CASE ReadsNothing(s)
    <3>1. eof' \in [Sides -> 0 .. 2] /\ closing' \in 0 .. 2
      BY <2>3 DEF ReadsNothing, MaxOf, TypeOK
    <3>2. mayrd' \in [Sides -> BOOLEAN] /\ bytes' \in [Sides -> Int]
      BY <2>3 DEF ReadsNothing, TypeOK
    <3> QED BY <2>0, <2>3, <3>1, <3>2 DEF ReadsNothing, TypeOK
  <2>4. CASE Chunk(s)
    <3>1. PICK n \in 1 .. BufSize :
            /\ TakeChunk(s, n)
            /\ given' = [given EXCEPT ![s] = @ + Passed(s, n)]
            /\ bytes' = [bytes EXCEPT ![s] = IF EscapeIn(s, n) THEN 0 ELSE n]
            /\ IF Passed(s, n) = 0
               THEN mayrd' = [mayrd EXCEPT ![s] = FALSE] /\ UNCHANGED <<maywr, wasaction, left>>
               ELSE /\ mayrd' = [mayrd EXCEPT ![s] = setup.readbytes[s] # 0 /\ actbytes'[s] = 0]
                    /\ maywr' = [maywr EXCEPT ![Other(s)] = FALSE]
                    /\ wasaction' = TRUE /\ left' = Intervals
            /\ phase' = NextPhase(s)
            /\ UNCHANGED <<setup, eof, ignoreeof, pid, closing, polling, timed, shut, peerVars>>
      BY <2>4 DEF Chunk
    <3>2. /\ taken' = [taken EXCEPT ![s] = @ + n] /\ taken' \in [Sides -> Nat]
          /\ \A t \in Sides : taken'[t] \in 0 .. sent[t]
          /\ actbytes' \in [Sides -> Nat] /\ actescape' \in [Sides -> BOOLEAN]
          /\ Passed(s, n) \in 0 .. n
      BY <3>1, ChunkTaken
    <3>3. given' \in [Sides -> Nat] /\ \A t \in Sides : given'[t] \in 0 .. taken'[t]
      BY <3>1, <3>2 DEF TypeOK
    <3>4. mayrd' \in [Sides -> BOOLEAN] /\ maywr' \in [Sides -> BOOLEAN]
      BY <3>1 DEF TypeOK
    <3>5. wasaction' \in BOOLEAN /\ left' \in 0 .. Intervals
      <4>1. (wasaction' = wasaction \/ wasaction' = TRUE) /\ (left' = left \/ left' = Intervals)
        BY <3>1
      <4>2. Intervals \in 0 .. Intervals
        OBVIOUS
      <4> QED BY <4>1, <4>2 DEF TypeOK
    <3>6. bytes' \in [Sides -> Int]
      BY <3>1 DEF TypeOK
    <3> QED BY <2>0, <3>1, <3>2, <3>3, <3>4, <3>5, <3>6 DEF TypeOK
  <2>5. CASE WriteFails(s)
    <3>1. PICK n \in 1 .. BufSize :
            /\ TakeChunk(s, n)
            /\ mayrd' = [mayrd EXCEPT ![s] = FALSE]
            /\ bytes' = [bytes EXCEPT ![s] = -1]
            /\ closing' = MaxOf(closing, 1)
            /\ phase' = IF ~setup.cool THEN "exit"
                        ELSE IF OneWay(s) THEN "end" ELSE NextPhase(s)
            /\ UNCHANGED <<setup, eof, ignoreeof, pid, maywr, polling, wasaction, left, timed,
                           shut, peerVars, given>>
      BY <2>5 DEF WriteFails
    <3>2. /\ taken' = [taken EXCEPT ![s] = @ + n] /\ taken' \in [Sides -> Nat]
          /\ \A t \in Sides : taken'[t] \in 0 .. sent[t]
          /\ actbytes' \in [Sides -> Nat] /\ actescape' \in [Sides -> BOOLEAN]
      BY <3>1, ChunkTaken
    <3>3. \A t \in Sides : given'[t] \in 0 .. taken'[t]
      BY <3>1, <3>2 DEF TypeOK
    <3>4. mayrd' \in [Sides -> BOOLEAN] /\ bytes' \in [Sides -> Int] /\ closing' \in 0 .. 2
      BY <3>1 DEF TypeOK, MaxOf
    <3>5. phase' \in {"transfer2", "ends", "end", "exit"}
      BY <2>0, <3>1
    <3> QED BY <3>1, <3>2, <3>3, <3>4, <3>5 DEF TypeOK
  <2> QED BY <1>5, <2>1, <2>2, <2>3, <2>4, <2>5 DEF Transfer
<1>6. CASE Ends
  <2>1. shut' \in [Sides -> BOOLEAN]
    <3>1. \/ shut' = [shut EXCEPT ![2] = TRUE]
          \/ \E e : shut' = [s \in Sides |-> shut[s] \/ e[Other(s)]]
      BY <1>6 DEF Ends
    <3>2. shut \in [Sides -> BOOLEAN]
      BY DEF TypeOK
    <3>3. CASE shut' = [shut EXCEPT ![2] = TRUE]
      BY <3>2, <3>3
    <3>4. CASE \E e : shut' = [s \in Sides |-> shut[s] \/ e[Other(s)]]
      <4>1. PICK e : shut' = [s \in Sides |-> shut[s] \/ e[Other(s)]]
        BY <3>4
      <4> QED BY <3>2, <4>1
    <3> QED BY <3>1, <3>3, <3>4
  <2>2. eof' \in [Sides -> 0 .. 2]
    BY <1>6 DEF Ends, TypeOK
  <2>3. ignoreeof' \in [Sides -> BOOLEAN]
    BY <1>6 DEF Ends, TypeOK
  <2>4. mayrd' \in [Sides -> BOOLEAN] /\ polling' \in BOOLEAN
    BY <1>6 DEF Ends, TypeOK
  <2>5. closing' \in 0 .. 2 /\ phase' \in {"end", "top"}
    BY <1>6 DEF Ends, TypeOK
  <2> QED BY <1>6, <2>1, <2>2, <2>3, <2>4, <2>5 DEF Ends, TypeOK
<1>7. ASSUME NEW s \in Sides, ChildDies(s)
      PROVE  TypeOK'
  <2>1. pid' \in [Sides -> BOOLEAN] /\ finished' \in [Sides -> BOOLEAN]
    BY <1>7 DEF ChildDies, TypeOK
  <2>2. eof' \in [Sides -> 0 .. 2] /\ closing' \in 0 .. 2
    BY <1>7 DEF ChildDies, TypeOK, MaxOf
  <2>3. phase' \in {"poll", "arm", phase}
    BY <1>7 DEF ChildDies
  <2> QED BY <1>7, <2>1, <2>2, <2>3 DEF ChildDies, TypeOK
<1>8. ASSUME NEW s \in Sides, Send(s)
      PROVE  TypeOK'
  BY <1>8 DEF Send, Peer, TypeOK
<1>9. ASSUME NEW s \in Sides, Finish(s) \/ Stall(s) \/ Resume(s) \/ Reset(s)
      PROVE  TypeOK'
  <2>1. CASE Finish(s)
    BY <2>1 DEF Finish, Peer, TypeOK
  <2>2. CASE Stall(s)
    BY <2>2 DEF Stall, Peer, TypeOK
  <2>3. CASE Resume(s)
    BY <2>3 DEF Resume, Peer, TypeOK
  <2>4. CASE Reset(s)
    BY <2>4 DEF Reset, Peer, TypeOK
  <2> QED BY <1>9, <2>1, <2>2, <2>3, <2>4
<1>10. CASE UNCHANGED vars
  BY <1>10 DEF vars, TypeOK
<1> QED
  BY <1>1, <1>2, <1>3, <1>4, <1>5, <1>6, <1>7, <1>8, <1>9, <1>10 DEF Next, Loop
-----------------------------------------------------------------------------
LEMMA EofInit == Init => EofInv
<1> SUFFICES ASSUME Init PROVE EofInv
  OBVIOUS
<1>1. TypeOK
  BY TypeInit
<1>2. \A s \in Sides : ~mayrd[s] /\ eof[s] = 0 /\ bytes[s] = -1
  BY DEF Init
<1> QED BY <1>1, <1>2 DEF EofInv

LEMMA EofStep == EofInv /\ [Next]_vars => EofInv'
<1> SUFFICES ASSUME EofInv, [Next]_vars
             PROVE  EofInv'
  OBVIOUS
<1> DEFINE Ready(t) == mayrd[t] => Unread(t) > 0 \/ Silent(t) \/ CutOff(t)
           AtEnd(t) == eof[t] = 2 \/ bytes[t] = 0 => Drained(t)
<1>1. TypeOK /\ TypeOK'
  BY TypeStep DEF EofInv
<1>2. SUFFICES ASSUME NEW t \in Sides
               PROVE  Ready(t)' /\ AtEnd(t)'
  BY <1>1 DEF EofInv
<1>3. Ready(t) /\ AtEnd(t)
  BY DEF EofInv
<1>4. /\ Unread(t) \in Nat /\ Unread(t)' \in Nat
      /\ eof[t] \in 0 .. 2 /\ bytes[t] \in Int /\ setup' = setup
  <2>1. setup' = setup
    BY DEF vars, Next, Loop, Top, Arm, PollReturns, PollTimesOut, Transfer, NotBoth, ReadFails,
           ReadsNothing, Chunk, WriteFails, Ends, ChildDies, Send, Finish, Stall, Resume, Reset, Peer
  <2> QED BY <1>1, <2>1 DEF TypeOK, Unread
<1>0. Unread(t) = 0 => Caught(t)
  BY <1>1 DEF TypeOK, Unread, Caught
<1> USE DEF streamVars, loopVars, peerVars, dataVars
\* Steps that neither move bytes nor end a side.
<1>5. ASSUME UNCHANGED <<setup, pid, finished, reset, actbytes, actescape, sent, owed, taken>>,
             mayrd'[t] => mayrd[t] \/ Unread(t) > 0 \/ Silent(t) \/ CutOff(t),
             eof'[t] = 2 \/ bytes'[t] = 0 => eof[t] = 2 \/ bytes[t] = 0 \/ Drained(t)
      PROVE  Ready(t)' /\ AtEnd(t)'
  BY <1>3, <1>5 DEF Unread, Silent, CutOff, Drained, Caught, AtCount
<1>6. CASE Top
  BY <1>5, <1>6 DEF Top
<1>7. CASE Arm
  <2>1. eof'[t] = 2 => eof[t] = 2 \/ LeftNothing(t)
    BY <1>7 DEF Arm
  <2>2. LeftNothing(t) => eof[t] = 2 \/ Drained(t)
    BY <1>0, <1>4 DEF LeftNothing, HasInput, Drained, Silent
  <2>3. UNCHANGED <<setup, pid, finished, reset, actbytes, actescape, sent, owed, taken, mayrd, bytes>>
    BY <1>7 DEF Arm
  <2> QED BY <1>5, <2>1, <2>2, <2>3
<1>8. CASE PollReturns
  <2>1. mayrd'[t] => mayrd[t] \/ InReady(t)
    BY <1>8 DEF PollReturns
  <2>2. InReady(t) => Unread(t) > 0 \/ Silent(t) \/ CutOff(t)
    BY DEF InReady, HasInput, Silent, CutOff
  <2>3. bytes'[t] = -1
    BY <1>8 DEF PollReturns
  <2>4. UNCHANGED <<setup, pid, finished, reset, actbytes, actescape, sent, owed, taken, eof>>
    BY <1>8 DEF PollReturns
  <2> QED BY <1>5, <2>1, <2>2, <2>3, <2>4
<1>9. CASE PollTimesOut
  <2>1. mayrd'[t] => mayrd[t]
    BY <1>1, <1>9 DEF PollTimesOut, TypeOK, Sides
  <2>2. UNCHANGED <<setup, pid, finished, reset, actbytes, actescape, sent, owed, taken, eof, bytes>>
    BY <1>9 DEF PollTimesOut
  <2> QED BY <1>5, <2>1, <2>2
<1>10. ASSUME NEW s \in Sides, Transfer(s)
       PROVE  Ready(t)' /\ AtEnd(t)'
  <2>1. CASE NotBoth(s)
    <3>1. bytes'[t] = bytes[t] \/ bytes'[t] = -1
      BY <1>1, <2>1 DEF NotBoth, TypeOK
    <3>2. UNCHANGED <<setup, pid, finished, reset, actbytes, actescape, sent, owed, taken, eof, mayrd>>
      BY <2>1 DEF NotBoth
    <3> QED BY <1>5, <3>1, <3>2
  <2>2. CASE ReadFails(s)
    <3>1. mayrd'[t] => mayrd[t]
      BY <1>1, <2>2 DEF ReadFails, TypeOK
    <3>2. t # s => eof'[t] = eof[t] /\ bytes'[t] = bytes[t]
      BY <1>1, <2>2 DEF ReadFails, TypeOK
    <3>3. Drained(s)
      BY <2>2 DEF ReadFails, Drained, CutOff
    <3>4. UNCHANGED <<setup, pid, finished, reset, actbytes, actescape, sent, owed, taken>>
      BY <2>2 DEF ReadFails
    <3> QED BY <1>5, <3>1, <3>2, <3>3, <3>4
  <2>3. CASE ReadsNothing(s)
    <3>1. mayrd'[t] => mayrd[t]
      BY <1>1, <2>3 DEF ReadsNothing, TypeOK
    <3>2. t # s => eof'[t] = eof[t] /\ bytes'[t] = bytes[t]
      BY <1>1, <2>3 DEF ReadsNothing, TypeOK
    <3>3. t = s => Drained(t)
      BY <1>0, <1>3, <2>3 DEF ReadsNothing, Drained, CutOff
    <3>4. UNCHANGED <<setup, pid, finished, reset, actbytes, actescape, sent, owed, taken>>
      BY <2>3 DEF ReadsNothing
    <3> QED BY <1>5, <3>1, <3>2, <3>3, <3>4
  <2>4. CASE Chunk(s) \/ WriteFails(s)
    <3>1. PICK n \in 1 .. BufSize :
            /\ TakeChunk(s, n)
            /\ UNCHANGED <<setup, eof, pid, sent, owed, finished, reset>>
            /\ bytes' \in {[bytes EXCEPT ![s] = IF EscapeIn(s, n) THEN 0 ELSE n],
                           [bytes EXCEPT ![s] = -1]}
            /\ mayrd' \in {[mayrd EXCEPT ![s] = FALSE],
                           [mayrd EXCEPT ![s] = setup.readbytes[s] # 0 /\ actbytes'[s] = 0]}
      BY <2>4 DEF Chunk, WriteFails
    <3>2. /\ n <= Unread(s) /\ ~AtCount(s)
          /\ taken' = [taken EXCEPT ![s] = @ + n]
          /\ \A u \in Sides \ {s} : actbytes'[u] = actbytes[u]
          /\ actescape[t] => actescape'[t]
          /\ EscapeIn(s, n) => actescape'[s]
      BY <1>1, <3>1, ChunkTaken
    <3>3. CASE t = s
      <4>1. CutOff(s) => CutOff(s)'
        BY <3>1, <3>2, <3>3 DEF CutOff
      <4>2. (Silent(s) => Silent(s)') /\ (Caught(s) => Caught(s)')
        BY <1>1, <3>1, <3>2 DEF TypeOK, Silent, Caught
      <4>3. mayrd'[s] => CutOff(s)'
        BY <1>1, <3>1 DEF TypeOK, CutOff, AtCount
      <4>4. bytes'[s] = 0 => CutOff(s)'
        BY <1>1, <3>1, <3>2 DEF TypeOK, CutOff
      <4>5. eof'[s] = 2 => Drained(s)'
        BY <1>3, <3>1, <3>3, <4>1, <4>2 DEF Drained
      <4> QED BY <3>3, <4>3, <4>4, <4>5 DEF Drained
    <3>4. CASE t # s
      <4>1. mayrd'[t] = mayrd[t] /\ bytes'[t] = bytes[t] /\ taken'[t] = taken[t]
        BY <1>1, <3>1, <3>2, <3>4 DEF TypeOK
      <4>2. /\ Unread(t)' = Unread(t) /\ Caught(t)' = Caught(t)
            /\ Silent(t)' = Silent(t) /\ (CutOff(t) => CutOff(t)')
        BY <3>1, <3>2, <3>4, <4>1 DEF Unread, Caught, Silent, CutOff, AtCount
      <4> QED BY <1>3, <3>1, <4>1, <4>2 DEF Drained
    <3> QED BY <3>3, <3>4
  <2> QED BY <1>10, <2>1, <2>2, <2>3, <2>4 DEF Transfer
<1>11. CASE Ends
  <2>1. eof'[t] = 2 => eof[t] = 2 \/ AtEof(t)
    BY <1>1, <1>11 DEF Ends, TypeOK, Sides
  <2>2. mayrd'[t] => mayrd[t] \/ AtEof(t)
    BY <1>1, <1>11 DEF Ends, TypeOK
  <2>3. AtEof(t) => eof[t] = 2 \/ bytes[t] = 0
    BY <1>4 DEF AtEof
  <2>4. Drained(t) => Silent(t) \/ CutOff(t)
    BY DEF Drained
  <2>5. UNCHANGED <<setup, pid, finished, reset, actbytes, actescape, sent, owed, taken, bytes>>
    BY <1>11 DEF Ends
  <2> QED BY <1>3, <1>5, <2>1, <2>2, <2>3, <2>4, <2>5
<1>12. ASSUME NEW s \in Sides, ChildDies(s)
       PROVE  Ready(t)' /\ AtEnd(t)'
  <2>1. eof'[t] = 2 => eof[t] = 2
    BY <1>1, <1>12 DEF ChildDies, MaxOf, TypeOK
  <2>2. /\ finished[t] => finished'[t]
        /\ pid'[t] => pid[t]
    BY <1>1, <1>12 DEF ChildDies, TypeOK
  <2>3. UNCHANGED <<setup, reset, actbytes, actescape, sent, owed, taken, mayrd, bytes>>
    BY <1>12 DEF ChildDies
  <2>4. /\ Unread(t)' = Unread(t) /\ Caught(t)' = Caught(t) /\ CutOff(t)' = CutOff(t)
        /\ Silent(t) => Silent(t)'
    BY <2>2, <2>3 DEF Unread, Caught, CutOff, AtCount, Silent
  <2> QED BY <1>3, <2>1, <2>3, <2>4 DEF Drained
<1>13. ASSUME NEW s \in Sides, Send(s)
       PROVE  Ready(t)' /\ AtEnd(t)'
  <2>1. UNCHANGED <<setup, eof, pid, mayrd, bytes, actbytes, actescape, taken, finished, reset>>
    BY <1>13 DEF Send, Peer
  <2>2. CutOff(t)' = CutOff(t) /\ Silent(t)' = Silent(t)
    BY <2>1 DEF CutOff, AtCount, Silent
  <2>3. Silent(t) => owed'[t] = owed[t]
    BY <1>1, <1>13 DEF Send, Silent, TypeOK
  <2>4. sent'[t] >= sent[t]
    BY <1>1, <1>13, TransferAssumption DEF Send, TypeOK
  <2>5. Unread(t)' >= Unread(t) /\ (Silent(t) /\ Caught(t) => Caught(t)')
    BY <1>1, <2>1, <2>3, <2>4, TransferAssumption DEF Unread, Caught, TypeOK
  <2> QED BY <1>3, <1>4, <2>1, <2>2, <2>3, <2>5 DEF Drained
<1>14. ASSUME NEW s \in Sides, Finish(s) \/ Stall(s) \/ Resume(s) \/ Reset(s)
       PROVE  Ready(t)' /\ AtEnd(t)'
  <2>1. UNCHANGED <<setup, eof, pid, mayrd, bytes, actbytes, actescape, taken, sent, owed>>
    BY <1>14 DEF Finish, Stall, Resume, Reset, Peer
  <2>2. (finished[t] => finished'[t]) /\ (reset[t] => reset'[t])
    BY <1>1, <1>14 DEF Finish, Stall, Resume, Reset, TypeOK
  <2>3. /\ Unread(t)' = Unread(t) /\ Caught(t)' = Caught(t)
        /\ CutOff(t) => CutOff(t)'
        /\ Silent(t) => Silent(t)'
    BY <2>1, <2>2 DEF Unread, Caught, CutOff, AtCount, Silent
  <2> QED BY <1>3, <2>1, <2>3 DEF Drained
<1>15. CASE UNCHANGED vars
  BY <1>5, <1>15 DEF vars
<1> QED
  BY <1>6, <1>7, <1>8, <1>9, <1>10, <1>11, <1>12, <1>13, <1>14, <1>15 DEF Next, Loop
-----------------------------------------------------------------------------
(* The variables of the transfer loop keep their types; what was given to *)
(* a side was read from the other, and what was read was sent.             *)
THEOREM TransferTyped == Spec => []TypeOK
BY TypeInit, TypeStep, PTL DEF Spec

(* When the loop shuts a side down, all that the other side had sent by   *)
(* then has been read, unless the end was one by count, escape character   *)
(* or reset, the other side is a file, or it is a sub process and the      *)
(* bytes came after its death (socat.c, xioshutdown.c).                    *)
THEOREM EofComesLast == Spec => PassesEofLast
<1> DEFINE Passes ==
      \A s \in Sides :
       shut'[Other(s)] /\ ~shut[Other(s)] =>
         \/ taken[s] >= owed[s]
         \/ AtCount(s) \/ actescape[s] \/ reset[s] \/ setup.kind[s] = "file"
<1>1. EofInv /\ [Next]_vars => [Passes]_vars
  <2> SUFFICES ASSUME EofInv, [Next]_vars, NEW s \in Sides,
                      shut'[Other(s)], ~shut[Other(s)]
               PROVE  Caught(s) \/ CutOff(s)
    BY DEF CutOff, Caught
  <2> USE DEF streamVars, loopVars, peerVars, dataVars
  <2>1. shut' # shut
    OBVIOUS
  <2>2. Ends
    BY <2>1 DEF vars, Next, Loop, Top, Arm, PollReturns, PollTimesOut, Transfer, NotBoth,
           ReadFails, ReadsNothing, Chunk, WriteFails, ChildDies, Send, Finish, Stall, Resume,
           Reset, Peer
  <2>3. TypeOK
    BY DEF EofInv
  <2>4. AtEof(s)
    BY <2>2, <2>3 DEF Ends, TypeOK, Sides, Other
  <2>5. eof[s] = 2 \/ bytes[s] = 0
    BY <2>3, <2>4 DEF AtEof, TypeOK
  <2> QED BY <2>5 DEF EofInv, Drained
<1> QED
  BY <1>1, EofInit, EofStep, PTL DEF Spec, PassesEofLast

-----------------------------------------------------------------------------
(* Nothing is left behind. *)

\* What was read was written, up to an escape character or a reset.
PassedOn(s) == given[s] = taken[s] \/ actescape[s] \/ \E t \in Sides : reset[t]

\* The transfer from side s has had its turn since the last poll.
HadItsTurn(s) ==
  phase \in {"ends", "top", "arm", "poll"} \/ (s = 1 /\ phase = "transfer2")

Bothways == setup.mode = "both" /\ setup.peer # "slow" /\ ~setup.total

(* A side that is marked as readable, the other as writable, although its turn is over, *)
(* has nothing more to be read: its EOF was ignored.  Only then does the poll not look   *)
(* at it any more.                                                                       *)
LeftInv ==
  /\ EofInv
  /\ \A s \in Sides : PassedOn(s) /\ (stalled[s] => setup.peer # "ready")
  /\ \A s \in Sides : HadItsTurn(s) /\ mayrd[s] /\ maywr[Other(s)] => Drained(s)
  /\ phase = "end" /\ Bothways => \A s \in Sides : Drained(s) \/ Unread(s) = 0

LEMMA SetupStays == [Next]_vars => setup' = setup
BY DEF vars, Next, Loop, Top, Arm, PollReturns, PollTimesOut, Transfer, NotBoth, ReadFails,
       ReadsNothing, Chunk, WriteFails, Ends, ChildDies, Send, Finish, Stall, Resume, Reset, Peer

\* A side that is drained stays drained: what comes over it now is not owed.
LEMMA DrainedStays ==
  ASSUME EofInv, [Next]_vars, NEW t \in Sides, Drained(t)
  PROVE  Drained(t)'
<1> USE DEF streamVars, loopVars, peerVars, dataVars
<1>1. setup' = setup
  BY SetupStays
<1>2. TypeOK
  BY DEF EofInv
<1>3. ASSUME UNCHANGED <<pid, finished, reset, actbytes, actescape, sent, owed, taken>>
      PROVE  Drained(t)'
  BY <1>1, <1>3 DEF Drained, CutOff, AtCount, Silent, Caught
<1>4. CASE Top \/ Arm \/ PollReturns \/ PollTimesOut \/ Ends \/ UNCHANGED vars
  BY <1>3, <1>4 DEF Top, Arm, PollReturns, PollTimesOut, Ends, vars
<1>5. ASSUME NEW s \in Sides, Transfer(s)
      PROVE  Drained(t)'
  <2>1. CASE NotBoth(s) \/ ReadFails(s) \/ ReadsNothing(s)
    BY <1>3, <2>1 DEF NotBoth, ReadFails, ReadsNothing
  <2>2. CASE Chunk(s) \/ WriteFails(s)
    <3>1. PICK n \in 1 .. BufSize :
            TakeChunk(s, n) /\ UNCHANGED <<pid, sent, owed, finished, reset>>
      BY <2>2 DEF Chunk, WriteFails
    <3>2. /\ n <= Unread(s) /\ ~AtCount(s)
          /\ taken' = [taken EXCEPT ![s] = @ + n]
          /\ \A u \in Sides \ {s} : actbytes'[u] = actbytes[u]
          /\ \A u \in Sides : actescape[u] => actescape'[u]
      BY <1>2, <3>1, ChunkTaken
    <3>3. CutOff(t) => CutOff(t)'
      BY <1>1, <3>1, <3>2 DEF CutOff, AtCount
    <3>4. Silent(t) => Silent(t)'
      BY <1>1, <3>1 DEF Silent
    <3>5. Caught(t) => Caught(t)'
      BY <1>2, <3>1, <3>2 DEF Caught, TypeOK
    <3> QED BY <3>3, <3>4, <3>5 DEF Drained
  <2> QED BY <1>5, <2>1, <2>2 DEF Transfer
<1>6. ASSUME NEW s \in Sides, ChildDies(s)
      PROVE  Drained(t)'
  <2>1. /\ finished[t] => finished'[t]
        /\ pid'[t] => pid[t]
    BY <1>2, <1>6 DEF ChildDies, TypeOK
  <2>2. UNCHANGED <<reset, actbytes, actescape, sent, owed, taken>>
    BY <1>6 DEF ChildDies
  <2> QED BY <1>1, <2>1, <2>2 DEF Drained, CutOff, AtCount, Silent, Caught
<1>7. ASSUME NEW s \in Sides, Send(s)
      PROVE  Drained(t)'
  <2>1. UNCHANGED <<pid, finished, reset, actbytes, actescape, taken>>
    BY <1>7 DEF Send, Peer
  <2>2. Silent(t) => owed'[t] = owed[t]
    BY <1>2, <1>7 DEF Send, Silent, TypeOK
  <2> QED BY <1>1, <2>1, <2>2 DEF Drained, CutOff, AtCount, Silent, Caught
<1>8. ASSUME NEW s \in Sides, Finish(s) \/ Stall(s) \/ Resume(s) \/ Reset(s)
      PROVE  Drained(t)'
  <2>1. UNCHANGED <<pid, actbytes, actescape, taken, sent, owed>>
    BY <1>8 DEF Finish, Stall, Resume, Reset, Peer
  <2>2. (finished[t] => finished'[t]) /\ (reset[t] => reset'[t])
    BY <1>2, <1>8 DEF Finish, Stall, Resume, Reset, TypeOK
  <2> QED BY <1>1, <2>1, <2>2 DEF Drained, CutOff, AtCount, Silent, Caught
<1> QED BY <1>4, <1>5, <1>6, <1>7, <1>8 DEF Next, Loop

\* When poll waits in vain with the end timeout running, all is transferred.
LEMMA NothingWaits ==
  ASSUME LeftInv, PollTimesOut, Bothways, NEW s \in Sides
  PROVE  Drained(s) \/ Unread(s) = 0
<1>1. TypeOK /\ setup \in Setups
  BY DEF LeftInv, EofInv, TypeOK
<1>2. /\ phase = "poll" /\ timed /\ ~SomeReady
      /\ setup.peer = "prompt" => \A t \in Sides : PollsOut(t) => ~stalled[t]
  BY DEF PollTimesOut, TimeoutPossible
<1>3. Other(s) \in Sides /\ Other(Other(s)) = s /\ Readable(s)
  BY DEF Bothways, Readable, Sides, Other
<1>4. CASE eof[s] = 2
  BY <1>4 DEF LeftInv, EofInv
<1>5. CASE eof[s] # 2
  <2>1. Wanted(s) /\ eof[s] <= 1
    BY <1>1, <1>3, <1>5 DEF Wanted, TypeOK
  <2>2. CASE ~mayrd[s]
    <3>1. ~HasInput(s)
      BY <1>2, <2>1, <2>2 DEF SomeReady, InReady, PollsIn
    <3>2. Unread(s) \in Nat
      BY <1>1 DEF TypeOK, Unread
    <3> QED BY <3>1, <3>2 DEF HasInput
  <2>3. CASE mayrd[s] /\ maywr[Other(s)]
    BY <1>2, <2>3 DEF LeftInv, HadItsTurn
  <2>4. CASE ~maywr[Other(s)]
    <3>1. PollsOut(Other(s))
      BY <1>3, <2>1, <2>4 DEF PollsOut
    <3>2. stalled[Other(s)]
      BY <1>2, <1>3, <3>1 DEF SomeReady, OutReady, HasRoom
    <3>3. setup.peer \in {"ready", "prompt", "slow"}
      BY <1>1, TransferAssumption
    <3> QED BY <1>2, <1>3, <3>1, <3>2, <3>3 DEF LeftInv, Bothways
  <2> QED BY <2>2, <2>3, <2>4
<1> QED BY <1>4, <1>5

LEMMA LeftInit == Init => LeftInv
<1> SUFFICES ASSUME Init PROVE LeftInv
  OBVIOUS
<1>1. EofInv
  BY EofInit
<1>2. \A s \in Sides : given[s] = taken[s] /\ ~stalled[s] /\ ~mayrd[s]
  BY DEF Init
<1> QED BY <1>1, <1>2 DEF Init, LeftInv, PassedOn

LEMMA LeftStep == LeftInv /\ [Next]_vars => LeftInv'
<1> SUFFICES ASSUME LeftInv, [Next]_vars
             PROVE  LeftInv'
  OBVIOUS
<1> USE DEF streamVars, loopVars, peerVars, dataVars
<1>1. EofInv /\ EofInv' /\ TypeOK /\ TypeOK' /\ setup' = setup
  BY EofStep, SetupStays DEF LeftInv, EofInv
<1>2. Bothways' = Bothways
  BY <1>1 DEF Bothways
<1>3. \A t \in Sides : Drained(t) => Drained(t)'
  BY <1>1, DrainedStays
<1> DEFINE Turn(t) == HadItsTurn(t) /\ mayrd[t] /\ maywr[Other(t)] => Drained(t)
           Kept(t) == PassedOn(t) /\ (stalled[t] => setup.peer # "ready")
           AtLast == phase = "end" /\ Bothways => \A s \in Sides : Drained(s) \/ Unread(s) = 0
<1>4. SUFFICES (\A t \in Sides : Kept(t)' /\ Turn(t)') /\ AtLast'
  BY <1>1 DEF LeftInv
<1>5. (\A t \in Sides : Kept(t) /\ Turn(t)) /\ AtLast
  BY DEF LeftInv
<1> HIDE DEF Turn, Kept, AtLast
\* Steps that move no bytes.
<1>6. ASSUME UNCHANGED <<given, taken, actescape, reset, stalled>>
      PROVE  \A t \in Sides : Kept(t)'
  BY <1>1, <1>5, <1>6 DEF Kept, PassedOn
<1>7. ASSUME NEW t \in Sides,
             HadItsTurn(t)' /\ mayrd'[t] /\ maywr'[Other(t)]
               => Drained(t) \/ (HadItsTurn(t) /\ mayrd[t] /\ maywr[Other(t)])
      PROVE  Turn(t)'
  BY <1>1, <1>3, <1>5, <1>7 DEF Turn, Other
<1>8. phase' # "end" => AtLast'
  BY DEF AtLast
<1>9. CASE UNCHANGED vars
  <2>1. \A t \in Sides : Turn(t)'
    BY <1>7, <1>9 DEF vars, HadItsTurn
  <2>2. AtLast'
    BY <1>2, <1>3, <1>5, <1>9 DEF vars, AtLast, Unread
  <2> QED BY <1>6, <1>9, <2>1, <2>2 DEF vars
<1>10. CASE Top
  <2>1. /\ phase = "top" /\ phase' \in {"end", "arm"}
        /\ UNCHANGED <<given, taken, actescape, reset, stalled, mayrd, maywr, eof, sent>>
    BY <1>10 DEF Top
  <2>2. \A t \in Sides : Turn(t)'
    BY <1>7, <2>1 DEF HadItsTurn
  <2>3. ASSUME phase' = "end", Bothways PROVE \A s \in Sides : Drained(s)
    <3>1. eof[1] > 1 /\ eof[2] > 1
      BY <1>10, <2>3 DEF Top, Bothways
    <3>2. \A s \in Sides : eof[s] = 2
      BY <1>1, <3>1 DEF TypeOK, Sides
    <3> QED BY <1>1, <3>2 DEF EofInv
  <2>4. AtLast'
    BY <1>2, <1>3, <2>3 DEF AtLast
  <2> QED BY <1>6, <2>1, <2>2, <2>4
<1>11. CASE Arm
  <2>1. /\ phase = "arm" /\ phase' = "poll"
        /\ UNCHANGED <<given, taken, actescape, reset, stalled, mayrd, maywr>>
    BY <1>11 DEF Arm
  <2>2. \A t \in Sides : Turn(t)'
    BY <1>7, <2>1 DEF HadItsTurn
  <2> QED BY <1>6, <1>8, <2>1, <2>2
<1>12. CASE PollReturns
  <2>1. phase' = "transfer1" /\ UNCHANGED <<given, taken, actescape, reset, stalled>>
    BY <1>12 DEF PollReturns
  <2>2. \A t \in Sides : Turn(t)'
    BY <1>7, <2>1 DEF HadItsTurn
  <2> QED BY <1>6, <1>8, <2>1, <2>2
<1>13. CASE PollTimesOut
  <2>1. /\ phase = "poll" /\ phase' \in {"end", "top"}
        /\ \A t \in Sides : mayrd'[t] => mayrd[t]
        /\ UNCHANGED <<given, taken, actescape, reset, stalled, maywr, sent>>
    BY <1>1, <1>13 DEF PollTimesOut, TypeOK, Sides
  <2>2. \A t \in Sides : Turn(t)'
    BY <1>7, <2>1 DEF HadItsTurn
  <2>3. AtLast'
    BY <1>2, <1>3, <1>13, <2>1, NothingWaits DEF AtLast, Unread
  <2> QED BY <1>6, <2>1, <2>2, <2>3
<1>14. ASSUME NEW s \in Sides, Transfer(s)
       PROVE  (\A t \in Sides : Kept(t)' /\ Turn(t)') /\ AtLast'
  <2>1. /\ phase = IF s = 1 THEN "transfer1" ELSE "transfer2"
        /\ setup.mode = "both" => phase' # "end"
        /\ phase' \in {NextPhase(s), "end", "exit"}
    <3>1. setup.mode = "both" => ~OneWay(s)
      BY DEF OneWay
    <3>2. NextPhase(s) # "end" /\ phase = IF s = 1 THEN "transfer1" ELSE "transfer2"
      BY <1>14 DEF Transfer, NextPhase
    <3>3. CASE NotBoth(s) \/ ReadsNothing(s)
      BY <3>2, <3>3 DEF NotBoth, ReadsNothing
    <3>4. CASE ReadFails(s)
      BY <3>1, <3>2, <3>4 DEF ReadFails
    <3>5. CASE Chunk(s)
      BY <3>2, <3>5 DEF Chunk
    <3>6. CASE WriteFails(s)
      BY <3>1, <3>2, <3>6 DEF WriteFails
    <3> QED BY <1>14, <3>3, <3>4, <3>5, <3>6 DEF Transfer
  <2>2. AtLast'
    BY <1>2, <2>1 DEF AtLast, Bothways
  <2>3. \A t \in Sides : HadItsTurn(t)' => t = s \/ HadItsTurn(t)
    BY <2>1 DEF HadItsTurn, NextPhase, Sides
  <2>4. Other(s) \in Sides /\ \A t \in Sides : t # s => Other(t) # Other(s)
    BY DEF Sides, Other
  <2>5. ~(mayrd'[s] /\ maywr'[Other(s)])
    <3>1. CASE NotBoth(s)
      BY <3>1 DEF NotBoth
    <3>2. CASE ReadFails(s) \/ ReadsNothing(s) \/ WriteFails(s)
      BY <1>1, <3>2 DEF ReadFails, ReadsNothing, WriteFails, TypeOK
    <3>3. CASE Chunk(s)
      BY <1>1, <2>4, <3>3 DEF Chunk, TypeOK
    <3> QED BY <1>14, <3>1, <3>2, <3>3 DEF Transfer
  <2>6. \A t \in Sides : t # s => /\ mayrd'[t] => mayrd[t]
                                  /\ maywr'[Other(t)] => maywr[Other(t)]
    <3>1. CASE NotBoth(s)
      BY <3>1 DEF NotBoth
    <3>2. CASE ReadFails(s) \/ ReadsNothing(s)
      BY <1>1, <2>4, <3>2 DEF ReadFails, ReadsNothing, TypeOK
    <3>3. CASE Chunk(s)
      <4>1. \E b \in BOOLEAN : mayrd' = [mayrd EXCEPT ![s] = b]
        BY <3>3 DEF Chunk
      <4>2. maywr' = maywr \/ maywr' = [maywr EXCEPT ![Other(s)] = FALSE]
        BY <3>3 DEF Chunk
      <4>3. mayrd \in [Sides -> BOOLEAN] /\ maywr \in [Sides -> BOOLEAN]
        BY <1>1 DEF TypeOK
      <4>4. \A t \in Sides : t # s => mayrd'[t] = mayrd[t]
        BY <4>1, <4>3
      <4>5. \A t \in Sides : maywr'[t] => maywr[t]
        BY <2>4, <4>2, <4>3
      <4>6. \A t \in Sides : Other(t) \in Sides
        BY DEF Sides, Other
      <4> QED BY <4>4, <4>5, <4>6
    <3>4. CASE WriteFails(s)
      BY <1>1, <2>4, <3>4 DEF WriteFails, TypeOK
    <3> QED BY <1>14, <3>1, <3>2, <3>3, <3>4 DEF Transfer
  <2>7. \A t \in Sides : Turn(t)'
    <3>1. ASSUME NEW t \in Sides PROVE Turn(t)'
      <4>1. CASE t = s
        BY <1>7, <2>5, <4>1
      <4>2. CASE t # s
        BY <1>7, <2>3, <2>6, <4>2
      <4> QED BY <4>1, <4>2
    <3> QED BY <3>1
  <2>8. \A t \in Sides : Kept(t)'
    <3>1. CASE NotBoth(s) \/ ReadFails(s) \/ ReadsNothing(s)
      BY <1>6, <3>1 DEF NotBoth, ReadFails, ReadsNothing
    <3>2. CASE Chunk(s) \/ WriteFails(s)
      <4>1. PICK n \in 1 .. BufSize :
              /\ TakeChunk(s, n) /\ UNCHANGED <<reset, stalled>>
              /\ \/ given' = [given EXCEPT ![s] = @ + Passed(s, n)]
                 \/ given' = given /\ reset[Other(s)]
        BY <3>2 DEF Chunk, WriteFails
      <4>2. /\ taken' = [taken EXCEPT ![s] = @ + n]
            /\ \A u \in Sides : actescape[u] => actescape'[u]
            /\ EscapeIn(s, n) => actescape'[s]
        BY <1>1, <4>1, ChunkTaken
      <4>3. CASE reset[Other(s)]
        BY <1>1, <1>5, <2>4, <4>1, <4>3 DEF Kept, PassedOn
      <4>4. CASE given' = [given EXCEPT ![s] = @ + Passed(s, n)]
        <5> SUFFICES ASSUME NEW t \in Sides PROVE Kept(t)'
          OBVIOUS
        <5>1. EscapeIn(s, n) \/ Passed(s, n) = n
          BY DEF Passed
        <5>2. given[t] \in Nat /\ taken[t] \in Nat
          BY <1>1 DEF TypeOK
        <5>3. CASE t = s
          <6>1. /\ given'[t] = given[t] + Passed(s, n)
                /\ taken'[t] = taken[t] + n
            BY <1>1, <4>2, <4>4, <5>3 DEF TypeOK
          <6>2. PassedOn(t)'
            BY <1>5, <4>1, <4>2, <5>1, <5>2, <5>3, <6>1 DEF Kept, PassedOn
          <6> QED BY <1>1, <1>5, <4>1, <6>2 DEF Kept
        <5>4. CASE t # s
          <6>1. given'[t] = given[t] /\ taken'[t] = taken[t]
            BY <1>1, <4>2, <4>4, <5>4 DEF TypeOK
          <6> QED BY <1>1, <1>5, <4>1, <4>2, <6>1 DEF Kept, PassedOn
        <5> QED BY <5>3, <5>4
      <4> QED BY <4>1, <4>3, <4>4
    <3> QED BY <1>14, <3>1, <3>2 DEF Transfer
  <2> QED BY <2>2, <2>7, <2>8
<1>15. CASE Ends
  <2>1. /\ phase = "ends" /\ phase' \in {"end", "top"} /\ (setup.mode = "both" => phase' = "top")
        /\ UNCHANGED <<given, taken, actescape, reset, stalled, maywr>>
    BY <1>15 DEF Ends, OneWay
  <2>2. AtLast'
    BY <1>2, <2>1 DEF AtLast, Bothways
  <2>3. \A t \in Sides : mayrd'[t] => mayrd[t] \/ AtEof(t)
    BY <1>1, <1>15 DEF Ends, TypeOK
  <2>4. \A t \in Sides : AtEof(t) => Drained(t)
    BY <1>1 DEF AtEof, EofInv, TypeOK
  <2>5. \A t \in Sides : Turn(t)'
    BY <1>7, <2>1, <2>3, <2>4 DEF HadItsTurn
  <2> QED BY <1>6, <2>1, <2>2, <2>5
<1>16. ASSUME NEW s \in Sides, ChildDies(s)
       PROVE  (\A t \in Sides : Kept(t)' /\ Turn(t)') /\ AtLast'
  <2>1. /\ phase' # "end" /\ (phase' = phase \/ phase = "poll")
        /\ UNCHANGED <<given, taken, actescape, reset, stalled, maywr, mayrd>>
    BY <1>16 DEF ChildDies
  <2>2. \A t \in Sides : Turn(t)'
    BY <1>7, <2>1 DEF HadItsTurn
  <2> QED BY <1>6, <1>8, <2>1, <2>2
<1>17. ASSUME NEW s \in Sides,
              Running /\ (Send(s) \/ Finish(s) \/ Stall(s) \/ Resume(s) \/ Reset(s))
       PROVE  (\A t \in Sides : Kept(t)' /\ Turn(t)') /\ AtLast'
  <2>1. /\ phase' = phase /\ phase' # "end"
        /\ UNCHANGED <<given, taken, actescape, maywr, mayrd>>
    BY <1>17 DEF Running, Send, Finish, Stall, Resume, Reset, Peer
  <2>2. \A t \in Sides : /\ reset[t] => reset'[t]
                         /\ stalled'[t] => stalled[t] \/ setup.peer # "ready"
    BY <1>1, <1>17 DEF Send, Finish, Stall, Resume, Reset, TypeOK
  <2>3. \A t \in Sides : Kept(t)'
    BY <1>1, <1>5, <2>1, <2>2 DEF Kept, PassedOn
  <2>4. \A t \in Sides : Turn(t)'
    BY <1>7, <2>1 DEF HadItsTurn
  <2> QED BY <1>8, <2>1, <2>3, <2>4
<1> QED
  BY <1>9, <1>10, <1>11, <1>12, <1>13, <1>14, <1>15, <1>16, <1>17 DEF Next, Loop

(* When the loop ends by EOFs or by its end timeout, with peers that read in time, all *)
(* that was sent has been passed on, in both directions and whatever EOFs are ignored,  *)
(* unless it was cut off by count, by escape character or by a reset, is a file that     *)
(* may grow, or came after the death of a sub process (socat.c, _socat; xioshutdown.c).  *)
THEOREM AllPassedOn == Spec => []NothingLeftBehind
<1>1. LeftInv => NothingLeftBehind
  <2> SUFFICES ASSUME LeftInv, phase = "end", Bothways, NEW s \in Sides
               PROVE  \/ given[s] >= owed[s]
                      \/ AtCount(s) \/ actescape[s] \/ setup.kind[s] = "file"
                      \/ \E t \in Sides : reset[t]
    BY DEF NothingLeftBehind, Bothways
  <2>1. PassedOn(s) /\ (Drained(s) \/ Unread(s) = 0)
    BY DEF LeftInv
  <2>2. Unread(s) = 0 => taken[s] >= owed[s]
    BY DEF LeftInv, EofInv, TypeOK, Unread
  <2> QED BY <2>1, <2>2 DEF Drained, Caught, PassedOn, CutOff
<1> QED BY <1>1, LeftInit, LeftStep, PTL DEF Spec
=============================================================================
