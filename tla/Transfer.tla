------------------------------ MODULE Transfer ------------------------------
(***************************************************************************)
(* The data transfer loop of socat (socat.c, xioread.c, xiowrite.c,        *)
(* xioshutdown.c, xiosigchld.c): two addresses, a poll over their four     *)
(* descriptors, one transfer in each direction per round, half close,      *)
(* the ends by EOF, by count, by escape character, by the death of a       *)
(* sub process, and the three timers (-t, -T and the ignoreeof interval).  *)
(*                                                                         *)
(* The bytes of a side are numbered 1, 2, ... as its peer sends them.      *)
(* A side is "socket" (EOF stays EOF) or "file" (always readable, may      *)
(* grow after EOF).  SIGCHLD can come between any two steps of the loop.   *)
(* A sub process may close its output before it dies, and what it started  *)
(* may go on sending after it.  Descriptors are blocking, nobody else      *)
(* reads them and line ends are not converted, so that no transfer fails   *)
(* with EAGAIN (socat.c:971); no data wait inside OpenSSL, where poll does *)
(* not see them (xiopending, socat.c:983).                                 *)
(***************************************************************************)
EXTENDS Integers

CONSTANTS
  Setups,      \* command lines and address options to be started with
  MaxBytes,    \* bound of the model: bytes a peer sends
  BufSize,     \* socat_opts.bufsiz
  Intervals    \* total_timeout in units of pollintv

ASSUME TransferAssumption ==
  /\ MaxBytes \in Nat /\ BufSize \in Nat \ {0} /\ Intervals \in Nat
  /\ \A u \in Setups :
       /\ u.mode \in {"both", "lefttoright", "righttoleft"}
       /\ u.total \in BOOLEAN                      \* -T was given
       /\ u.kind \in [{1, 2} -> {"socket", "file"}]
       /\ u.ignoreeof \in [{1, 2} -> BOOLEAN]
       /\ u.readbytes \in [{1, 2} -> Nat]          \* 0: no limit
       /\ u.escape \in [{1, 2} -> Nat]             \* number of the escape character
       /\ u.child \in [{1, 2} -> BOOLEAN]          \* the address is a sub process
       /\ u.cool \in BOOLEAN                       \* cool-write
       /\ u.peer \in {"ready", "prompt", "slow"}   \* how soon peers read
       /\ u.resets \in BOOLEAN                     \* a peer may reset its connection

VARIABLES
  setup,
  phase,       \* where _socat stands; "end" after the loop, "exit" after Error
  eof, ignoreeof, actbytes, actescape,   \* of XIO_RDSTREAM of each side
  pid,         \* para.exec.pid # 0
  mayrd, maywr, closing, polling, wasaction,
  left,        \* total_timeout
  timed,       \* to # NULL
  bytes,       \* bytes1, bytes2
  shut,        \* the write side was shut down
  sent, taken, given,  \* bytes of a side: sent by its peer, read, written to the other side
  owed,        \* ghost: of those sent, all but what came when the sub process was dead
  finished,    \* the peer closed its end
  stalled,     \* the peer does not read
  reset        \* the connection was reset

Sides == {1, 2}
Other(s) == 3 - s

streamVars == <<eof, ignoreeof, actbytes, actescape, pid>>
loopVars == <<mayrd, maywr, closing, polling, wasaction, left, timed, bytes>>
peerVars == <<sent, owed, finished, stalled, reset>>
dataVars == <<taken, given>>
vars == <<setup, phase, streamVars, loopVars, shut, peerVars, dataVars>>

MaxOf(a, b) == IF a < b THEN b ELSE a
MinOf(a, b) == IF a < b THEN a ELSE b

\* The direction of a command line that only goes one way.
OneWay(s) == setup.mode = IF s = 1 THEN "lefttoright" ELSE "righttoleft"
\* XIO_READABLE
Readable(s) == setup.mode = "both" \/ OneWay(s)

\* The bytes that wait to be read, and what poll and read see of the descriptor.
Unread(s) == sent[s] - taken[s]
HasInput(s) == Unread(s) > 0 \/ finished[s] \/ reset[s] \/ setup.kind[s] = "file"
HasRoom(s) == ~stalled[s] \/ reset[s] \/ shut[s]

\* The addresses are open.  A child that died before it was registered is
\* found in diedunknown and has no pid any more.
Init ==
  /\ setup \in Setups
  /\ phase = "top"
  /\ eof = [s \in Sides |-> 0]
  /\ ignoreeof = setup.ignoreeof
  /\ actbytes = setup.readbytes
  /\ actescape = [s \in Sides |-> FALSE]
  /\ pid \in {p \in [Sides -> BOOLEAN] : \A s \in Sides : p[s] => setup.child[s]}
  /\ mayrd = [s \in Sides |-> FALSE] /\ maywr = [s \in Sides |-> FALSE]
  /\ closing = 0 /\ polling = FALSE /\ wasaction = TRUE
  /\ left = Intervals /\ timed = FALSE
  /\ bytes = [s \in Sides |-> -1]
  /\ shut = [s \in Sides |-> FALSE]
  /\ sent \in {n \in [Sides -> {0, 1}] : \A s \in Sides : n[s] <= MaxBytes}
  /\ owed = sent
  /\ taken = [s \in Sides |-> 0] /\ given = [s \in Sides |-> 0]
  /\ finished \in {f \in [Sides -> BOOLEAN] : \A s \in Sides : f[s] => setup.child[s]}
  /\ stalled = [s \in Sides |-> FALSE] /\ reset = [s \in Sides |-> FALSE]
-----------------------------------------------------------------------------
(* The head of the loop and the timers. *)

\* Mutant of Top: the intervals of ignoreeof are not counted.
TopUncounted ==
  /\ phase = "top"
  /\ phase' = IF eof[1] > 1 /\ eof[2] > 1 THEN "end" ELSE "arm"
  /\ wasaction' = (wasaction /\ ~polling)
  /\ timed' = (polling \/ setup.total \/ closing >= 1)
  /\ closing' = IF closing >= 1 THEN 2 ELSE closing
  /\ UNCHANGED <<setup, streamVars, mayrd, maywr, polling, left, bytes, shut, peerVars,
                 dataVars>>

\* One pass over the head of the loop: -T counts the intervals of ignoreeof.
Top ==
  /\ phase = "top"
  /\ LET counts == polling /\ ~wasaction /\ setup.total IN
     /\ phase' = IF (eof[1] > 1 /\ eof[2] > 1) \/ (counts /\ left = 0)
                 THEN "end" ELSE "arm"
     /\ left' = IF counts /\ left > 0 THEN left - 1 ELSE left
  /\ wasaction' = (wasaction /\ ~polling)
  /\ timed' = (polling \/ setup.total \/ closing >= 1)
  /\ closing' = IF closing >= 1 THEN 2 ELSE closing
  /\ UNCHANGED <<setup, streamVars, mayrd, maywr, polling, bytes, shut, peerVars, dataVars>>

\* Mutant of LeftNothing: a dead child is at EOF whatever it left.
LeftNothingUnread(s) == Readable(s) /\ setup.child[s] /\ ~pid[s]

\* childleftdata: a terminated child with nothing left to read is at EOF.
LeftNothing(s) ==
  Readable(s) /\ setup.child[s] /\ ~pid[s] /\ (eof[s] >= 2 \/ ~HasInput(s))

\* The start of the poll loop, also after EINTR.
Arm ==
  /\ phase = "arm"
  /\ eof' = [s \in Sides |-> IF LeftNothing(s) THEN 2 ELSE eof[s]]
  /\ LET ends == closing >= 1 \/ \E s \in Sides : LeftNothing(s) IN
     /\ closing' = IF ends THEN 2 ELSE closing
     /\ timed' = (timed \/ ends)
  /\ phase' = "poll"
  /\ UNCHANGED <<setup, ignoreeof, actbytes, actescape, pid, mayrd, maywr, polling,
                 wasaction, left, bytes, shut, peerVars, dataVars>>

\* The descriptors that go into fds[4].
Wanted(s) == Readable(s) /\ ~(eof[s] > 1 /\ ~ignoreeof[s])
PollsIn(s) == Wanted(s) /\ ~mayrd[s] /\ eof[s] <= 1
PollsOut(s) == Wanted(Other(s)) /\ ~maywr[s]

InReady(s) == PollsIn(s) /\ HasInput(s)
OutReady(s) == PollsOut(s) /\ HasRoom(s)
SomeReady == \E s \in Sides : InReady(s) \/ OutReady(s)

PollReturns ==
  /\ phase = "poll" /\ SomeReady
  /\ mayrd' = [s \in Sides |-> mayrd[s] \/ InReady(s)]
  /\ maywr' = [s \in Sides |-> maywr[s] \/ OutReady(s)]
  /\ bytes' = [s \in Sides |-> -1]
  /\ phase' = "transfer1"
  /\ UNCHANGED <<setup, streamVars, closing, polling, wasaction, left, timed, shut,
                 peerVars, dataVars>>

\* Prompt peers read before a timer runs out.
TimeoutPossible ==
  timed /\ ~SomeReady
        /\ (setup.peer = "prompt" => \A s \in Sides : PollsOut(s) => ~stalled[s])

\* Mutant of PollTimesOut: an ignored EOF is never polled for again.
PollTimesOutOnce ==
  /\ phase = "poll" /\ TimeoutPossible
  /\ polling' = (polling /\ wasaction)
  /\ wasaction' = (wasaction /\ ~polling)
  /\ phase' = IF (setup.total /\ ~polling) \/ closing > 0 THEN "end" ELSE "top"
  /\ UNCHANGED <<setup, streamVars, mayrd, maywr, closing, left, timed, bytes, shut,
                 peerVars, dataVars>>

PollTimesOut ==
  /\ phase = "poll" /\ TimeoutPossible
  /\ LET rests == polling /\ ~wasaction IN
     /\ polling' = (polling /\ ~rests)
     /\ mayrd' = [mayrd EXCEPT ![1] = @ /\ ~(rests /\ ignoreeof[1])]
     /\ wasaction' = (wasaction /\ ~polling)
     /\ phase' = IF (setup.total /\ ~polling) \/ closing > 0 THEN "end" ELSE "top"
  /\ UNCHANGED <<setup, streamVars, maywr, closing, left, timed, bytes, shut,
                 peerVars, dataVars>>
-----------------------------------------------------------------------------
(* xiotransfer from side s to the other, and what the loop makes of it. *)

NextPhase(s) == IF s = 1 THEN "transfer2" ELSE "ends"

AtCount(s) == setup.readbytes[s] # 0 /\ actbytes[s] = 0

\* How many bytes read returns: 0 at EOF.
ReadSize(s) ==
  IF AtCount(s) THEN 0
  ELSE LET n == MinOf(BufSize, Unread(s)) IN
       IF setup.readbytes[s] = 0 THEN n ELSE MinOf(n, actbytes[s])

\* The part of a chunk in front of the escape character.
EscapeIn(s, n) == setup.escape[s] \in taken[s] + 1 .. taken[s] + n
Passed(s, n) == IF EscapeIn(s, n) THEN setup.escape[s] - taken[s] - 1 ELSE n

NotBoth(s) ==
  /\ ~(mayrd[s] /\ maywr[Other(s)])
  /\ bytes' = [bytes EXCEPT ![s] = -1]
  /\ phase' = NextPhase(s)
  /\ UNCHANGED <<setup, streamVars, mayrd, maywr, closing, polling, wasaction, left,
                 timed, shut, peerVars, dataVars>>

\* read fails: ECONNRESET is a warning, and the loop goes on to close.
ReadFails(s) ==
  /\ mayrd[s] /\ maywr[Other(s)] /\ reset[s] /\ ~AtCount(s)
  /\ mayrd' = [mayrd EXCEPT ![s] = FALSE]
  /\ eof' = [eof EXCEPT ![s] = 2]
  /\ bytes' = [bytes EXCEPT ![s] = -1]
  /\ closing' = MaxOf(closing, 1)
  /\ phase' = IF OneWay(s) THEN "end" ELSE NextPhase(s)
  /\ UNCHANGED <<setup, ignoreeof, actbytes, actescape, pid, maywr, polling, wasaction,
                 left, timed, shut, peerVars, dataVars>>

\* EOF, by count or from the peer.
ReadsNothing(s) ==
  /\ mayrd[s] /\ maywr[Other(s)]
  /\ AtCount(s) \/ (~reset[s] /\ Unread(s) = 0)
  /\ mayrd' = [mayrd EXCEPT ![s] = FALSE]
  /\ bytes' = [bytes EXCEPT ![s] = 0]
  /\ IF ignoreeof[s] /\ closing = 0
     THEN UNCHANGED <<eof, closing>>
     ELSE eof' = [eof EXCEPT ![s] = 2] /\ closing' = MaxOf(closing, 1)
  /\ phase' = NextPhase(s)
  /\ UNCHANGED <<setup, ignoreeof, actbytes, actescape, pid, maywr, polling, wasaction,
                 left, timed, shut, peerVars, dataVars>>

\* A chunk is read; actbytes counts every byte that was read.
TakeChunk(s, n) ==
  /\ n = ReadSize(s) /\ n > 0 /\ ~reset[s] /\ mayrd[s] /\ maywr[Other(s)]
  /\ taken' = [taken EXCEPT ![s] = @ + n]
  /\ actbytes' = IF setup.readbytes[s] = 0 THEN actbytes ELSE [actbytes EXCEPT ![s] = @ - n]
  /\ actescape' = [actescape EXCEPT ![s] = @ \/ EscapeIn(s, n)]

\* Mutant of Chunk: data that were counted in full are not looked for again.
ChunkIdle(s) ==
  \E n \in 1..BufSize :
    /\ TakeChunk(s, n)
    /\ ~reset[Other(s)] \/ Passed(s, n) = 0
    /\ given' = [given EXCEPT ![s] = @ + Passed(s, n)]
    /\ bytes' = [bytes EXCEPT ![s] = IF EscapeIn(s, n) THEN 0 ELSE n]
    /\ mayrd' = [mayrd EXCEPT ![s] = FALSE]
    /\ IF Passed(s, n) = 0 THEN UNCHANGED <<maywr, wasaction, left>>
       ELSE /\ maywr' = [maywr EXCEPT ![Other(s)] = FALSE]
            /\ wasaction' = TRUE /\ left' = Intervals
    /\ phase' = NextPhase(s)
    /\ UNCHANGED <<setup, eof, ignoreeof, pid, closing, polling, timed, shut, peerVars>>

\* A chunk is written to the other side as a whole (writefull).
Chunk(s) ==
  \E n \in 1..BufSize :
    /\ TakeChunk(s, n)
    /\ ~reset[Other(s)] \/ Passed(s, n) = 0
    /\ given' = [given EXCEPT ![s] = @ + Passed(s, n)]
    /\ bytes' = [bytes EXCEPT ![s] = IF EscapeIn(s, n) THEN 0 ELSE n]
    /\ IF Passed(s, n) = 0
       THEN mayrd' = [mayrd EXCEPT ![s] = FALSE] /\ UNCHANGED <<maywr, wasaction, left>>
       ELSE /\ mayrd' = [mayrd EXCEPT ![s] = setup.readbytes[s] # 0 /\ actbytes'[s] = 0]
            /\ maywr' = [maywr EXCEPT ![Other(s)] = FALSE]
            /\ wasaction' = TRUE /\ left' = Intervals
    /\ phase' = NextPhase(s)
    /\ UNCHANGED <<setup, eof, ignoreeof, pid, closing, polling, timed, shut, peerVars>>

\* EPIPE: an error ends the process unless the address has cool-write; the chunk is lost.
WriteFails(s) ==
  \E n \in 1..BufSize :
    /\ TakeChunk(s, n)
    /\ reset[Other(s)] /\ Passed(s, n) > 0
    /\ mayrd' = [mayrd EXCEPT ![s] = FALSE]
    /\ bytes' = [bytes EXCEPT ![s] = -1]
    /\ closing' = MaxOf(closing, 1)
    /\ phase' = IF ~setup.cool THEN "exit"
                ELSE IF OneWay(s) THEN "end" ELSE NextPhase(s)
    /\ UNCHANGED <<setup, eof, ignoreeof, pid, maywr, polling, wasaction, left, timed,
                   shut, peerVars, given>>

Transfer(s) ==
  /\ phase = IF s = 1 THEN "transfer1" ELSE "transfer2"
  /\ NotBoth(s) \/ ReadFails(s) \/ ReadsNothing(s) \/ Chunk(s) \/ WriteFails(s)
-----------------------------------------------------------------------------
(* The EOFs are handled after both transfers, side 1 first. *)

\* Mutant of AtEof: the death of a child counts as EOF.
AtEofEarly(s) == bytes[s] = 0 \/ eof[s] >= 1

AtEof(s) == bytes[s] = 0 \/ eof[s] >= 2
Ignored(s, c) == ignoreeof[s] /\ ~actescape[s] /\ c = 0

\* The other side is shut down, or the EOF is ignored and polled for again later.
Ends ==
  /\ phase = "ends"
  /\ LET passes1 == AtEof(1) /\ ~Ignored(1, closing)
         closing1 == IF passes1 THEN 1 ELSE closing
         breaks1 == passes1 /\ OneWay(1)
         passes2 == AtEof(2) /\ ~Ignored(2, closing1)
         ends == [s \in Sides |-> IF s = 1 THEN passes1 ELSE passes2]
         ignores == [s \in Sides |-> AtEof(s) /\ ~ends[s]] IN
     IF breaks1
     THEN /\ shut' = [shut EXCEPT ![2] = TRUE]
          /\ eof' = [eof EXCEPT ![1] = 2]
          /\ ignoreeof' = [ignoreeof EXCEPT ![1] = FALSE]
          /\ phase' = "end"
          /\ UNCHANGED <<mayrd, polling, closing>>
     ELSE /\ shut' = [s \in Sides |-> shut[s] \/ ends[Other(s)]]
          /\ eof' = [s \in Sides |-> IF ends[s] THEN 2 ELSE eof[s]]
          /\ ignoreeof' = [s \in Sides |-> ignoreeof[s] /\ ~ends[s]]
          /\ mayrd' = [s \in Sides |-> mayrd[s] \/ ignores[s]]
          /\ LET polling1 == ignores[1] \/ (polling /\ (AtEof(1) \/ ~ignoreeof[1])) IN
             polling' = (ignores[2] \/ (polling1 /\ (AtEof(2) \/ ~ignoreeof[2])))
          /\ closing' = IF passes1 \/ passes2 THEN 1 ELSE closing
          /\ phase' = IF passes2 /\ OneWay(2) THEN "end" ELSE "top"
  /\ UNCHANGED <<setup, actbytes, actescape, pid, maywr, wasaction, left, timed, bytes,
                 peerVars, dataVars>>
-----------------------------------------------------------------------------
(* SIGCHLD, and the peers. *)

\* childdied and socat_sigchild.  The channel stays open when another process
\* has it.  A signal just before poll does not interrupt it.
ChildDies(s) ==
  /\ pid[s] /\ phase \notin {"end", "exit"}
  /\ pid' = [pid EXCEPT ![s] = FALSE]
  /\ IF ignoreeof[s] /\ closing = 0
     THEN UNCHANGED <<eof, closing>>
     ELSE eof' = [eof EXCEPT ![s] = MaxOf(@, 1)] /\ closing' = 1
  /\ \E f \in BOOLEAN : finished' = [finished EXCEPT ![s] = @ \/ f]
  /\ phase' \in (IF phase = "poll" THEN {"poll", "arm"} ELSE {phase})
  /\ UNCHANGED <<setup, ignoreeof, actbytes, actescape, mayrd, maywr, polling, wasaction,
                 left, timed, bytes, shut, sent, owed, stalled, reset, dataVars>>

Peer == UNCHANGED <<setup, phase, streamVars, loopVars, shut, dataVars>>

\* A peer sends until its end of the channel is closed, by what a dead child
\* left running, too; a file may grow at any time.
Send(s) ==
  /\ sent[s] < MaxBytes /\ ~finished[s] /\ ~reset[s]
  /\ sent' = [sent EXCEPT ![s] = @ + 1]
  /\ owed' = IF setup.child[s] /\ ~pid[s] THEN owed ELSE [owed EXCEPT ![s] = sent'[s]]
  /\ Peer /\ UNCHANGED <<finished, stalled, reset>>

Finish(s) ==
  /\ ~finished[s] /\ ~reset[s] /\ setup.kind[s] = "socket"
  /\ finished' = [finished EXCEPT ![s] = TRUE]
  /\ Peer /\ UNCHANGED <<sent, owed, stalled, reset>>

Stall(s) ==
  /\ setup.peer # "ready" /\ ~stalled[s] /\ setup.kind[s] = "socket" /\ ~reset[s]
  /\ stalled' = [stalled EXCEPT ![s] = TRUE]
  /\ Peer /\ UNCHANGED <<sent, owed, finished, reset>>

Resume(s) ==
  /\ stalled[s]
  /\ stalled' = [stalled EXCEPT ![s] = FALSE]
  /\ Peer /\ UNCHANGED <<sent, owed, finished, reset>>

Reset(s) ==
  /\ setup.resets /\ ~reset[s] /\ setup.kind[s] = "socket" /\ ~setup.child[s]
  /\ reset' = [reset EXCEPT ![s] = TRUE]
  /\ Peer /\ UNCHANGED <<sent, owed, finished, stalled>>

\* _socat
Loop == Top \/ Arm \/ PollReturns \/ PollTimesOut \/ (\E s \in Sides : Transfer(s)) \/ Ends

Running == phase \notin {"end", "exit"}

Next ==
  \/ Loop
  \/ \E s \in Sides :
       \/ ChildDies(s)
       \/ Running /\ (Send(s) \/ Finish(s) \/ Stall(s) \/ Resume(s) \/ Reset(s))

\* The process runs, poll returns when a descriptor is ready time and again, and
\* a peer that stalls reads on.
Fairness == SF_vars(Loop) /\ \A s \in Sides : WF_vars(Running /\ Resume(s))

Spec == Init /\ [][Next]_vars /\ Fairness
-----------------------------------------------------------------------------
TypeOK ==
  /\ setup \in Setups
  /\ phase \in {"top", "arm", "poll", "transfer1", "transfer2", "ends", "end", "exit"}
  /\ eof \in [Sides -> 0..2] /\ ignoreeof \in [Sides -> BOOLEAN]
  /\ actbytes \in [Sides -> Nat] /\ actescape \in [Sides -> BOOLEAN]
  /\ pid \in [Sides -> BOOLEAN]
  /\ mayrd \in [Sides -> BOOLEAN] /\ maywr \in [Sides -> BOOLEAN]
  /\ closing \in 0..2 /\ polling \in BOOLEAN /\ wasaction \in BOOLEAN
  /\ left \in 0..Intervals /\ timed \in BOOLEAN
  /\ bytes \in [Sides -> Int] /\ shut \in [Sides -> BOOLEAN]
  /\ sent \in [Sides -> 0..MaxBytes]
  /\ owed \in [Sides -> Nat] /\ taken \in [Sides -> Nat] /\ given \in [Sides -> Nat]
  /\ \A s \in Sides :
       owed[s] \in 0..sent[s] /\ taken[s] \in 0..sent[s] /\ given[s] \in 0..taken[s]
  /\ finished \in [Sides -> BOOLEAN] /\ stalled \in [Sides -> BOOLEAN]
  /\ reset \in [Sides -> BOOLEAN]

\* The loop passes an EOF on after the data: when it shuts a side down, what
\* the other side had sent by then has been read, unless the end was one by
\* count, by escape character or by a reset, or a file has grown since.  What
\* others send over the channel of a sub process that is dead does not count:
\* the loop takes a pause for the end (socat.c:693).
PassesEofLast ==
  [][\A s \in Sides :
       shut'[Other(s)] /\ ~shut[Other(s)] =>
         \/ taken[s] >= owed[s]
         \/ AtCount(s) \/ actescape[s] \/ reset[s] \/ setup.kind[s] = "file"]_vars

\* When peers read within the end timeout, the loop leaves nothing behind that
\* it could still have transferred, in any direction it was asked for, unless
\* -T cuts it off or it came after the death of the sub process.
NothingLeftBehind ==
  phase = "end" /\ setup.peer # "slow" /\ setup.mode = "both" /\ ~setup.total =>
    \A s \in Sides :
      \/ given[s] >= owed[s]
      \/ AtCount(s) \/ actescape[s] \/ setup.kind[s] = "file"
      \/ \E t \in Sides : reset[t]

\* After an EOF that is not ignored, or when read-bytes is reached, the loop
\* ends, also when the other peer stays silent.
EofEnds ==
  (\E s \in Sides : /\ finished[s] \/ AtCount(s)
                   /\ Readable(s) /\ ~setup.ignoreeof[s]) ~> ~Running

\* With -T the loop ends when peers fall silent, as these do after MaxBytes.
InactivityEnds == setup.total ~> ~Running

\* What is appended to a file with ignoreeof is read, for the first address.
FollowsFirst == ignoreeof[1] /\ Unread(1) > 0 ~> Unread(1) = 0 \/ ~ignoreeof[1] \/ ~Running

=============================================================================
