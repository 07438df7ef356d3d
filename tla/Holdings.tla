------------------------------ MODULE Holdings ------------------------------
(***************************************************************************)
(* What a socat process holds outside itself: lock files (-L, -W, lockfile,*)
(* waitlock), names it made in the file system and removes again (the link *)
(* of a pty), programs it started and kills.  Several processes use the    *)
(* same files, a server passes what it holds on to the children it forks,  *)
(* and signals end any of them between any two steps.                      *)
(*                                                                         *)
(* A command line is a setup: its items in the order of opening, each of a *)
(* stream (0: the process itself), how many streams each address has (two  *)
(* when it is dual), the stream that listens with fork, if any, and how    *)
(* many items are open before it forks.                                    *)
(***************************************************************************)
EXTENDS Integers, FiniteSets, Sequences

CONSTANTS Masters,   \* processes a user starts
          Kids,      \* bound of the model: processes they fork
          None,
          Setups     \* command lines

Procs == Masters \cup Kids
Kinds == {"main", "lock", "name", "program"}
Locks == {"main", "lock"}

Things == UNION {{s.items[i].thing : i \in DOMAIN s.items} : s \in Setups}
Items == [kind : Kinds, thing : Things, stream : Nat, wait : BOOLEAN]

\* A program is known by who started it.
Programs == Procs \X Things
Owned == Things \cup Programs

\* A stream has room for one lock, one program and one name to remove; the lock of
\* the process (-L, -W) is no stream's.
SetupOK(s) ==
  /\ s.items \in Seq(Items) /\ s.before \in 0 .. Len(s.items)
  /\ s.first \in 1 .. 2 /\ s.second \in 1 .. 2 /\ s.forks \in 0 .. s.first + s.second
  /\ \A i \in DOMAIN s.items : i <= s.before <=> s.items[i].stream <= s.forks
  /\ \A i, j \in DOMAIN s.items :
       i < j => /\ s.items[i].stream <= s.items[j].stream
                /\ s.items[i].thing # s.items[j].thing
                /\ s.items[i].stream = s.items[j].stream => s.items[i].kind # s.items[j].kind
  /\ \A i \in DOMAIN s.items : s.items[i].kind = "main" <=> s.items[i].stream = 0

\* A lock is used for nothing else.
LockThings == UNION {{s.items[i].thing : i \in {i \in DOMAIN s.items : s.items[i].kind \in Locks}} : s \in Setups}

ASSUME HoldingsAssumption ==
  /\ Masters \cap Kids = {} /\ None \notin Procs /\ Things \cap Programs = {}
  /\ \A s \in Setups :
       /\ SetupOK(s)
       /\ \A i \in DOMAIN s.items : s.items[i].thing \in LockThings => s.items[i].kind \in Locks

VARIABLES
  setup,    \* command line of each master
  parent,   \* of each child that was forked
  pc,       \* where a process stands
  done,     \* how many items it has opened
  held,     \* items it will give up: havelock, opt_unlink_close, howtoend
  owner,    \* who made a file or started a program that is still there
  ended,    \* how a process came to its end
  robbed    \* history: things removed by another than their owner

vars == <<setup, parent, pc, done, held, owner, ended, robbed>>

Root(p) == IF p \in Masters THEN p ELSE parent[p]
Line(p) == setup[Root(p)]
Item(p) == Line(p).items[done[p] + 1]
Of(p, i) == Line(p).items[i].kind
Starter(p, i) == IF i <= Line(p).before THEN Root(p) ELSE p
Thing(p, i) ==
  IF Of(p, i) = "program" THEN <<Starter(p, i), Line(p).items[i].thing>>
  ELSE Line(p).items[i].thing

\* Where a process goes when it has opened n items.
Stage(p, n) ==
  CASE p \in Masters /\ Line(p).forks > 0 /\ n = Line(p).before -> "serve"
    [] n = Len(Line(p).items) -> "work"
    [] OTHER -> "open"

Init ==
  /\ setup \in [Masters -> Setups]
  /\ parent = [k \in Kids |-> None]
  /\ done = [p \in Procs |-> 0]
  /\ pc = [p \in Procs |-> IF p \in Masters THEN Stage(p, 0) ELSE "new"]
  /\ held = [p \in Procs |-> {}]
  /\ owner = [t \in Owned |-> None]
  /\ ended = [p \in Procs |-> {}]
  /\ robbed = {}

\* The place of streams in sock[]: the first to be parsed, and the last one of
\* the address in hand; the second stream of a dual first address loses its
\* place when address 2 is parsed.
InHand(p) ==
  LET s == Line(p)
      reached == IF pc[p] \in {"serve", "born"} THEN s.forks
                 ELSE IF done[p] < Len(s.items) THEN Item(p).stream ELSE s.first + 1
  IN  IF reached <= s.first THEN s.first ELSE s.first + s.second
Listed(p) == {i \in DOMAIN Line(p).items : Line(p).items[i].stream \in {1, InHand(p)}}
-----------------------------------------------------------------------------
Goes(p, to) == pc' = [pc EXCEPT ![p] = to]

\* Unlink or kill: whoever owns it.
Remove(p, t) ==
  /\ owner' = [owner EXCEPT ![t] = None]
  /\ robbed' = IF owner[t] \in {None, p} THEN robbed ELSE robbed \cup {t}

\* Error, or a signal: Exit, and the functions registered with atexit.
Marked(p, how) == ended' = [ended EXCEPT ![p] = @ \cup {how}]
Exit(p, how) == Goes(p, "unlock") /\ Marked(p, how)

\* Mutant of Look: -W looks at the file only when there is none.
LookOnce(p) ==
  /\ pc[p] = "open" /\ Item(p).kind = "lock"
  /\ owner[Item(p).thing] = None
  /\ Goes(p, "making")
  /\ UNCHANGED <<setup, parent, done, held, owner, ended, robbed>>

\* xiogetlock: nobody has the file.
Look(p) ==
  /\ pc[p] = "open" /\ Item(p).kind \in Locks
  /\ owner[Item(p).thing] = None
  /\ Goes(p, "making")
  /\ UNCHANGED <<setup, parent, done, held, owner, ended, robbed>>

\* With waitlock the process sleeps and looks again; without, it is an error.
Refuse(p) ==
  /\ pc[p] = "open" /\ Item(p).kind \in Locks
  /\ owner[Item(p).thing] # None /\ ~Item(p).wait
  /\ Exit(p, "exit")
  /\ UNCHANGED <<setup, parent, done, held, owner, robbed>>

\* A pty removes what is in the place of its link.
Clear(p) ==
  /\ pc[p] = "open" /\ Item(p).kind = "name"
  /\ owner' = [owner EXCEPT ![Item(p).thing] = None]
  /\ Goes(p, "making")
  /\ UNCHANGED <<setup, parent, done, held, ended, robbed>>

\* Mutant of Make: rename in place of link.
MakeOver(p) ==
  /\ pc[p] = "making"
  /\ owner' = [owner EXCEPT ![Item(p).thing] = p]
  /\ Goes(p, "made")
  /\ UNCHANGED <<setup, parent, done, held, ended, robbed>>

\* Link or symlink: an error when there is one by now, also with waitlock.  A lock
\* is linked from a temporary file, which is left out: its name is no other
\* process's.  It stays behind when a signal comes before it is unlinked, or link
\* fails, since the error ends the process first (xiolockfile.c:64-65).
Make(p) ==
  /\ pc[p] = "making"
  /\ IF owner[Item(p).thing] = None
     THEN /\ owner' = [owner EXCEPT ![Item(p).thing] = p]
          /\ Goes(p, "made")
          /\ UNCHANGED ended
     ELSE Exit(p, "exit") /\ UNCHANGED owner
  /\ UNCHANGED <<setup, parent, done, held, robbed>>

Opened(p) ==
  /\ held' = [held EXCEPT ![p] = @ \cup {done[p] + 1}]
  /\ done' = [done EXCEPT ![p] = @ + 1]
  /\ Goes(p, Stage(p, done[p] + 1))

\* havelock, or opt_unlink_close; for -L and -W also Atexit(socat_unlock).
Keep(p) ==
  /\ pc[p] = "made"
  /\ Opened(p)
  /\ UNCHANGED <<setup, parent, owner, ended, robbed>>

StartProgram(p) ==
  /\ pc[p] = "open" /\ Item(p).kind = "program"
  /\ owner' = [owner EXCEPT ![Thing(p, done[p] + 1)] = p]
  /\ Opened(p)
  /\ UNCHANGED <<setup, parent, ended, robbed>>
-----------------------------------------------------------------------------
\* The child has all that its parent has ...
Fork(p, k) ==
  /\ pc[p] = "serve" /\ pc[k] = "new"
  /\ parent' = [parent EXCEPT ![k] = p]
  /\ held' = [held EXCEPT ![k] = held[p]]
  /\ done' = [done EXCEPT ![k] = done[p]]
  /\ Goes(k, "born")
  /\ UNCHANGED <<setup, owner, ended, robbed>>

\* A program of the address that listens: sock1 is still NULL when address 1 forks,
\* and address 2 is not looked at.
Shared(k, i) == Line(k).items[i].stream <= Line(k).first <=> Line(k).forks <= Line(k).first

\* Mutant of Dropped: the hook of socat.c is missing.
DroppedOfStreams(k) ==
  {i \in held[k] :
     \/ Of(k, i) = "lock" /\ i \in Listed(k)
     \/ Of(k, i) = "program" /\ ~Shared(k, i)}

\* ... until xio_forked_inchild: the locks of the streams in sock[], the lock
\* of the process, the programs of sock1; names stay.
Dropped(k) ==
  {i \in held[k] :
     \/ Of(k, i) = "lock" /\ i \in Listed(k)
     \/ Of(k, i) = "main"
     \/ Of(k, i) = "program" /\ ~Shared(k, i)}

Adopt(k) ==
  /\ pc[k] = "born"
  /\ held' = [held EXCEPT ![k] = @ \ Dropped(k)]
  /\ Goes(k, Stage(k, done[k]))
  /\ UNCHANGED <<setup, parent, done, owner, ended, robbed>>

\* End of data, or of the connection.
Finish(p) ==
  /\ pc[p] = "work"
  /\ Goes(p, "close")
  /\ Marked(p, "finish")
  /\ UNCHANGED <<setup, parent, done, held, owner, robbed>>

Fail(p) ==
  /\ pc[p] \in {"open", "making", "serve", "work"}
  /\ Exit(p, "exit")
  /\ UNCHANGED <<setup, parent, done, held, owner, robbed>>
-----------------------------------------------------------------------------
\* xioclose1, stream by stream: the program, the lock, the name.
Rank(p, i) ==
  3 * Line(p).items[i].stream
    + (CASE Of(p, i) = "program" -> 0 [] Of(p, i) = "lock" -> 1 [] OTHER -> 2)
First(p, S) == {i \in S : \A j \in S : Rank(p, i) <= Rank(p, j)}
OfStreams(p) == {i \in held[p] : Of(p, i) # "main"}

\* Mutant of Close: the locks stay.
CloseNoUnlock(p) ==
  /\ pc[p] = "close"
  /\ \/ OfStreams(p) = {} /\ Goes(p, "unlock") /\ UNCHANGED <<owner, robbed>>
     \/ \E i \in First(p, OfStreams(p)) :
          /\ IF Of(p, i) = "lock" THEN UNCHANGED <<owner, robbed>> ELSE Remove(p, Thing(p, i))
          /\ Goes(p, "closing")
  /\ UNCHANGED <<setup, parent, done, held, ended>>

Close(p) ==
  /\ pc[p] = "close"
  /\ \/ OfStreams(p) = {} /\ Goes(p, "unlock") /\ UNCHANGED <<owner, robbed>>
     \/ \E i \in First(p, OfStreams(p)) : Remove(p, Thing(p, i)) /\ Goes(p, "closing")
  /\ UNCHANGED <<setup, parent, done, held, ended>>

\* havelock = false, or the tag of the stream is invalid.
Closed(p) ==
  /\ pc[p] = "closing"
  /\ held' = [held EXCEPT ![p] = @ \ First(p, OfStreams(p))]
  /\ Goes(p, "close")
  /\ UNCHANGED <<setup, parent, done, owner, ended, robbed>>

\* socat_unlock, the last function registered, is the first to be called.
ExitUnlock(p) ==
  /\ pc[p] = "unlock"
  /\ \/ held[p] = OfStreams(p) /\ UNCHANGED <<owner, robbed>>
     \/ \E i \in held[p] \ OfStreams(p) : Remove(p, Thing(p, i))
  /\ Goes(p, "exit")
  /\ UNCHANGED <<setup, parent, done, held, ended>>

\* xioexit closes what is in sock[].
Reached(p) == OfStreams(p) \cap Listed(p)

ExitClose(p) ==
  /\ pc[p] = "exit"
  /\ \/ /\ Reached(p) = {}
        /\ Goes(p, "gone")
        /\ held' = [held EXCEPT ![p] = {}]
        /\ UNCHANGED <<owner, robbed>>
     \/ \E i \in First(p, Reached(p)) :
          /\ Remove(p, Thing(p, i))
          /\ held' = [held EXCEPT ![p] = @ \ {i}]
          /\ UNCHANGED pc
  /\ UNCHANGED <<setup, parent, done, ended>>
-----------------------------------------------------------------------------
\* How a signal finds the process: before a lock it has made counts as its own,
\* in a child that still has its parent's things, between the removal of a
\* thing and the note of it, or at any other time.
Found(p) ==
  CASE pc[p] = "made" -> "early"
    [] pc[p] = "born" -> "unready"
    [] pc[p] = "closing" -> "closing"
    [] OTHER -> "exit"

\* socat_signal.
Signal(p) ==
  /\ pc[p] \in {"born", "open", "making", "made", "serve", "work", "close", "closing"}
  /\ Exit(p, Found(p))
  /\ UNCHANGED <<setup, parent, done, held, owner, robbed>>

\* A second signal in a function of atexit: exit goes on with the next one.
SignalAgain(p) ==
  /\ pc[p] \in {"unlock", "exit"}
  /\ Goes(p, IF pc[p] = "unlock" THEN "exit" ELSE "gone")
  /\ held' = [held EXCEPT ![p] = IF pc[p] = "unlock" THEN @ ELSE {}]
  /\ Marked(p, "again")
  /\ UNCHANGED <<setup, parent, done, owner, robbed>>

\* SIGKILL, power.
Crash(p) ==
  /\ pc[p] \notin {"new", "gone"}
  /\ Goes(p, "gone")
  /\ held' = [held EXCEPT ![p] = {}]
  /\ ended' = [ended EXCEPT ![p] = {"killed"}]
  /\ UNCHANGED <<setup, parent, done, owner, robbed>>

Opening(p) == Look(p) \/ Refuse(p) \/ Clear(p) \/ Make(p) \/ Keep(p) \/ StartProgram(p)
Ending(p) == Close(p) \/ Closed(p) \/ ExitUnlock(p) \/ ExitClose(p)
Step(p) == Opening(p) \/ Adopt(p) \/ Ending(p)

Next ==
  \E p \in Procs :
    \/ Step(p)
    \/ \E k \in Kids : Fork(p, k)
    \/ Finish(p) \/ Fail(p)
    \/ Signal(p) \/ SignalAgain(p) \/ Crash(p)

Spec == Init /\ [][Next]_vars

\* Programs run on; what a user or the other end does has no fairness.
Fairness == \A p \in Procs : WF_vars(Step(p))
-----------------------------------------------------------------------------
TypeOK ==
  /\ setup \in [Masters -> Setups]
  /\ parent \in [Kids -> Masters \cup {None}]
  /\ pc \in [Procs -> {"new", "born", "open", "making", "made", "serve", "work",
                       "close", "closing", "unlock", "exit", "gone"}]
  /\ done \in [Procs -> Nat] /\ held \in [Procs -> SUBSET Nat]
  /\ owner \in [Owned -> Procs \cup {None}]
  /\ ended \in [Procs -> SUBSET {"finish", "exit", "early", "unready",
                                 "closing", "again", "killed"}]
  /\ robbed \subseteq Owned

\* What a process has opened itself, in distinction to what it inherited.
Own(p) == IF p \in Masters THEN held[p] ELSE {i \in held[p] : i > Line(p).before}

\* Processes that rely on what they hold.
Active == {p \in Procs : pc[p] \in {"open", "making", "made", "serve", "work", "close"}}
LocksOf(p) == {Thing(p, i) : i \in {i \in Own(p) : Of(p, i) \in Locks}}

\* Two processes never work with the same lock, whichever way they raced for
\* it and whatever ended others, as long as nobody has removed a lock that was
\* another's (xiolockfile.c:22-72, xioclose.c:80-83, socat.c:1477-1487).
OneHolder ==
  \A p, q \in Active : p # q => LocksOf(p) \cap LocksOf(q) \subseteq robbed

\* In a child: the lock of a stream that has no place in sock[], so that
\* xiodroplocks does not see it.
Unlisted(p, t) ==
  \E i \in held[p] : Thing(p, i) = t /\ Of(p, i) = "lock" /\ i \notin Listed(p)

\* "We do not want the program to be killed by the first tcp-l sub process" -
\* xio_nokill sees to that for the first address when the second one forks.
Inherited(p, t) ==
  \E i \in held[p] : /\ Thing(p, i) = t /\ Of(p, i) = "program"
                    /\ i <= Line(p).before /\ Shared(p, i)

\* A name is removed by its path: by the next one that makes it, by a child that
\* closes the first address, and by a process that has given up its locks
\* already and has the name still to close.
ByPath(p, t) ==
  /\ \E i \in DOMAIN Line(p).items : Line(p).items[i].thing = t /\ Of(p, i) = "name"
  /\ pc[p] \in {"open", "close", "exit"}

\* The six ways in which a process can remove a thing of another, and no other:
\* a child ended by a signal before xio_forked_inchild has run; a child that
\* closes what xiodroplocks or xio_nokill forgot; a signal between the removal
\* and the note of it; a name, removed by its path; and what a robbery entails.
\* "It drops the locks of the xiofile's so only the parent owns them"
\* (xioinitialize.c:127-129, 147-153).
OnlyItsOwn ==
  [][\A t \in Owned :
       owner[t] # None /\ owner'[t] = None =>
         \E p \in Procs :
           /\ pc'[p] # pc[p] \/ held'[p] # held[p]
           /\ \/ owner[t] = p
              \/ p \in Kids /\ ("unready" \in ended[p] \/ Unlisted(p, t) \/ Inherited(p, t))
              \/ "closing" \in ended[p] \/ ByPath(p, t) \/ t \in robbed]_vars

\* What is left behind of locks and names: by a process that was killed, that got a signal before
\* the lock it had made counted or a second one while it closed, and the lock
\* or name of a stream that has no place in sock[] after any end but that of
\* the data.  "Unlinks lockfile on exit" (doc/socat.yo:185, 188).
LeavesNothing ==
  \A t \in Things :
    LET p == owner[t]
    IN  p # None /\ pc[p] = "gone" /\ ended[p] \cap {"early", "again", "killed"} = {}
          => /\ ended[p] # {"finish"}
             /\ \E i \in DOMAIN Line(p).items : Line(p).items[i].thing = t /\ i \notin Listed(p)

Waiting(p) == pc[p] = "open" /\ Item(p).kind \in Locks
Busy(p) == pc[p] \in {"serve", "work"}
Leftover == \E t \in Things : owner[t] # None /\ pc[owner[t]] = "gone"

\* When those that hold a lock end one day, and none is left behind, who waits
\* for it gets out, with the lock or an error (xiolockfile.c:80-90).
WaitEnds ==
  [](~Leftover) /\ (\A p \in Procs : []<>~Busy(p)) => \A p \in Procs : []<>~Waiting(p)
=============================================================================
