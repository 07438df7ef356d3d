-------------------------------- MODULE Serve --------------------------------
(***************************************************************************)
(* The servers of socat that fork a process per client: the accept loop of *)
(* a listening address (xio-listen.c), the loop of UDP-LISTEN that connects *)
(* a fresh socket back to the sender (xio-udp.c), and the loop of RECVFROM *)
(* that waits until the child has read its packet (xio-socket.c), with     *)
(* their signal handlers (xiosigchld.c, xio-socket.c) and the count of     *)
(* children (xioinitialize.c).                                             *)
(*                                                                         *)
(* Connections and packets are numbered as they arrive.  A signal is       *)
(* delivered between any two steps of the parent unless it is blocked.     *)
(***************************************************************************)
EXTENDS Integers, Sequences, FiniteSets

CONSTANTS
  Setups,   \* servers, options and clients to be started with
  MaxItems, \* bound of the model: connections or packets that arrive
  MaxKids   \* bound of the model: forks

ASSUME ServeAssumption ==
  /\ MaxItems \in Nat /\ MaxKids \in Nat
  /\ \A u \in Setups :
       /\ u.server \in {"listen", "udp", "recvfrom"}
       /\ u.maxchildren \in Nat    \* 0: no limit; only listening addresses take one
       /\ u.maxchildren > 0 => u.server = "listen"
       /\ u.fails \in Nat          \* system calls that fail
       /\ u.retry \in Nat
       /\ u.empties \in BOOLEAN    \* empty packets arrive, too
       /\ u.stay \in BOOLEAN       \* a child may stay as long as it likes
       /\ u.refuses \in BOOLEAN    \* range does not permit peer 3

VARIABLES
  setup,
  pc, cur,       \* where the parent stands, the item it looks at
  masked, chld, usr1,   \* blocked signals; CHLD pending, sender of the pending USR1
  num_child, waiting, hashappened,   \* xio_waitingfor is waiting
  kids,          \* of every child: st, item, queue, connected
  items,         \* the peer of every item that arrived, and whether it is empty
  queue,         \* what waits at the socket of the parent
  readBy, dropped,   \* who read an item; packets a process read and dropped
  held,          \* accepted connections that the parent has open
  lost,          \* items lost with their socket
  fails, retry

signalVars == <<masked, chld, usr1>>
countVars == <<num_child, waiting, hashappened>>
itemVars == <<items, queue, readBy, dropped, held, lost>>
vars == <<setup, pc, cur, signalVars, countVars, kids, itemVars, fails, retry>>

Peers == 1..3
Kids == 1..MaxKids
Items == 1..Len(items)
None == [st |-> "none", item |-> 0, queue |-> <<>>, connected |-> FALSE]

Is(s) == setup.server = s
Live(k) == kids[k].st \in {"born", "ready", "done"}
Unreaped == {k \in Kids : Live(k) \/ kids[k].st = "zombie"}
Elements(s) == {s[i] : i \in DOMAIN s}

\* xiocheckpeer
Permitted(i) == ~(setup.refuses /\ items[i].peer = 3)

First == IF Is("listen") THEN "accept" ELSE IF Is("udp") THEN "open" ELSE "poll"

Init ==
  /\ setup \in Setups
  /\ pc = First /\ cur = 0
  /\ masked = FALSE /\ chld = FALSE /\ usr1 = 0
  /\ num_child = 0 /\ waiting = 0 /\ hashappened = FALSE
  /\ kids = [k \in Kids |-> None]
  /\ items = <<>> /\ queue = <<>>
  /\ readBy = {} /\ dropped = {} /\ held = {} /\ lost = {}
  /\ fails = setup.fails /\ retry = setup.retry
-----------------------------------------------------------------------------
(* The parent. *)

ParentOnly == UNCHANGED <<setup, chld, usr1, items>>

\* Accept returns a connection, or poll finds a packet; it is peeked at.
Get ==
  /\ pc \in {"accept", "poll"} /\ queue # <<>>
  /\ cur' = Head(queue)
  /\ IF Is("listen") THEN queue' = Tail(queue) /\ held' = held \cup {Head(queue)}
     ELSE UNCHANGED <<queue, held>>
  /\ pc' = "check"
  /\ UNCHANGED <<masked, countVars, kids, readBy, dropped, lost, fails, retry>>
  /\ ParentOnly

\* UDP-LISTEN makes a socket for every round.
Open ==
  /\ pc = "open"
  /\ pc' = "poll"
  /\ UNCHANGED <<cur, masked, countVars, kids, queue, readBy, dropped, held, lost,
                 fails, retry>>
  /\ ParentOnly

\* A connection that is not permitted is shut down but not closed; a packet is
\* read and dropped, and with UDP-LISTEN the socket with all that waits at it.
Refuse ==
  /\ pc = "check" /\ ~Permitted(cur)
  /\ pc' = First
  /\ IF Is("listen") THEN UNCHANGED <<queue, lost>>
     ELSE IF Is("udp") THEN queue' = <<>> /\ lost' = lost \cup Elements(Tail(queue))
     ELSE queue' = Tail(queue) /\ UNCHANGED lost
  /\ UNCHANGED <<cur, masked, countVars, kids, readBy, dropped, held, fails, retry>>
  /\ ParentOnly

Permit ==
  /\ pc = "check" /\ Permitted(cur)
  /\ pc' = "fork"
  /\ masked' = ~Is("udp")
  /\ UNCHANGED <<cur, countVars, kids, queue, readBy, dropped, held, lost, fails,
                 retry>>
  /\ ParentOnly

\* The child of UDP-LISTEN gets the socket and all that waits at it.
Fork ==
  /\ pc = "fork"
  /\ \E k \in Kids :
       /\ kids[k].st = "none" /\ \A j \in 1..k - 1 : kids[j].st # "none"
       /\ kids' = [kids EXCEPT ![k] =
            [None EXCEPT !.st = "born", !.item = cur,
                         !.queue = IF Is("udp") THEN queue ELSE <<>>]]
  /\ queue' = IF Is("udp") THEN <<>> ELSE queue
  /\ pc' = "count"
  /\ UNCHANGED <<cur, masked, countVars, readBy, dropped, held, lost, fails, retry>>
  /\ ParentOnly

\* A system call fails: fork, accept, the poll or look for a packet, the socket
\* of a round of UDP-LISTEN.  The socket is closed with all that waits at it.  A
\* listening server with retry starts anew, and still has the connection it could not
\* fork for; without retry, and in the other servers, the error ends the process.
CallFails ==
  /\ pc \in {"accept", "poll", "open", "fork"} /\ fails > 0
  /\ fails' = fails - 1
  /\ lost' = lost \cup Elements(queue) /\ queue' = <<>>
  /\ masked' = FALSE
  /\ IF Is("listen") /\ retry > 0
     THEN retry' = retry - 1 /\ pc' = "accept" /\ UNCHANGED held
     ELSE pc' = "exit" /\ held' = {} /\ UNCHANGED retry
  /\ UNCHANGED <<cur, countVars, kids, readBy, dropped>>
  /\ ParentOnly

\* The end of xio_fork in the parent.
Count ==
  /\ pc = "count"
  /\ num_child' = num_child + 1
  /\ pc' = "unmask"
  /\ UNCHANGED <<cur, masked, waiting, hashappened, kids, queue, readBy, dropped, held,
                 lost, fails, retry>>
  /\ ParentOnly

Newest == CHOOSE k \in Kids : kids[k].st # "none" /\ \A j \in Kids : j > k => kids[j].st = "none"

\* The parent closes its copy of the connection or socket and unblocks the signals.
Unmask ==
  /\ pc = "unmask"
  /\ held' = held \ {cur}
  /\ waiting' = IF Is("recvfrom") THEN Newest ELSE waiting
  /\ masked' = FALSE
  /\ pc' = CASE Is("listen") -> "full" [] Is("udp") -> "open" [] OTHER -> "test"
  /\ UNCHANGED <<cur, num_child, hashappened, kids, queue, readBy, dropped, lost,
                 fails, retry>>
  /\ ParentOnly

Room == num_child < setup.maxchildren

\* The loop over max-children tests, then sleeps; a signal in between is no signal.
Full ==
  /\ pc = "full"
  /\ pc' = IF setup.maxchildren = 0 \/ Room THEN "accept" ELSE "rest"
  /\ UNCHANGED <<cur, masked, countVars, kids, queue, readBy, dropped, held, lost,
                 fails, retry>>
  /\ ParentOnly

\* The loop until the child has read its packet.
Test ==
  /\ pc = "test"
  /\ pc' = IF hashappened THEN "clear" ELSE "rest"
  /\ UNCHANGED <<cur, masked, countVars, kids, queue, readBy, dropped, held, lost,
                 fails, retry>>
  /\ ParentOnly

Rest ==
  /\ pc = "rest"
  /\ pc' = "sleep"
  /\ UNCHANGED <<cur, masked, countVars, kids, queue, readBy, dropped, held, lost, fails,
                 retry>>
  /\ ParentOnly

\* Mutant of Clear: the flag is cleared while the signals of the child still count.
ClearFlag ==
  /\ pc \in {"clear", "flag"}
  /\ IF pc = "clear" THEN hashappened' = FALSE /\ pc' = "flag" /\ UNCHANGED waiting
     ELSE waiting' = 0 /\ pc' = First /\ UNCHANGED hashappened
  /\ UNCHANGED <<cur, masked, num_child, kids, queue, readBy, dropped, held, lost,
                 fails, retry>>
  /\ ParentOnly

\* First the child can no longer set the flag, then it is cleared.
Clear ==
  /\ pc \in {"clear", "flag"}
  /\ IF pc = "clear" THEN waiting' = 0 /\ pc' = "flag" /\ UNCHANGED hashappened
     ELSE hashappened' = FALSE /\ pc' = First /\ UNCHANGED waiting
  /\ UNCHANGED <<cur, masked, num_child, kids, queue, readBy, dropped, held, lost,
                 fails, retry>>
  /\ ParentOnly

Parent ==
  \/ Get \/ Open \/ Refuse \/ Permit \/ Fork \/ CallFails
  \/ Count \/ Unmask \/ Full \/ Test \/ Rest \/ Clear
-----------------------------------------------------------------------------
(* Signals. *)

Zombies == {k \in Kids : kids[k].st = "zombie"}
Reap(z) == kids' = [k \in Kids |-> IF k \in z THEN [None EXCEPT !.st = "gone", !.item = kids[k].item]
                                   ELSE kids[k]]

\* Sleep returns on any signal.
Wake == pc' = IF pc = "sleep" THEN (IF Is("listen") THEN "full" ELSE "test") ELSE pc

\* Mutant of Less: the count of children goes down once per signal.
LessOnce(n) == IF num_child > 0 THEN num_child - 1 ELSE 0

Less(n) == IF num_child > n THEN num_child - n ELSE 0

\* Mutant of Chld: the end of the child that is waited for does not end the wait.
ChldUnseen ==
  /\ chld /\ ~masked /\ pc # "exit"
  /\ chld' = FALSE
  /\ Reap(Zombies)
  /\ num_child' = IF Is("recvfrom") THEN num_child ELSE Less(Cardinality(Zombies))
  /\ Wake
  /\ UNCHANGED <<setup, cur, masked, usr1, waiting, hashappened, itemVars, fails, retry>>

\* SIGCHLD: childdied, or xiosigaction_hasread, which stops at the child it
\* waits for and does not count.
Chld ==
  /\ chld /\ ~masked /\ pc # "exit"
  /\ chld' = FALSE
  /\ IF Is("recvfrom")
     THEN /\ IF waiting \in Zombies
             THEN hashappened' = TRUE /\ \E z \in SUBSET Zombies : waiting \in z /\ Reap(z)
             ELSE Reap(Zombies) /\ UNCHANGED hashappened
          /\ UNCHANGED num_child
     ELSE /\ Reap(Zombies) /\ num_child' = Less(Cardinality(Zombies))
          /\ UNCHANGED hashappened
  /\ Wake
  /\ UNCHANGED <<setup, cur, masked, usr1, waiting, itemVars, fails, retry>>

\* SIGUSR1 says that a child has consumed its packet.
Usr1 ==
  /\ usr1 # 0 /\ ~masked /\ pc # "exit"
  /\ usr1' = 0
  /\ hashappened' = (hashappened \/ usr1 = waiting)
  /\ Wake
  /\ UNCHANGED <<setup, cur, masked, chld, num_child, waiting, kids, itemVars, fails, retry>>
-----------------------------------------------------------------------------
(* The children. *)

ChildOnly == UNCHANGED <<setup, pc, cur, masked, countVars, items, held, fails, retry>>

\* A child opens its second address; that of UDP-LISTEN connects its socket first.
Ready(k) ==
  /\ kids[k].st = "born"
  /\ kids' = [kids EXCEPT ![k].st = "ready", ![k].connected = Is("udp")]
  /\ UNCHANGED <<chld, usr1, queue, readBy, dropped, lost>> /\ ChildOnly

\* xioread checks who sent the packet.
OfPeer(k, i) == items[i].peer = items[kids[k].item].peer

\* The child of RECVFROM reads from the socket it shares with its parent; an
\* empty packet and one of another peer leave it waiting for the next.
ReadShared(k) ==
  /\ kids[k].st = "ready" /\ Is("recvfrom") /\ queue # <<>>
  /\ queue' = Tail(queue)
  /\ IF items[Head(queue)].empty \/ ~OfPeer(k, Head(queue))
     THEN dropped' = dropped \cup {Head(queue)} /\ UNCHANGED <<kids, usr1, readBy>>
     ELSE /\ kids' = [kids EXCEPT ![k].st = "done"]
          /\ readBy' = readBy \cup {<<Head(queue), k>>}
          /\ usr1' = IF usr1 = 0 THEN k ELSE usr1
          /\ UNCHANGED dropped
  /\ UNCHANGED <<chld, lost>> /\ ChildOnly

\* The child of UDP-LISTEN reads whatever waits at its own socket.
ReadOwn(k) ==
  /\ kids[k].st = "ready" /\ Is("udp") /\ kids[k].queue # <<>>
  /\ readBy' = readBy \cup {<<Head(kids[k].queue), k>>}
  /\ kids' = [kids EXCEPT ![k].queue = Tail(@)]
  /\ UNCHANGED <<chld, usr1, queue, dropped, lost>> /\ ChildOnly

\* A child ends: after its work, or because its second address fails.
Exit(k) ==
  /\ kids[k].st = "done" \/ (kids[k].st \in {"born", "ready"} /\ setup.stay)
     \/ (kids[k].st = "ready" /\ Is("listen"))
  /\ kids' = [kids EXCEPT ![k].st = "zombie", ![k].queue = <<>>, ![k].connected = FALSE]
  /\ lost' = lost \cup Elements(kids[k].queue)
  /\ chld' = TRUE
  /\ UNCHANGED <<usr1, queue, readBy, dropped>> /\ ChildOnly
-----------------------------------------------------------------------------
(* The clients. *)

\* The sockets that get a packet of a peer: the one connected to it, or any that
\* is bound to the port.  Sockets of children are their numbers, 0 is the parent's.
Targets(p) ==
  IF ~Is("udp") THEN {0}
  ELSE LET own == {k \in Kids : Live(k) /\ kids[k].connected /\ items[kids[k].item].peer = p} IN
       IF own # {} THEN own
       ELSE {k \in Kids : Live(k) /\ ~kids[k].connected}
            \cup (IF pc \in {"poll", "check", "fork"} THEN {0} ELSE {})

Arrive(p, e) ==
  /\ Len(items) < MaxItems /\ pc # "exit"
  /\ e => setup.empties
  /\ items' = Append(items, [peer |-> p, empty |-> e])
  /\ LET i == Len(items) + 1 IN
     IF Targets(p) = {} THEN lost' = lost \cup {i} /\ UNCHANGED <<queue, kids>>
     ELSE \E t \in Targets(p) :
            /\ queue' = IF t = 0 THEN Append(queue, i) ELSE queue
            /\ kids' = IF t = 0 THEN kids ELSE [kids EXCEPT ![t].queue = Append(@, i)]
            /\ UNCHANGED lost
  /\ UNCHANGED <<setup, pc, cur, signalVars, countVars, readBy, dropped, held, fails,
                 retry>>

Child(k) == Ready(k) \/ ReadShared(k) \/ ReadOwn(k)

Next ==
  \/ Parent \/ Chld \/ Usr1
  \/ \E k \in Kids : Child(k) \/ Exit(k)
  \/ \E p \in Peers, e \in BOOLEAN : Arrive(p, e)

\* Processes run and signals are delivered.  Children that stay need not end.
Fairness ==
  /\ WF_vars(Parent) /\ WF_vars(Chld \/ Usr1)
  /\ \A k \in Kids : WF_vars(Child(k)) /\ WF_vars(kids[k].st = "done" /\ Exit(k))

Spec == Init /\ [][Next]_vars /\ Fairness

\* Every client comes to its end.
LeavingSpec == Spec /\ \A k \in Kids : WF_vars(Exit(k))
-----------------------------------------------------------------------------
TypeOK ==
  /\ pc \in {"accept", "open", "poll", "check", "fork", "count", "unmask", "full", "test",
             "rest", "sleep", "clear", "flag", "exit"}
  /\ cur \in 0..Len(items) /\ masked \in BOOLEAN /\ chld \in BOOLEAN /\ usr1 \in 0..MaxKids
  /\ num_child \in 0..MaxKids /\ waiting \in 0..MaxKids /\ hashappened \in BOOLEAN
  /\ \A k \in Kids : kids[k].st \in {"none", "born", "ready", "done", "zombie", "gone"}
  /\ Elements(queue) \subseteq Items /\ held \subseteq Items /\ lost \subseteq Items

\* With max-children there are never more children than that, and the count of
\* the listening server is right whenever no signal is on its way: no place is
\* lost for good, and none counted twice.
CountIsRight ==
  /\ setup.maxchildren > 0 => Cardinality(Unreaped) <= setup.maxchildren
  /\ Is("listen") /\ ~chld /\ ~masked /\ pc # "exit" => num_child = Cardinality(Unreaped)

\* One packet is one child's, as long as packets are not empty: a child reads the
\* packet it was forked for, no second child is forked for it while the first one
\* lives, and no packet of a permitted peer is read by a child that drops it.
OwnPacket ==
  Is("recvfrom") /\ ~setup.empties =>
    /\ \A r \in readBy : kids[r[2]].item = r[1]
    /\ \A j, k \in Kids : Live(j) /\ Live(k) /\ kids[j].item = kids[k].item => j = k
    /\ dropped = {}

\* The server sleeps although what it sleeps for has happened: the signal came between
\* its test and its sleep (xio-listen.c:332-334, xio-socket.c:1430-1431).
Overslept == pc = "sleep" /\ (IF Is("listen") THEN Room ELSE hashappened)

\* As many children live as max-children allows.
NoPlace ==
  setup.maxchildren > 0 /\ Cardinality({k \in Kids : Live(k)}) >= setup.maxchildren

\* What waits at the socket of a server does not wait for ever: it is taken, or lost
\* with the socket, whatever children end without their work, clients are refused and
\* calls fail, while there are children left to fork.  The two exceptions
\* are a signal lost between test and sleep, which RECVFROM risks as a server with
\* max-children does, and children that stay and fill max-children.
ServesOn ==
  \A i \in 1..MaxItems :
    i \in Elements(queue) ~>
      \/ i \notin Elements(queue) \/ kids[MaxKids].st # "none"
      \/ Overslept \/ NoPlace

\* A server with max-children whose clients come to their end serves on without
\* exceptions, as the manual promises.
KeepsListening ==
  \A i \in 1..MaxItems :
    (i \in Elements(queue) /\ Is("listen")) ~> (i \notin Elements(queue) \/ kids[MaxKids].st # "none")

=============================================================================
