---------------------------- MODULE Serve_proofs ----------------------------
(***************************************************************************)
(* For any number of children, connections, packets and failures:          *)
(*  - a server never has more children than max-children, and counts them  *)
(*    rightly.  CountInv adds to CountIsRight what makes it inductive: the *)
(*    one child that is not counted yet while signals are blocked, and the *)
(*    room for it that was seen before the server went to accept;          *)
(*  - a packet of RECVFROM is one child's.  PacketInv says where packets,  *)
(*    children and the flag of the parent stand at every step of the loop. *)
(***************************************************************************)
EXTENDS Serve, FiniteSetTheorems, TLAPS

\* Every child has a state.
KidsKnown ==
  /\ DOMAIN kids = Kids
  /\ \A k \in Kids : DOMAIN kids[k] = {"st", "item", "queue", "connected"}

Uncounted == IF pc = "count" THEN 1 ELSE 0

\* What the listening server knows of its children.
Counts ==
  /\ pc \in {"accept", "check", "fork", "count", "unmask", "full", "rest", "sleep", "exit"}
  /\ pc \in {"fork", "count", "unmask"} => masked
  /\ num_child + Uncounted = Cardinality(Unreaped)
  /\ setup.maxchildren > 0 =>
       /\ Cardinality(Unreaped) <= setup.maxchildren
       /\ pc \in {"accept", "check", "fork"} => Cardinality(Unreaped) < setup.maxchildren

CountInv ==
  /\ setup \in Setups
  /\ KidsKnown
  /\ num_child \in Nat
  /\ Is("listen") => Counts
-----------------------------------------------------------------------------
LEMMA UnreapedFinite ==
  /\ IsFiniteSet(Unreaped) /\ Cardinality(Unreaped) \in Nat
  /\ IsFiniteSet(Zombies) /\ Cardinality(Zombies) \in Nat
  <1>1. IsFiniteSet(Kids)
    BY FS_Interval, ServeAssumption DEF Kids
  <1>2. Unreaped \subseteq Kids /\ Zombies \subseteq Kids
    BY DEF Unreaped, Zombies
  <1> QED
    BY <1>1, <1>2, FS_Subset, FS_CardinalityType

\* A step that leaves who is there as it was, and the count with its place.
LEMMA CountsStay ==
  ASSUME CountInv, Unreaped' = Unreaped, KidsKnown', UNCHANGED <<setup, num_child>>,
         Is("listen") =>
           /\ pc' \in {"accept", "check", "fork", "full", "rest", "sleep", "exit"}
           /\ pc # "count" /\ (pc' = "fork" => masked')
           /\ pc' \in {"accept", "check", "fork"} /\ setup.maxchildren > 0 =>
                \/ pc \in {"accept", "check", "fork"}
                \/ Room
  PROVE  CountInv'
  <1> USE DEF CountInv, Is
  <1>1. CASE setup.server = "listen"
    <2>1. Cardinality(Unreaped) \in Nat /\ setup.maxchildren \in Nat
      BY UnreapedFinite, ServeAssumption
    <2>2. num_child = Cardinality(Unreaped)
      BY <1>1, <2>1 DEF Counts, Uncounted
    <2>3. num_child' + Uncounted' = Cardinality(Unreaped)'
      BY <1>1, <2>1, <2>2 DEF Uncounted
    <2>4. setup.maxchildren > 0 =>
            /\ Cardinality(Unreaped) <= setup.maxchildren
            /\ pc' \in {"accept", "check", "fork"} => Cardinality(Unreaped) < setup.maxchildren
      BY <1>1, <2>1, <2>2 DEF Counts, Room
    <2>5. Counts'
      BY <1>1, <2>3, <2>4 DEF Counts
    <2> QED BY <2>5
  <1>2. CASE setup.server # "listen"
    BY <1>2
  <1> QED BY <1>1, <1>2

\* The steps that touch neither the children nor the count.
LEMMA ParentKeeps ==
  ASSUME CountInv, Get \/ Open \/ Refuse \/ Permit \/ CallFails \/ Full \/ Test \/ Rest \/ Clear
  PROVE  CountInv'
  <1>1. kids' = kids /\ num_child' = num_child /\ setup' = setup
    BY DEF Get, Open, Refuse, Permit, CallFails, Full, Test, Rest, Clear, ParentOnly, countVars
  <1>2. Unreaped' = Unreaped /\ KidsKnown'
    BY <1>1 DEF Unreaped, Live, KidsKnown, CountInv
  <1>3. ASSUME Is("listen")
        PROVE  /\ pc' \in {"accept", "check", "fork", "full", "rest", "sleep", "exit"}
               /\ pc # "count" /\ (pc' = "fork" => masked')
               /\ pc' \in {"accept", "check", "fork"} /\ setup.maxchildren > 0 =>
                    pc \in {"accept", "check", "fork"} \/ Room
    <2>1. Counts /\ setup.server = "listen"
      BY <1>3 DEF CountInv, Is
    <2>2. CASE Get
      BY <2>1, <2>2 DEF Get, Counts
    <2>3. CASE Permit
      <3>1. ~Is("udp")
        BY <2>1 DEF Is
      <3>2. masked' = (~Is("udp")) /\ pc = "check" /\ pc' = "fork"
        BY <2>3 DEF Permit
      <3>3. masked'
        BY <3>1, <3>2, Zenon
      <3> QED BY <3>2, <3>3
    <2>4. CASE Refuse
      BY <2>1, <2>4 DEF Refuse, First, Is
    <2>7. CASE CallFails
      <3>1. pc \in {"accept", "fork"} /\ pc' \in {"accept", "exit"}
        BY <2>1, <2>7 DEF CallFails, Counts
      <3> QED BY <3>1
    <2>5. CASE Full \/ Rest
      BY <2>1, <2>5, ServeAssumption DEF Full, Rest, CountInv
    <2>6. CASE Open \/ Test \/ Clear
      BY <2>1, <2>6 DEF Open, Test, Clear, Counts
    <2> QED BY <2>2, <2>3, <2>4, <2>5, <2>6, <2>7
  <1> QED BY <1>1, <1>2, <1>3, CountsStay

\* A child more, which is not counted yet.
LEMMA ForkKeeps ==
  ASSUME CountInv, Fork
  PROVE  CountInv'
  <1>1. PICK k \in Kids :
          /\ kids[k].st = "none"
          /\ kids' = [kids EXCEPT ![k] =
               [None EXCEPT !.st = "born", !.item = cur,
                            !.queue = IF Is("udp") THEN queue ELSE <<>>]]
    BY DEF Fork
  <1>2. /\ pc = "fork" /\ pc' = "count"
        /\ UNCHANGED <<setup, masked, num_child>>
    BY DEF Fork, ParentOnly, countVars
  <1>3. /\ DOMAIN kids' = Kids
        /\ \A j \in Kids : j # k => kids'[j] = kids[j]
        /\ kids'[k].st = "born" /\ DOMAIN kids'[k] = {"st", "item", "queue", "connected"}
    BY <1>1 DEF CountInv, KidsKnown, None
  <1>4. Unreaped' = Unreaped \cup {k} /\ k \notin Unreaped
    BY <1>1, <1>3 DEF Unreaped, Live
  <1>5. Cardinality(Unreaped)' = Cardinality(Unreaped) + 1 /\ Cardinality(Unreaped) \in Nat
    BY <1>4, UnreapedFinite, FS_AddElement
  <1>6. KidsKnown'
    BY <1>3 DEF CountInv, KidsKnown
  <1>7. ASSUME Is("listen") PROVE Counts'
    <2>1. num_child = Cardinality(Unreaped) /\ masked
      BY <1>2, <1>7, <1>5 DEF CountInv, Counts, Uncounted
    <2> QED BY <1>2, <1>5, <1>7, <2>1, ServeAssumption DEF CountInv, Counts, Uncounted
  <1> QED BY <1>2, <1>6, <1>7 DEF CountInv, Is

\* The parent counts the new child, and lets signals through.
LEMMA CountedKeeps ==
  ASSUME CountInv, Count \/ Unmask
  PROVE  CountInv'
  <1>1. kids' = kids /\ setup' = setup
    BY DEF Count, Unmask, ParentOnly
  <1>2. Unreaped' = Unreaped /\ KidsKnown'
    BY <1>1 DEF Unreaped, Live, KidsKnown, CountInv
  <1>3. CASE Count
    <2>1. pc = "count" /\ pc' = "unmask" /\ num_child' = num_child + 1 /\ masked' = masked
      BY <1>3 DEF Count
    <2>2. Is("listen") => Counts'
      BY <1>1, <1>2, <2>1, UnreapedFinite DEF CountInv, Counts, Uncounted
    <2> QED BY <1>1, <1>2, <2>1, <2>2 DEF CountInv, Is
  <1>4. CASE Unmask
    <2>1. num_child' = num_child
      BY <1>4 DEF Unmask
    <2>2. Is("listen") => pc = "unmask" /\ pc' = "full"
      BY <1>4 DEF Unmask, Is
    <2> QED BY <1>1, <1>2, <2>1, <2>2, CountsStay
  <1> QED BY <1>3, <1>4
-----------------------------------------------------------------------------
\* A child that goes on, that ends, or that a packet arrives for is still there.
LEMMA KidKeeps ==
  ASSUME CountInv, pc' = pc, UNCHANGED <<setup, masked, num_child>>, KidsKnown',
         Unreaped' = Unreaped
  PROVE  CountInv'
  BY DEF CountInv, Counts, Uncounted, Is

LEMMA KidThere ==
  ASSUME CountInv, NEW k \in Kids, kids[k].st \in {"born", "ready", "done", "zombie"},
         DOMAIN kids' = Kids, \A j \in Kids : j # k => kids'[j] = kids[j],
         kids'[k].st \in {"born", "ready", "done", "zombie"},
         DOMAIN kids'[k] = DOMAIN kids[k]
  PROVE  Unreaped' = Unreaped /\ KidsKnown'
  <1>1. \A j \in Kids : j \in Unreaped' <=> j \in Unreaped
    BY DEF Unreaped, Live
  <1>2. Unreaped' = Unreaped
    BY <1>1 DEF Unreaped
  <1>3. KidsKnown'
    BY DEF KidsKnown, CountInv
  <1> QED BY <1>2, <1>3

LEMMA ChildKeeps ==
  ASSUME CountInv, NEW k \in Kids, Child(k) \/ Exit(k)
  PROVE  CountInv'
  <1>1. pc' = pc /\ UNCHANGED <<setup, masked, num_child>>
    BY DEF Child, Exit, Ready, ReadShared, ReadOwn, ChildOnly, countVars
  <1>2. DOMAIN kids = Kids /\ DOMAIN kids[k] = {"st", "item", "queue", "connected"}
    BY DEF CountInv, KidsKnown
  <1>3. CASE kids' = kids
    <2>1. Unreaped' = Unreaped /\ KidsKnown'
      BY <1>3 DEF CountInv, KidsKnown, Unreaped, Live
    <2> QED BY <1>1, <2>1, KidKeeps
  <1>4. CASE kids' # kids
    <2>1. /\ kids[k].st \in {"born", "ready", "done"}
          /\ \/ kids' = [kids EXCEPT ![k].st = "ready", ![k].connected = Is("udp")]
             \/ kids' = [kids EXCEPT ![k].st = "done"]
             \/ kids' = [kids EXCEPT ![k].queue = Tail(@)]
             \/ kids' = [kids EXCEPT ![k].st = "zombie", ![k].queue = <<>>,
                                     ![k].connected = FALSE]
      BY <1>4 DEF Child, Exit, Ready, ReadShared, ReadOwn
    <2>2. /\ DOMAIN kids' = Kids
          /\ \A j \in Kids : j # k => kids'[j] = kids[j]
          /\ kids'[k].st \in {"born", "ready", "done", "zombie"}
          /\ DOMAIN kids'[k] = DOMAIN kids[k]
      BY <1>2, <2>1
    <2>3. Unreaped' = Unreaped /\ KidsKnown'
      BY <2>1, <2>2, KidThere
    <2> QED BY <1>1, <2>3, KidKeeps
  <1> QED BY <1>3, <1>4

\* A packet can arrive at the socket of a child.
LEMMA ArriveKeeps ==
  ASSUME CountInv, NEW p \in Peers, NEW e \in BOOLEAN, Arrive(p, e)
  PROVE  CountInv'
  <1>1. pc' = pc /\ UNCHANGED <<setup, masked, num_child>>
    BY DEF Arrive, signalVars, countVars
  <1>2. CASE kids' = kids
    <2>1. Unreaped' = Unreaped /\ KidsKnown'
      BY <1>2 DEF CountInv, KidsKnown, Unreaped, Live
    <2> QED BY <1>1, <2>1, KidKeeps
  <1>3. CASE kids' # kids
    <2>1. PICK t \in Targets(p) :
            t # 0 /\ kids' = [kids EXCEPT ![t].queue = Append(@, Len(items) + 1)]
      BY <1>3 DEF Arrive
    <2>2. t \in Kids /\ Live(t)
      BY <2>1 DEF Targets
    <2>3. DOMAIN kids = Kids /\ DOMAIN kids[t] = {"st", "item", "queue", "connected"}
      BY <2>2 DEF CountInv, KidsKnown
    <2>4. /\ DOMAIN kids' = Kids
          /\ \A j \in Kids : j # t => kids'[j] = kids[j]
          /\ kids'[t].st = kids[t].st
          /\ DOMAIN kids'[t] = DOMAIN kids[t]
      BY <2>1, <2>2, <2>3
    <2>5. kids[t].st \in {"born", "ready", "done", "zombie"}
      BY <2>2 DEF Live
    <2>6. Unreaped' = Unreaped /\ KidsKnown'
      BY <2>2, <2>4, <2>5, KidThere
    <2> QED BY <1>1, <2>6, KidKeeps
  <1> QED BY <1>2, <1>3

\* The handler takes away all the children that have ended, however many signals they
\* sent.
LEMMA ChldKeeps ==
  ASSUME CountInv, Chld
  PROVE  CountInv'
  <1>1. setup' = setup /\ masked' = masked /\ ~masked /\ pc' \in {pc, "full", "test"}
    BY DEF Chld, Wake
  <1>2. ASSUME NEW z \in SUBSET Zombies, Reap(z)
        PROVE  KidsKnown' /\ Unreaped' = Unreaped \ z
    <2>1. DOMAIN kids' = Kids
      BY <1>2 DEF Reap
    <2>2. \A k \in z : kids'[k].st = "gone" /\ DOMAIN kids'[k] = {"st", "item", "queue", "connected"}
      BY <1>2 DEF Reap, None, Zombies
    <2>3. \A k \in Kids \ z : kids'[k] = kids[k]
      BY <1>2 DEF Reap
    <2>4. KidsKnown'
      BY <2>1, <2>2, <2>3 DEF KidsKnown, CountInv
    <2>5. \A k \in Kids : k \in Unreaped' <=> k \in Unreaped /\ k \notin z
      BY <2>2, <2>3 DEF Unreaped, Live
    <2>6. Unreaped' = Unreaped \ z
      BY <2>5 DEF Unreaped
    <2> QED BY <2>4, <2>6
  <1>3. CASE Is("recvfrom")
    <2>1. KidsKnown' /\ num_child' = num_child
      BY <1>2, <1>3 DEF Chld
    <2> QED BY <1>1, <1>3, <2>1 DEF CountInv, Is
  <1>4. CASE ~Is("recvfrom")
    <2>1. Reap(Zombies) /\ num_child' = Less(Cardinality(Zombies))
      BY <1>4 DEF Chld
    <2>2. KidsKnown' /\ Unreaped' = Unreaped \ Zombies
      BY <1>2, <2>1
    <2>3. Cardinality(Zombies) \in Nat /\ Cardinality(Unreaped) \in Nat
      BY UnreapedFinite
    <2>4. num_child' \in Nat
      BY <2>1, <2>3 DEF Less, CountInv
    <2>5. ASSUME Is("listen") PROVE Counts'
      <3>1. Zombies \subseteq Unreaped
        BY DEF Zombies, Unreaped
      <3>2. Cardinality(Unreaped)' = Cardinality(Unreaped) - Cardinality(Zombies)
        <4>1. Unreaped \cap Zombies = Zombies
          BY <3>1
        <4>2. Cardinality(Unreaped \ Zombies) = Cardinality(Unreaped) - Cardinality(Unreaped \cap Zombies)
          BY UnreapedFinite, FS_Difference
        <4> QED BY <2>2, <4>1, <4>2
      <3>3. Cardinality(Zombies) <= Cardinality(Unreaped)
        BY <3>1, UnreapedFinite, FS_Subset
      <3>4. Counts /\ pc # "count" /\ num_child = Cardinality(Unreaped)
        BY <1>1, <2>3, <2>5 DEF CountInv, Counts, Uncounted
      <3>5. num_child' = Cardinality(Unreaped)'
        BY <2>1, <2>3, <3>2, <3>3, <3>4 DEF Less
      <3>6. pc' \in {"accept", "check", "full", "rest", "exit"}
            /\ (pc' \in {"accept", "check"} => pc' = pc)
        BY <1>1, <2>5, <3>4 DEF Chld, Wake, Counts
      <3> QED
        BY <1>1, <2>3, <3>2, <3>3, <3>4, <3>5, <3>6, ServeAssumption
        DEF CountInv, Counts, Uncounted
    <2> QED BY <1>1, <2>2, <2>4, <2>5 DEF CountInv, Is
  <1> QED BY <1>3, <1>4

LEMMA Usr1Keeps ==
  ASSUME CountInv, Usr1
  PROVE  CountInv'
  <1>1. kids' = kids /\ ~masked /\ UNCHANGED <<setup, masked, num_child>>
    BY DEF Usr1
  <1>2. Unreaped' = Unreaped /\ KidsKnown'
    BY <1>1 DEF Unreaped, Live, KidsKnown, CountInv
  <1>3. Is("listen") => Counts /\ pc' = IF pc = "sleep" THEN "full" ELSE pc
    BY DEF Usr1, Wake, CountInv
  <1> QED BY <1>1, <1>2, <1>3, CountsStay DEF Counts
-----------------------------------------------------------------------------
LEMMA CountInit == Init => CountInv
  <1> SUFFICES ASSUME Init PROVE CountInv
    OBVIOUS
  <1>1. KidsKnown /\ Unreaped = {}
    BY DEF Init, KidsKnown, None, Unreaped, Live
  <1>2. Cardinality(Unreaped) = 0
    BY <1>1, FS_EmptySet
  <1>3. setup \in Setups /\ num_child = 0
    BY DEF Init
  <1>4. Is("listen") => pc = "accept"
    BY DEF Init, First
  <1>5. Is("listen") => Counts
    BY <1>2, <1>3, <1>4, ServeAssumption DEF Counts, Uncounted
  <1> QED BY <1>1, <1>3, <1>5 DEF CountInv

LEMMA CountStep == CountInv /\ [Next]_vars => CountInv'
  <1> SUFFICES ASSUME CountInv, [Next]_vars PROVE CountInv'
    OBVIOUS
  <1>1. CASE Parent
    BY <1>1, ParentKeeps, ForkKeeps, CountedKeeps DEF Parent
  <1>2. CASE Chld
    BY <1>2, ChldKeeps
  <1>3. CASE Usr1
    BY <1>3, Usr1Keeps
  <1>4. CASE \E k \in Kids : Child(k) \/ Exit(k)
    BY <1>4, ChildKeeps
  <1>5. CASE \E p \in Peers, e \in BOOLEAN : Arrive(p, e)
    BY <1>5, ArriveKeeps
  <1>6. CASE UNCHANGED vars
    <2>1. pc' = pc /\ kids' = kids /\ UNCHANGED <<setup, masked, num_child>>
      BY <1>6 DEF vars, signalVars, countVars
    <2>2. Unreaped' = Unreaped /\ KidsKnown'
      BY <2>1 DEF Unreaped, Live, KidsKnown, CountInv
    <2> QED BY <2>1, <2>2, KidKeeps
  <1> QED BY <1>1, <1>2, <1>3, <1>4, <1>5, <1>6 DEF Next

LEMMA CountInvHolds == Spec => []CountInv
  <1> QED BY CountInit, CountStep, PTL DEF Spec

\* max-children is never exceeded, and no place for a child is lost or counted twice,
\* whatever the limit (_xioopen_listen, xio_fork, childdied).
THEOREM ChildrenCounted == Spec => []CountIsRight
  <1>1. CountInv => CountIsRight
    <2> SUFFICES ASSUME CountInv PROVE CountIsRight
      OBVIOUS
    <2>1. setup.maxchildren > 0 => Is("listen")
      BY ServeAssumption DEF CountInv, Is
    <2>2. Is("listen") /\ ~masked => num_child = Cardinality(Unreaped)
      BY UnreapedFinite DEF CountInv, Counts, Uncounted
    <2> QED BY <2>1, <2>2 DEF CountIsRight, CountInv, Counts
  <1> QED BY <1>1, CountInvHolds, PTL
-----------------------------------------------------------------------------
(* RECVFROM: one packet is one child's. *)

Pending(k) == kids[k].st \in {"born", "ready"}

Filled == [peer : Peers, empty : {FALSE}]

\* What waits at the socket: every packet once, and none of them empty.
Packets ==
  /\ items \in Seq(Filled)
  /\ queue \in Seq(Nat)
  /\ \A i \in DOMAIN queue : queue[i] \in 1..Len(items)
  /\ \A i, j \in DOMAIN queue : queue[i] = queue[j] => i = j

\* What the children have to do with it: a child that has yet to read finds its packet
\* first, one that lives on has its packet out of the way.
Owners ==
  /\ \A k \in Kids : kids[k].item \in 0..Len(items)
  /\ \A j, k \in Kids : j < k /\ kids[k].st # "none" => kids[j].st # "none"
  /\ \A k \in Kids : Pending(k) => queue # <<>> /\ queue[1] = kids[k].item
  /\ \A k \in Kids : kids[k].st = "done" => \A i \in DOMAIN queue : queue[i] # kids[k].item
  /\ \A j, k \in Kids : Live(j) /\ Live(k) /\ kids[j].item = kids[k].item => j = k
  /\ \A r \in readBy : r[2] \in Kids /\ kids[r[2]].item = r[1]
                        /\ kids[r[2]].st \in {"done", "zombie", "gone"}
  /\ dropped = {}

\* What the parent knows of the child it waits for: its flag is not up while that child
\* has yet to read, and no signal of an earlier child can raise it.
Waits ==
  /\ pc \in {"poll", "check", "fork", "count", "unmask", "test", "rest", "sleep", "clear", "flag",
            "exit"}
  /\ pc \in {"check", "fork"} => queue # <<>> /\ queue[1] = cur
  /\ \A k \in Kids : Pending(k) =>
       /\ pc \in {"count", "unmask", "test", "rest", "sleep"}
       /\ pc \in {"count", "unmask"} => \A j \in Kids : j > k => kids[j].st = "none"
       /\ pc \in {"test", "rest", "sleep"} => waiting = k /\ ~hashappened
  /\ pc \in {"poll", "check", "fork", "count", "unmask"} => waiting = 0 /\ ~hashappened
  /\ pc = "flag" => waiting = 0
  /\ hashappened \in BOOLEAN
  /\ usr1 # 0 => usr1 \in Kids /\ kids[usr1].st \in {"done", "zombie", "gone"}

PacketParts == Packets /\ Owners /\ Waits
PacketInv == Is("recvfrom") /\ ~setup.empties => PacketParts

\* The first of them is taken away.
LEMMA TailOfPackets ==
  ASSUME NEW q \in Seq(Nat), q # <<>>
  PROVE  /\ Tail(q) \in Seq(Nat) /\ DOMAIN Tail(q) = 1..Len(q) - 1 /\ 1 \in DOMAIN q
         /\ \A i \in DOMAIN Tail(q) : i + 1 \in DOMAIN q /\ Tail(q)[i] = q[i + 1]
  OBVIOUS

LEMMA PacketsTaken ==
  ASSUME Packets, queue # <<>>, queue' = Tail(queue), items' = items
  PROVE  Packets'
  <1>1. /\ queue' \in Seq(Nat) /\ DOMAIN queue' = 1..Len(queue) - 1 /\ Len(queue) \in Nat
        /\ \A i \in DOMAIN queue' : i + 1 \in DOMAIN queue /\ queue'[i] = queue[i + 1]
    BY TailOfPackets DEF Packets
  <1>2. \A i \in DOMAIN queue' : queue'[i] \in 1..Len(items)
    BY <1>1 DEF Packets
  <1>3. \A i, j \in DOMAIN queue' : queue'[i] = queue'[j] => i = j
    <2>1. \A i, j \in DOMAIN queue' : queue[i + 1] = queue[j + 1] => i + 1 = j + 1
      BY <1>1 DEF Packets
    <2> QED BY <1>1, <2>1
  <1> QED BY <1>1, <1>2, <1>3 DEF Packets

\* The parent goes on: it looks at the first packet, waits, or clears its flag.
LEMMA PacketsAtParent ==
  ASSUME KidsKnown, Is("recvfrom"), PacketParts,
         Get \/ Open \/ Permit \/ Count \/ Full \/ Test \/ Rest \/ Clear
  PROVE  PacketParts'
  <1>1. UNCHANGED <<kids, items, queue, readBy, dropped, usr1>>
    BY DEF Get, Open, Permit, Count, Full, Test, Rest, Clear, ParentOnly, Is
  <1>2. Packets'
    BY <1>1 DEF PacketParts, Packets
  <1>3. Owners'
    BY <1>1 DEF PacketParts, Owners, Pending, Live
  <1>4. Waits'
    <2>1. CASE Get
      BY <1>1, <2>1 DEF PacketParts, Packets, Waits, Get, Pending, Is, countVars
    <2>2. CASE Permit \/ Count
      BY <1>1, <2>2 DEF PacketParts, Waits, Permit, Count, Pending, Is, countVars
    <2>3. CASE Test \/ Rest
      BY <1>1, <2>3 DEF PacketParts, Waits, Test, Rest, Pending, Is, countVars
    <2>4. CASE Clear
      BY <1>1, <2>4 DEF PacketParts, Waits, Clear, Pending, Is, First
    <2>5. CASE Open \/ Full
      BY <2>5 DEF PacketParts, Waits, Open, Full, Is
    <2> QED BY <2>1, <2>2, <2>3, <2>4, <2>5
  <1> QED BY <1>2, <1>3, <1>4 DEF PacketParts

\* The parent ends when no child has yet to read; what waits at its socket is lost.
LEMMA PacketsLost ==
  ASSUME Is("recvfrom"), PacketParts, CallFails
  PROVE  PacketParts'
  <1>1. /\ pc \in {"poll", "fork"} /\ pc' = "exit" /\ queue' = <<>>
        /\ UNCHANGED <<kids, items, readBy, dropped, usr1, waiting, hashappened>>
    BY DEF CallFails, ParentOnly, Is, countVars, PacketParts, Waits
  <1>2. \A k \in Kids : ~Pending(k)
    BY <1>1 DEF PacketParts, Waits
  <1>3. Packets'
    BY <1>1 DEF PacketParts, Packets
  <1>4. Owners'
    BY <1>1, <1>2 DEF PacketParts, Owners, Pending, Live
  <1>5. Waits'
    BY <1>1, <1>2 DEF PacketParts, Waits, Pending
  <1> QED BY <1>3, <1>4, <1>5 DEF PacketParts

\* A packet that is not permitted is no child's.
LEMMA PacketsRefused ==
  ASSUME KidsKnown, Is("recvfrom"), PacketParts, Refuse
  PROVE  PacketParts'
  <1>1. /\ pc = "check" /\ pc' = "poll" /\ queue # <<>> /\ queue' = Tail(queue)
        /\ UNCHANGED <<kids, items, readBy, dropped, usr1, waiting, hashappened, cur>>
    <2>1. /\ pc = "check" /\ pc' = First /\ queue' = Tail(queue)
          /\ UNCHANGED <<kids, items, readBy, dropped, usr1, waiting, hashappened, cur>>
      BY DEF Refuse, ParentOnly, Is, countVars
    <2>2. First = "poll"
      BY DEF First, Is
    <2>3. queue # <<>>
      BY <2>1 DEF PacketParts, Waits
    <2> QED BY <2>1, <2>2, <2>3
  <1>2. /\ queue' \in Seq(Nat) /\ DOMAIN queue' = 1..Len(queue) - 1
        /\ \A i \in DOMAIN queue' : i + 1 \in DOMAIN queue /\ queue'[i] = queue[i + 1]
    <2>1. queue \in Seq(Nat)
      BY DEF PacketParts, Packets
    <2> QED BY <1>1, <2>1, TailOfPackets
  <1>3. Packets'
    BY <1>1, PacketsTaken DEF PacketParts
  <1>4. Owners'
    BY <1>1, <1>2 DEF PacketParts, Owners, Waits, Pending, Live
  <1>5. Waits'
    BY <1>1 DEF PacketParts, Waits, Pending
  <1> QED BY <1>3, <1>4, <1>5 DEF PacketParts

\* A child is forked for the first packet, which is nobody's.
LEMMA PacketsForked ==
  ASSUME KidsKnown, KidsKnown', MaxKids \in Nat, Is("recvfrom"), PacketParts, Fork
  PROVE  PacketParts'
  <1>1. PICK k \in Kids :
          /\ kids[k].st = "none" /\ \A j \in 1..k - 1 : kids[j].st # "none"
          /\ kids' = [kids EXCEPT ![k] =
               [None EXCEPT !.st = "born", !.item = cur,
                            !.queue = IF Is("udp") THEN queue ELSE <<>>]]
    BY DEF Fork
  <1>2. /\ pc = "fork" /\ pc' = "count"
        /\ UNCHANGED <<items, queue, readBy, dropped, usr1, waiting, hashappened, cur>>
    BY DEF Fork, ParentOnly, Is, countVars
  <1>3. /\ \A j \in Kids : j # k => kids'[j] = kids[j]
        /\ kids'[k].st = "born" /\ kids'[k].item = cur
    BY <1>1 DEF KidsKnown, None
  <1>4. queue # <<>> /\ queue[1] = cur /\ 1 \in DOMAIN queue /\ cur \in 1..Len(items)
    BY <1>2 DEF PacketParts, Packets, Waits
  <1>5. \A j \in Kids : ~Pending(j) /\ (Live(j) => kids[j].st = "done" /\ kids[j].item # cur)
    BY <1>2, <1>4 DEF PacketParts, Owners, Waits, Pending, Live
  <1>6. \A j \in Kids : j > k => kids[j].st = "none"
    BY <1>1 DEF PacketParts, Owners
  <1>7. Packets'
    BY <1>2 DEF PacketParts, Packets
  <1>8. Owners'
    <2>1. /\ \A j \in Kids : kids'[j].item \in 0..Len(items')
          /\ \A r \in readBy' : r[2] \in Kids /\ kids'[r[2]].item = r[1]
                                  /\ kids'[r[2]].st \in {"done", "zombie", "gone"}
          /\ dropped' = {}
      BY <1>1, <1>2, <1>3, <1>4 DEF PacketParts, Owners
    <2>2. \A i, j \in Kids : i < j /\ kids'[j].st # "none" => kids'[i].st # "none"
      BY <1>1, <1>3, <1>6 DEF PacketParts, Owners, Kids
    <2>3. \A j \in Kids :
            /\ Pending(j)' => queue' # <<>> /\ queue'[1] = kids'[j].item
            /\ kids'[j].st = "done" => \A i \in DOMAIN queue' : queue'[i] # kids'[j].item
      BY <1>2, <1>3, <1>4, <1>5 DEF PacketParts, Owners, Pending
    <2>4. \A i, j \in Kids : Live(i)' /\ Live(j)' /\ kids'[i].item = kids'[j].item => i = j
      BY <1>3, <1>5 DEF PacketParts, Owners, Live
    <2> QED BY <2>1, <2>2, <2>3, <2>4 DEF Owners
  <1>9. Waits'
    <2>1. \A j \in Kids : Pending(j)' => j = k
      BY <1>3, <1>5 DEF Pending
    <2>2. usr1' # 0 => usr1' \in Kids /\ kids'[usr1'].st \in {"done", "zombie", "gone"}
      BY <1>1, <1>2, <1>3 DEF PacketParts, Waits
    <2>3. \A j \in Kids : j > k => kids'[j].st = "none"
      BY <1>3, <1>6 DEF Kids
    <2> QED BY <1>2, <2>1, <2>2, <2>3 DEF PacketParts, Waits
  <1> QED BY <1>7, <1>8, <1>9 DEF PacketParts

\* The parent now waits for the child it has just forked.
LEMMA PacketsAwaited ==
  ASSUME KidsKnown, MaxKids \in Nat, Is("recvfrom"), PacketParts, Unmask
  PROVE  PacketParts'
  <1>1. /\ pc = "unmask" /\ pc' = "test" /\ waiting' = Newest
        /\ UNCHANGED <<kids, items, queue, readBy, dropped, usr1, hashappened>>
    BY DEF Unmask, ParentOnly, Is
  <1>2. ASSUME NEW k \in Kids, Pending(k) PROVE k = Newest
    <2>1. kids[k].st # "none" /\ \A j \in Kids : j > k => kids[j].st = "none"
      BY <1>1, <1>2 DEF PacketParts, Waits, Pending
    <2>2. Newest \in Kids /\ kids[Newest].st # "none"
          /\ \A j \in Kids : j > Newest => kids[j].st = "none"
      BY <2>1 DEF Newest
    <2> QED BY <2>1, <2>2 DEF Kids
  <1>3. Packets'
    BY <1>1 DEF PacketParts, Packets
  <1>4. Owners'
    BY <1>1 DEF PacketParts, Owners, Pending, Live
  <1>5. Waits'
    BY <1>1, <1>2 DEF PacketParts, Waits, Pending
  <1> QED BY <1>3, <1>4, <1>5 DEF PacketParts
-----------------------------------------------------------------------------
\* The handlers: children that have ended go away, and the flag goes up for none that has
\* yet to read.
LEMMA PacketsSignalled ==
  ASSUME KidsKnown, MaxKids \in Nat, Is("recvfrom"), PacketParts, Chld \/ Usr1
  PROVE  PacketParts'
  <1>1. /\ UNCHANGED <<items, queue, readBy, dropped, waiting, cur>>
        /\ pc' = IF pc = "sleep" THEN "test" ELSE pc
    BY DEF Chld, Usr1, Wake, Is, itemVars
  <1>2. PICK z \in SUBSET Zombies : kids' = kids \/ Reap(z)
    BY DEF Chld, Usr1, Is
  <1>3. \A k \in Kids :
          /\ kids'[k].item = kids[k].item
          /\ \/ kids'[k].st = kids[k].st
             \/ kids[k].st = "zombie" /\ kids'[k].st = "gone"
    <2>1. CASE kids' = kids
      BY <2>1
    <2>2. CASE Reap(z)
      <3>1. \A k \in z : kids[k].st = "zombie" /\ kids'[k].st = "gone" /\ kids'[k].item = kids[k].item
        BY <2>2 DEF Reap, None, Zombies
      <3>2. \A k \in Kids \ z : kids'[k] = kids[k]
        BY <2>2 DEF Reap
      <3> QED BY <3>1, <3>2
    <2> QED BY <1>2, <2>1, <2>2
  <1>4. Packets'
    BY <1>1 DEF PacketParts, Packets
  <1>5. Owners'
    BY <1>1, <1>3 DEF PacketParts, Owners, Pending, Live
  <1>6. usr1' # 0 => usr1' \in Kids /\ kids[usr1'].st \in {"done", "zombie", "gone"}
    BY DEF Chld, Usr1, PacketParts, Waits
  <1>7. /\ hashappened' \in BOOLEAN
        /\ \/ hashappened' = hashappened
           \/ waiting \in Kids /\ kids[waiting].st \in {"done", "zombie", "gone"}
    <2>1. CASE Chld
      BY <2>1 DEF Chld, Zombies, PacketParts, Waits
    <2>2. CASE Usr1
      BY <2>2 DEF Usr1, PacketParts, Waits
    <2> QED BY <2>1, <2>2
  <1>8. 0 \notin Kids
    BY DEF Kids
  <1>9. Waits'
    BY <1>1, <1>3, <1>6, <1>7, <1>8 DEF PacketParts, Waits, Pending
  <1> QED BY <1>4, <1>5, <1>9 DEF PacketParts

\* A child reads the packet it was forked for.
LEMMA PacketsRead ==
  ASSUME KidsKnown, MaxKids \in Nat, Is("recvfrom"), PacketParts, NEW k \in Kids, ReadShared(k)
  PROVE  PacketParts'
  <1>1. /\ Pending(k) /\ queue # <<>> /\ queue[1] = kids[k].item /\ Head(queue) = queue[1]
        /\ queue[1] \in 1..Len(items) /\ ~items[queue[1]].empty
        /\ \A j \in Kids : Pending(j) => j = k
    <2>1. Pending(k) /\ queue # <<>>
      BY DEF ReadShared, Pending
    <2>2. queue[1] = kids[k].item
      BY <2>1 DEF PacketParts, Owners
    <2>3. 1 \in DOMAIN queue /\ Head(queue) = queue[1]
      BY <2>1 DEF PacketParts, Packets
    <2>4. queue[1] \in 1..Len(items)
      BY <2>3 DEF PacketParts, Packets
    <2>5. items[queue[1]] \in Filled
      BY <2>4 DEF PacketParts, Packets
    <2>6. ~items[queue[1]].empty
      BY <2>5 DEF Filled
    <2>7. \A j \in Kids : Pending(j) => j = k
      BY <2>1 DEF PacketParts, Owners, Pending, Live
    <2> QED BY <2>1, <2>2, <2>3, <2>4, <2>6, <2>7
  <1>2. /\ kids' = [kids EXCEPT ![k].st = "done"]
        /\ readBy' = readBy \cup {<<Head(queue), k>>} /\ usr1' \in {usr1, k} /\ dropped' = dropped
        /\ queue' = Tail(queue) /\ UNCHANGED <<items, pc, cur, waiting, hashappened>>
    <2>1. ~(items[Head(queue)].empty \/ ~OfPeer(k, Head(queue)))
      BY <1>1 DEF OfPeer
    <2> QED BY <2>1 DEF ReadShared, ChildOnly, countVars
  <1>3. /\ \A j \in Kids : j # k => kids'[j] = kids[j]
        /\ kids'[k].st = "done" /\ kids'[k].item = kids[k].item
    BY <1>2 DEF KidsKnown
  <1>4. /\ queue' \in Seq(Nat) /\ DOMAIN queue' = 1..Len(queue) - 1
        /\ \A i \in DOMAIN queue' : i + 1 \in DOMAIN queue /\ queue'[i] = queue[i + 1]
        /\ \A i \in DOMAIN queue' : queue'[i] # queue[1]
    <2>1. queue \in Seq(Nat) /\ \A i, j \in DOMAIN queue : queue[i] = queue[j] => i = j
      BY DEF PacketParts, Packets
    <2>2. /\ queue' \in Seq(Nat) /\ DOMAIN queue' = 1..Len(queue) - 1 /\ 1 \in DOMAIN queue
          /\ \A i \in DOMAIN queue' : i + 1 \in DOMAIN queue /\ queue'[i] = queue[i + 1]
      BY <1>1, <1>2, <2>1, TailOfPackets
    <2>3. \A i \in DOMAIN queue' : i + 1 # 1
      BY <2>2
    <2> QED BY <2>1, <2>2, <2>3
  <1>5. Packets'
    BY <1>1, <1>2, PacketsTaken DEF PacketParts
  <1>6. Owners'
    <2>1. /\ \A j \in Kids : kids'[j].item \in 0..Len(items')
          /\ \A i, j \in Kids : i < j /\ kids'[j].st # "none" => kids'[i].st # "none"
          /\ dropped' = {}
      BY <1>1, <1>2, <1>3 DEF PacketParts, Owners, Pending
    <2>2. \A j \in Kids :
            /\ ~Pending(j)'
            /\ kids'[j].st = "done" => \A i \in DOMAIN queue' : queue'[i] # kids'[j].item
      BY <1>1, <1>3, <1>4 DEF PacketParts, Owners, Pending
    <2>3. \A i, j \in Kids : Live(i)' /\ Live(j)' /\ kids'[i].item = kids'[j].item => i = j
      BY <1>1, <1>3 DEF PacketParts, Owners, Live, Pending
    <2>4. \A r \in readBy' : r[2] \in Kids /\ kids'[r[2]].item = r[1]
                             /\ kids'[r[2]].st \in {"done", "zombie", "gone"}
      BY <1>1, <1>2, <1>3 DEF PacketParts, Owners
    <2> QED BY <2>1, <2>2, <2>3, <2>4 DEF Owners
  <1>7. Waits'
    BY <1>1, <1>2, <1>3 DEF PacketParts, Waits, Pending
  <1> QED BY <1>5, <1>6, <1>7 DEF PacketParts

\* A child that goes on or ends leaves the packets alone.
LEMMA PacketsAtChild ==
  ASSUME KidsKnown, MaxKids \in Nat, Is("recvfrom"), PacketParts, NEW k \in Kids,
         Ready(k) \/ ReadOwn(k) \/ Exit(k)
  PROVE  PacketParts'
  <1>1. UNCHANGED <<items, queue, readBy, dropped, usr1, pc, cur, waiting, hashappened>>
    BY DEF Ready, ReadOwn, Exit, ChildOnly, countVars, Is
  <1>2. /\ \A j \in Kids : j # k => kids'[j] = kids[j]
        /\ kids'[k].item = kids[k].item
        /\ \/ kids[k].st = "born" /\ kids'[k].st = "ready"
           \/ kids[k].st \in {"born", "ready", "done"} /\ kids'[k].st = "zombie"
    BY DEF Ready, ReadOwn, Exit, KidsKnown, Is
  <1>3. Packets'
    BY <1>1 DEF PacketParts, Packets
  <1>4. Owners'
    BY <1>1, <1>2 DEF PacketParts, Owners, Pending, Live
  <1>5. Waits'
    BY <1>1, <1>2 DEF PacketParts, Waits, Pending
  <1> QED BY <1>3, <1>4, <1>5 DEF PacketParts

\* A packet that arrives is new, and waits behind the others.
LEMMA PacketsArrive ==
  ASSUME KidsKnown, MaxKids \in Nat, Is("recvfrom"), ~setup.empties, PacketParts,
         NEW p \in Peers, NEW e \in BOOLEAN, Arrive(p, e)
  PROVE  PacketParts'
  <1>1. /\ e = FALSE /\ items' = Append(items, [peer |-> p, empty |-> e])
        /\ queue' = Append(queue, Len(items) + 1)
        /\ UNCHANGED <<kids, pc, cur, readBy, dropped, usr1, waiting, hashappened>>
    BY DEF Arrive, Targets, Is, signalVars, countVars
  <1>2. /\ items' \in Seq(Filled) /\ Len(items') = Len(items) + 1
        /\ Len(items) \in Nat
    <2>1. [peer |-> p, empty |-> e] \in Filled
      BY <1>1 DEF Filled
    <2> QED BY <1>1, <2>1 DEF PacketParts, Packets
  <1>3. /\ queue' \in Seq(Nat) /\ DOMAIN queue' = 1..Len(queue) + 1 /\ Len(queue) \in Nat
        /\ \A i \in DOMAIN queue : i \in DOMAIN queue' /\ queue'[i] = queue[i]
        /\ queue'[Len(queue) + 1] = Len(items) + 1
        /\ queue' # <<>> /\ (queue # <<>> => queue'[1] = queue[1])
    BY <1>1, <1>2 DEF PacketParts, Packets
  <1>4. Packets'
    <2>1. \A i \in DOMAIN queue' : i \in DOMAIN queue \/ i = Len(queue) + 1
      BY <1>3 DEF PacketParts, Packets
    <2>2. \A i \in DOMAIN queue : queue[i] \in Nat /\ queue[i] # Len(items) + 1
                                  /\ queue[i] \in 1..Len(items) + 1
      BY <1>2 DEF PacketParts, Packets
    <2>3. \A i \in DOMAIN queue' : queue'[i] \in 1..Len(items')
      BY <1>2, <1>3, <2>1, <2>2
    <2>4. \A i, j \in DOMAIN queue' : queue'[i] = queue'[j] => i = j
      <3>1. \A i, j \in DOMAIN queue : queue[i] = queue[j] => i = j
        BY DEF PacketParts, Packets
      <3> QED BY <1>3, <2>1, <2>2, <3>1
    <2> QED BY <1>2, <1>3, <2>3, <2>4 DEF Packets
  <1>5. Owners'
    <2>1. \A i \in DOMAIN queue' : i \in DOMAIN queue \/ i = Len(queue) + 1
      BY <1>3 DEF PacketParts, Packets
    <2> QED BY <1>1, <1>2, <1>3, <2>1 DEF PacketParts, Owners, Pending, Live
  <1>6. Waits'
    BY <1>1, <1>3 DEF PacketParts, Waits, Pending
  <1> QED BY <1>4, <1>5, <1>6 DEF PacketParts
-----------------------------------------------------------------------------
LEMMA PacketStep == CountInv /\ CountInv' /\ PacketInv /\ [Next]_vars => PacketInv'
  <1> SUFFICES ASSUME CountInv, CountInv', PacketInv, [Next]_vars,
                      (Is("recvfrom") /\ ~setup.empties)'
               PROVE  PacketParts'
    BY DEF PacketInv
  <1>1. setup' = setup
    BY DEF Next, Parent, Get, Open, Refuse, Permit, Fork, CallFails, Count, Unmask, Full, Test,
           Rest, Clear, ParentOnly, Chld, Usr1, Child, Exit, Ready, ReadShared, ReadOwn,
           ChildOnly, Arrive, vars
  <1>2. /\ Is("recvfrom") /\ ~setup.empties /\ PacketParts /\ KidsKnown /\ KidsKnown'
        /\ MaxKids \in Nat
    BY <1>1, ServeAssumption DEF CountInv, PacketInv, Is
  <1>3. CASE Parent
    BY <1>2, <1>3, PacketsAtParent, PacketsLost, PacketsRefused, PacketsForked, PacketsAwaited DEF Parent
  <1>4. CASE Chld \/ Usr1
    BY <1>2, <1>4, PacketsSignalled
  <1>5. CASE \E k \in Kids : Child(k) \/ Exit(k)
    BY <1>2, <1>5, PacketsRead, PacketsAtChild DEF Child
  <1>6. CASE \E p \in Peers, e \in BOOLEAN : Arrive(p, e)
    BY <1>2, <1>6, PacketsArrive
  <1>7. CASE UNCHANGED vars
    <2>1. UNCHANGED <<kids, items, queue, readBy, dropped, usr1, pc, cur, waiting, hashappened>>
      BY <1>7 DEF vars, signalVars, countVars, itemVars
    <2> QED BY <1>2, <2>1 DEF PacketParts, Packets, Owners, Waits, Pending, Live
  <1> QED BY <1>3, <1>4, <1>5, <1>6, <1>7 DEF Next

LEMMA PacketInit == Init => PacketInv
  <1> SUFFICES ASSUME Init, Is("recvfrom") PROVE PacketParts
    BY DEF PacketInv
  <1>1. /\ pc = "poll" /\ items = <<>> /\ queue = <<>> /\ readBy = {} /\ dropped = {}
        /\ usr1 = 0 /\ waiting = 0 /\ hashappened = FALSE
    BY DEF Init, First, Is
  <1>2. \A k \in Kids : kids[k].st = "none" /\ kids[k].item = 0
    BY DEF Init, None
  <1>3. Packets
    BY <1>1 DEF Packets
  <1>4. Owners
    BY <1>1, <1>2 DEF Owners, Pending, Live
  <1>5. Waits
    BY <1>1, <1>2 DEF Waits, Pending
  <1> QED BY <1>3, <1>4, <1>5 DEF PacketParts

\* A child of RECVFROM reads the packet it was forked for and no other, whatever the order
\* of packets, signals and ends of children (_xioopen_dgram_recvfrom,
\* xiosigaction_hasread): the flag the parent waits on is never that of an earlier child.
THEOREM PacketsOwned == Spec => []OwnPacket
  <1>1. PacketInv => OwnPacket
    BY DEF PacketInv, PacketParts, Owners, OwnPacket
  <1> QED BY <1>1, CountInit, CountStep, PacketInit, PacketStep, PTL DEF Spec
=============================================================================
