-------------------------- MODULE Holdings_proofs ---------------------------
(***************************************************************************)
(* What becomes of the things of processes, for any processes and command  *)
(* lines: two never work with the same lock, what is left of a process is  *)
(* left in the named ways only, and nothing of another's is removed in any *)
(* way but the six.                                                        *)
(*                                                                         *)
(* The first invariant, IInv: what a process has opened is a prefix of its *)
(* command line, a child starts with its parent's prefix, and a lock that  *)
(* counts as held is in the file system as this process made it, or        *)
(* another has removed one of that name.  KInv adds how each process ended *)
(* and where the things went that it made.                                 *)
(***************************************************************************)
EXTENDS Holdings, TLAPS

\* Where processes stand, and how far they are on their command line.
PlacedAt(p) ==
  /\ pc[p] = "new" => p \in Kids
  /\ pc[p] # "new" =>
       /\ Root(p) \in Masters
       /\ done[p] <= Len(Line(p).items)
       /\ held[p] \subseteq 1 .. done[p]
  /\ pc[p] \in {"open", "making", "made"} => done[p] < Len(Line(p).items)
  /\ pc[p] \in {"serve", "born"} => done[p] = Line(p).before
  /\ pc[p] = "serve" => p \in Masters
  /\ pc[p] = "born" => p \in Kids

Placed == \A p \in Procs : PlacedAt(p)

\* t is p's, unless somebody has removed one that was another's.
Has(p, t) == t \in robbed \/ owner[t] = p

\* What p gives up later than now.
Keeps(p) == IF pc[p] = "closing" THEN Own(p) \ First(p, OfStreams(p)) ELSE Own(p)

Held(p) ==
  /\ pc[p] = "made" /\ Item(p).kind \in Locks => Has(p, Item(p).thing)
  /\ p \in Active \/ pc[p] = "closing" =>
       \A i \in Keeps(p) : Of(p, i) \in Locks => Has(p, Thing(p, i))

LocksHeld == \A p \in Procs : Held(p)

IInv == TypeOK /\ Placed /\ LocksHeld
-----------------------------------------------------------------------------
\* Command lines of processes that run are well formed.
LEMMA LinesAreSetups ==
  ASSUME TypeOK, Placed, NEW p \in Procs, pc[p] # "new"
  PROVE  /\ Root(p) \in Masters /\ Line(p) \in Setups /\ SetupOK(Line(p))
         /\ \A i \in held[p] : Thing(p, i) \in Owned
         /\ Len(Line(p).items) \in Nat /\ Line(p).before \in 0 .. Len(Line(p).items)
         /\ \A i \in 1 .. Len(Line(p).items) : Line(p).items[i] \in Items
  <1>1. Root(p) \in Masters /\ Line(p) \in Setups
    BY DEF TypeOK, Placed, PlacedAt, Line
  <1>2. SetupOK(Line(p))
    BY <1>1, HoldingsAssumption
  <1>3. Len(Line(p).items) \in Nat /\ \A i \in 1 .. Len(Line(p).items) : Line(p).items[i] \in Items
    BY <1>2 DEF SetupOK
  <1>4. held[p] \subseteq 1 .. Len(Line(p).items)
    BY <1>3 DEF TypeOK, Placed, PlacedAt
  <1>5. \A i \in held[p] : Line(p).items[i].thing \in Things /\ Starter(p, i) \in Procs
    BY <1>1, <1>3, <1>4 DEF Items, Starter, Procs
  <1>6. \A i \in held[p] : Thing(p, i) \in Owned
    BY <1>5 DEF Thing, Owned, Programs
  <1> QED
    BY <1>1, <1>2, <1>3, <1>6 DEF SetupOK

\* socat.c opens one thing after the other, and then serves or works.
LEMMA StageRight ==
  ASSUME NEW p, NEW n \in Nat, Len(Line(p).items) \in Nat, n <= Len(Line(p).items)
  PROVE  /\ Stage(p, n) \in {"serve", "work", "open"}
         /\ Stage(p, n) = "open" => n < Len(Line(p).items)
         /\ Stage(p, n) = "serve" => p \in Masters /\ n = Line(p).before
  <1>1. CASE p \in Masters /\ Line(p).forks > 0 /\ n = Line(p).before
    BY <1>1 DEF Stage
  <1>2. CASE ~(p \in Masters /\ Line(p).forks > 0 /\ n = Line(p).before) /\ n = Len(Line(p).items)
    BY <1>2 DEF Stage
  <1>3. CASE ~(p \in Masters /\ Line(p).forks > 0 /\ n = Line(p).before) /\ n # Len(Line(p).items)
    BY <1>3 DEF Stage
  <1> QED BY <1>1, <1>2, <1>3

\* Whoever removes a thing, what another has is still its own, or robbed.
LEMMA OthersKeep ==
  ASSUME TypeOK, NEW p \in Procs, NEW q \in Procs, p # q, NEW t, NEW x, Remove(p, t),
         Has(q, x)
  PROVE  Has(q, x)'
  BY DEF Remove, Has, TypeOK, HoldingsAssumption

LEMMA LockThingsAreThings == LockThings \subseteq Things
  BY DEF LockThings, Things

\* What counts as a lock on a command line is a lock on all.
LEMMA LockItems ==
  ASSUME TypeOK, Placed, NEW p \in Procs, pc[p] # "new"
  PROVE  /\ \A i \in held[p] : /\ i \in DOMAIN Line(p).items
                               /\ Of(p, i) \in Locks => Thing(p, i) \in LockThings
         /\ pc[p] = "made" /\ Item(p).kind \in Locks => Item(p).thing \in LockThings
  <1>1. Line(p) \in Setups /\ Len(Line(p).items) \in Nat /\ DOMAIN Line(p).items = 1 .. Len(Line(p).items)
    BY LinesAreSetups DEF SetupOK
  <1>2. done[p] \in Nat /\ done[p] <= Len(Line(p).items) /\ held[p] \subseteq 1 .. done[p]
    BY DEF TypeOK, Placed, PlacedAt
  <1>3. held[p] \subseteq DOMAIN Line(p).items
    BY <1>1, <1>2
  <1>4. \A i \in DOMAIN Line(p).items :
          Line(p).items[i].kind \in Locks => Line(p).items[i].thing \in LockThings
    BY <1>1 DEF LockThings
  <1>5. ASSUME NEW i \in held[p], Of(p, i) \in Locks PROVE Thing(p, i) \in LockThings
    BY <1>3, <1>4, <1>5 DEF Of, Thing, Starter, Locks
  <1>6. pc[p] = "made" => done[p] + 1 \in DOMAIN Line(p).items
    BY <1>1, <1>2 DEF Placed, PlacedAt
  <1> QED BY <1>3, <1>4, <1>5, <1>6 DEF Item

\* A process that does not move stays where it is and has what it had.
LEMMA OthersStay ==
  ASSUME TypeOK, Placed, NEW q \in Procs, UNCHANGED <<setup, Root(q), pc[q], held[q], done[q]>>,
         \A x \in LockThings : Has(q, x) => Has(q, x)'
  PROVE  PlacedAt(q)' /\ (Held(q) => Held(q)')
  <1>0. Line(q)' = Line(q)
    BY DEF Line
  <1>1. /\ Item(q)' = Item(q) /\ Own(q)' = Own(q) /\ OfStreams(q)' = OfStreams(q)
        /\ \A i : Of(q, i)' = Of(q, i) /\ Thing(q, i)' = Thing(q, i) /\ Rank(q, i)' = Rank(q, i)
    BY <1>0 DEF Item, Own, OfStreams, Of, Thing, Starter, Rank
  <1>2. Keeps(q)' = Keeps(q)
    BY <1>1 DEF Keeps, First
  <1>3. PlacedAt(q)'
    BY <1>0 DEF Placed, PlacedAt
  <1>4. ASSUME Held(q) PROVE Held(q)'
    <2>1. CASE pc[q] = "new"
      BY <2>1 DEF Held, Active
    <2>2. CASE pc[q] # "new"
      <3>1. \A i \in Keeps(q) : Of(q, i) \in Locks => Thing(q, i) \in LockThings
        BY <2>2, LockItems DEF Keeps, Own
      <3>2. pc[q] = "made" /\ Item(q).kind \in Locks => Item(q).thing \in LockThings
        BY <2>2, LockItems
      <3> QED BY <1>1, <1>2, <1>4, <3>1, <3>2 DEF Held, Active
    <2> QED BY <2>1, <2>2
  <1> QED BY <1>3, <1>4

\* What is to be shown of a step of p: that it keeps its own place and hold.
LEMMA OneMoves ==
  ASSUME IInv, NEW p \in Procs, TypeOK', UNCHANGED setup,
         \A q \in Procs \ {p} : UNCHANGED <<Root(q), pc[q], held[q], done[q]>>,
         \A q \in Procs \ {p} : \A x \in LockThings : Has(q, x) => Has(q, x)',
         PlacedAt(p)', Held(p)'
  PROVE  IInv'
  <1>1. \A q \in Procs \ {p} : PlacedAt(q)' /\ Held(q)'
    BY OthersStay DEF IInv, LocksHeld
  <1> QED BY <1>1 DEF IInv, Placed, LocksHeld

LEMMA InitHolds == Init => IInv
  <1> SUFFICES ASSUME Init PROVE IInv
    OBVIOUS
  <1>1. \A p \in Masters : Root(p) = p /\ Line(p) \in Setups /\ SetupOK(Line(p))
    BY HoldingsAssumption DEF Init, Root, Line
  <1>2. \A p \in Masters :
          /\ Len(Line(p).items) \in Nat
          /\ pc[p] \in {"serve", "work", "open"}
          /\ pc[p] = "open" => 0 < Len(Line(p).items)
          /\ pc[p] = "serve" => Line(p).before = 0
    <2> SUFFICES ASSUME NEW p \in Masters
        PROVE /\ Len(Line(p).items) \in Nat
              /\ pc[p] \in {"serve", "work", "open"}
              /\ pc[p] = "open" => 0 < Len(Line(p).items)
              /\ pc[p] = "serve" => Line(p).before = 0
      OBVIOUS
    <2>1. Len(Line(p).items) \in Nat
      BY <1>1 DEF SetupOK
    <2>2. pc[p] = Stage(p, 0)
      BY DEF Init, Procs
    <2> QED BY <2>1, <2>2, StageRight
  <1>3. TypeOK
    BY <1>2 DEF Init, TypeOK, Procs
  <1>4. \A p \in Procs : PlacedAt(p)
    BY <1>1, <1>2, HoldingsAssumption DEF Init, PlacedAt, Procs
  <1>5. \A p \in Procs : Held(p)
    BY <1>2 DEF Init, Held, Keeps, Own, Procs
  <1> QED BY <1>3, <1>4, <1>5 DEF IInv, Placed, LocksHeld
-----------------------------------------------------------------------------
OpensNext(p) ==
  /\ held' = [held EXCEPT ![p] = @ \cup {done[p] + 1}]
  /\ done' = [done EXCEPT ![p] = @ + 1]
  /\ pc' = [pc EXCEPT ![p] = Stage(p, done[p] + 1)]

\* An item that p has, or that is no lock, can count as held.
LEMMA OpenedKeeps ==
  ASSUME IInv, NEW p \in Procs, pc[p] \in {"open", "made"}, OpensNext(p),
         UNCHANGED <<setup, parent, ended, robbed>>,
         owner' \in [Owned -> Procs \cup {None}],
         \A q \in Procs : \A x \in LockThings : Has(q, x) => Has(q, x)',
         Of(p, done[p] + 1) \in Locks => Has(p, Thing(p, done[p] + 1))
  PROVE  IInv'
  <1> USE DEF IInv
  <1>1. /\ Root(p) \in Masters /\ Line(p) \in Setups /\ SetupOK(Line(p))
        /\ Len(Line(p).items) \in Nat
    BY LinesAreSetups
  <1>2. done[p] \in Nat /\ done[p] < Len(Line(p).items) /\ held[p] \subseteq 1 .. done[p]
    BY DEF TypeOK, Placed, PlacedAt
  <1>3. /\ pc'[p] \in {"serve", "work", "open"}
        /\ pc'[p] = "open" => done[p] + 1 < Len(Line(p).items)
        /\ pc'[p] = "serve" => p \in Masters /\ done[p] + 1 = Line(p).before
    BY <1>1, <1>2, StageRight DEF OpensNext, TypeOK
  <1>4. Line(p)' = Line(p) /\ Root(p)' = Root(p)
    BY DEF Line, Root
  <1>5. held'[p] = held[p] \cup {done[p] + 1} /\ done'[p] = done[p] + 1
    BY DEF OpensNext, TypeOK
  <1>6. TypeOK'
    <2>1. pc' = [pc EXCEPT ![p] = pc'[p]]
      BY DEF OpensNext, TypeOK
    <2> QED BY <2>1, <1>2, <1>3 DEF OpensNext, TypeOK
  <1>7. PlacedAt(p)'
    <2>1. held'[p] \subseteq 1 .. done'[p] /\ done'[p] <= Len(Line(p).items)
      BY <1>1, <1>2, <1>5
    <2> QED BY <1>1, <1>3, <1>4, <1>5, <2>1 DEF PlacedAt
  <1>8. Held(p)'
    <2>1. SUFFICES ASSUME NEW i \in Own(p)', Of(p, i)' \in Locks PROVE Has(p, Thing(p, i))'
      BY <1>3 DEF Held, Keeps
    <2>2. Of(p, i) \in Locks /\ Thing(p, i)' = Thing(p, i)
      BY <1>4, <2>1 DEF Of, Thing, Starter
    <2>3. Has(p, Thing(p, i))
      <3>1. CASE i = done[p] + 1
        BY <3>1, <2>2
      <3>2. CASE i # done[p] + 1
        <4>1. i \in Own(p)
          BY <3>2, <1>4, <1>5 DEF Own
        <4> QED BY <4>1, <2>2 DEF LocksHeld, Held, Active, Keeps
      <3> QED BY <3>1, <3>2
    <2>4. Thing(p, i) \in LockThings
      <3>1. i \in DOMAIN Line(p).items
        BY <1>1, <1>2, <1>4, <1>5 DEF Own, SetupOK
      <3> QED BY <3>1, <1>1, <2>2 DEF LockThings, Of, Thing, Starter, Locks
    <2> QED BY <2>2, <2>3, <2>4
  <1> QED BY <1>6, <1>7, <1>8, OneMoves DEF Root, OpensNext, TypeOK

\* The steps in which p opens what is next on its command line.
LEMMA OpeningKeeps ==
  ASSUME IInv, NEW p \in Procs, Opening(p)
  PROVE  IInv'
  <1> USE DEF IInv
  <1>1. pc[p] # "new" /\ UNCHANGED <<setup, parent>>
    BY DEF Opening, Look, Refuse, Clear, Make, Keep, StartProgram
  <1>2. /\ Root(p) \in Masters /\ Line(p) \in Setups /\ SetupOK(Line(p))
        /\ Len(Line(p).items) \in Nat
        /\ \A i \in 1 .. Len(Line(p).items) : Line(p).items[i] \in Items
    BY <1>1, LinesAreSetups
  <1>3. Line(p)' = Line(p) /\ Root(p)' = Root(p)
    BY <1>1 DEF Line, Root
  <1>4. done[p] \in Nat /\ done[p] < Len(Line(p).items) /\ Item(p) \in Items
        /\ Item(p).thing \in Things /\ held[p] \subseteq 1 .. done[p]
    <2>1. done[p] \in Nat /\ done[p] < Len(Line(p).items) /\ held[p] \subseteq 1 .. done[p]
      BY <1>1 DEF Opening, Look, Refuse, Clear, Make, Keep, StartProgram, TypeOK, Placed, PlacedAt
    <2>2. Item(p) \in Items
      BY <1>2, <2>1 DEF Item
    <2> QED BY <2>1, <2>2 DEF Items
  <1>9. \A i \in Own(p) : Of(p, i) \in Locks => Thing(p, i) \in LockThings
    BY <1>1, LockItems DEF Own
  <1>5. CASE Look(p)
    <2>1. TypeOK'
      BY <1>5 DEF Look, Goes, TypeOK
    <2>2. PlacedAt(p)'
      BY <1>1, <1>3, <1>4, <1>5 DEF Look, Goes, PlacedAt, Placed, TypeOK
    <2>3. Held(p)'
      BY <1>3, <1>5 DEF Look, Goes, Held, LocksHeld, Active, Keeps, Own, Of, Thing, Starter, Has, TypeOK
    <2> QED BY <2>1, <2>2, <2>3, <1>1, <1>5, OneMoves DEF Root, Look, Goes, TypeOK, Has
  <1>6. CASE Refuse(p)
    <2>1. TypeOK'
      BY <1>6 DEF Refuse, Exit, Marked, Goes, TypeOK
    <2>2. PlacedAt(p)'
      BY <1>1, <1>3, <1>4, <1>6 DEF Refuse, Exit, Goes, PlacedAt, Placed, TypeOK
    <2>3. Held(p)'
      BY <1>6 DEF Refuse, Exit, Goes, Held, Active, TypeOK
    <2> QED BY <2>1, <2>2, <2>3, <1>1, <1>6, OneMoves DEF Root, Refuse, Exit, Goes, TypeOK, Has
  <1>7. CASE Clear(p)
    <2>1. TypeOK'
      BY <1>4, <1>7 DEF Clear, Goes, TypeOK
    <2>2. PlacedAt(p)'
      BY <1>1, <1>3, <1>4, <1>7 DEF Clear, Goes, PlacedAt, Placed, TypeOK
    <2>3. Item(p).thing \notin LockThings
      BY <1>2, <1>4, <1>7, HoldingsAssumption DEF Clear, Item, Locks
    <2>4. \A q \in Procs : \A x \in LockThings : Has(q, x) => Has(q, x)'
      BY <2>3, <1>7 DEF Clear, Has, TypeOK
    <2>5. Held(p)'
      <3>1. \A i \in Own(p) : Of(p, i) \in Locks => Has(p, Thing(p, i)) /\ Thing(p, i) \in LockThings
        BY <1>9, <1>7 DEF Clear, Held, LocksHeld, Active, Keeps
      <3> QED BY <2>4, <3>1, <1>3, <1>7 DEF Clear, Goes, Held, Active, Keeps, Own, Of, Thing, Starter, TypeOK
    <2> QED BY <2>1, <2>2, <2>4, <2>5, <1>1, <1>7, OneMoves DEF Root, Clear, Goes, TypeOK
  <1>8. CASE Make(p)
    <2>1. CASE owner[Item(p).thing] = None
      <3>1. TypeOK'
        <4>1. owner' \in [Owned -> Procs \cup {None}]
          BY <1>8, <2>1 DEF Make, TypeOK
        <4>2. pc' = [pc EXCEPT ![p] = "made"] /\ UNCHANGED <<setup, parent, done, held, ended, robbed>>
          BY <1>8, <2>1 DEF Make, Goes
        <4> QED BY <4>1, <4>2 DEF TypeOK
      <3>2. PlacedAt(p)'
        BY <1>1, <1>3, <1>4, <1>8, <2>1 DEF Make, Goes, PlacedAt, Placed, TypeOK
      <3>3. \A q \in Procs : \A x \in LockThings : Has(q, x) => Has(q, x)'
        <4>1. robbed' = robbed /\ \A x \in Owned : x # Item(p).thing => owner'[x] = owner[x]
          BY <2>1, <1>8 DEF Make, TypeOK
        <4>2. LockThings \subseteq Owned /\ None \notin Procs
          BY LockThingsAreThings, HoldingsAssumption DEF Owned
        <4> QED BY <2>1, <4>1, <4>2 DEF Has
      <3>4. Has(p, Item(p).thing)'
        BY <1>3, <1>4, <2>1, <1>8 DEF Make, Has, TypeOK, Item, Owned
      <3>5. Held(p)'
        BY <1>3, <1>9, <3>3, <3>4, <1>8, <2>1 DEF Make, Goes, Held, LocksHeld, Active, Keeps, Own, Of, Thing, Starter, TypeOK
      <3> QED BY <3>1, <3>2, <3>3, <3>5, <1>1, <1>8, <2>1, OneMoves DEF Root, Make, Goes, TypeOK
    <2>2. CASE owner[Item(p).thing] # None
      <3>1. TypeOK'
        BY <1>8, <2>2 DEF Make, Exit, Marked, Goes, TypeOK
      <3>2. PlacedAt(p)'
        BY <1>1, <1>3, <1>4, <1>8, <2>2 DEF Make, Exit, Goes, PlacedAt, Placed, TypeOK
      <3>3. Held(p)'
        BY <1>8, <2>2 DEF Make, Exit, Goes, Held, Active, TypeOK
      <3> QED BY <3>1, <3>2, <3>3, <1>1, <1>8, <2>2, OneMoves DEF Root, Make, Exit, Goes, TypeOK, Has
    <2> QED BY <2>1, <2>2
  <1>10. CASE Keep(p)
    <2>1. /\ held' = [held EXCEPT ![p] = @ \cup {done[p] + 1}]
          /\ done' = [done EXCEPT ![p] = @ + 1]
          /\ pc' = [pc EXCEPT ![p] = Stage(p, done[p] + 1)]
          /\ UNCHANGED <<setup, parent, owner, ended, robbed>> /\ pc[p] = "made"
      BY <1>10 DEF Keep, Opened, Goes
    <2>2. Of(p, done[p] + 1) \in Locks => Has(p, Thing(p, done[p] + 1))
      BY <2>1 DEF LocksHeld, Held, Of, Item, Thing, Starter, Locks
    <2>3. \A q \in Procs : \A x \in LockThings : Has(q, x) => Has(q, x)'
      BY <2>1 DEF Has
    <2>4. OpensNext(p)
      BY <2>1 DEF OpensNext
    <2> QED BY <1>1, <2>1, <2>2, <2>3, <2>4, OpenedKeeps DEF TypeOK
  <1>11. CASE StartProgram(p)
    <2>1. /\ owner' = [owner EXCEPT ![Thing(p, done[p] + 1)] = p]
          /\ OpensNext(p)
          /\ UNCHANGED <<setup, parent, ended, robbed>> /\ pc[p] = "open" /\ Item(p).kind = "program"
      BY <1>11 DEF StartProgram, Opened, OpensNext, Goes
    <2>2. Of(p, done[p] + 1) \notin Locks
      BY <2>1 DEF Of, Item, Locks
    <2>3. Thing(p, done[p] + 1) \in Programs
      <3>1. Root(p) \in Masters /\ Item(p) \in Items
        BY <1>2, <1>4, <2>1, LinesAreSetups DEF TypeOK, Placed, PlacedAt, Item
      <3>2. Starter(p, done[p] + 1) \in Procs /\ Item(p).thing \in Things
        BY <3>1 DEF Starter, Procs, Items
      <3> QED BY <2>1, <3>2 DEF Thing, Of, Item, Programs
    <2>5. Thing(p, done[p] + 1) \notin LockThings
      BY <2>3, LockThingsAreThings, HoldingsAssumption
    <2>4. \A q \in Procs : \A x \in LockThings : Has(q, x) => Has(q, x)'
      BY <2>1, <2>5 DEF Has, TypeOK
    <2> QED BY <1>1, <2>1, <2>2, <2>4, OpenedKeeps DEF TypeOK
  <1> QED BY <1>5, <1>6, <1>7, <1>8, <1>10, <1>11 DEF Opening
-----------------------------------------------------------------------------
\* A process on its way out relies on nothing, whatever it removes.
LEMMA LeavingKeeps ==
  ASSUME IInv, NEW p \in Procs, pc[p] # "new", UNCHANGED <<setup, parent, done>>,
         NEW to \in {"unlock", "exit", "gone"}, pc' = [pc EXCEPT ![p] = to],
         NEW h \in SUBSET held[p], held' = [held EXCEPT ![p] = h],
         ended' \in [Procs -> SUBSET {"finish", "exit", "early", "unready", "closing", "again", "killed"}],
         \/ UNCHANGED <<owner, robbed>>
         \/ \E i \in held[p] : Remove(p, Thing(p, i))
  PROVE  IInv'
  <1> USE DEF IInv
  <1>1. TypeOK'
    <2>1. owner' \in [Owned -> Procs \cup {None}] /\ robbed' \subseteq Owned
      <3>1. CASE UNCHANGED <<owner, robbed>>
        BY <3>1 DEF TypeOK
      <3>2. CASE \E i \in held[p] : Remove(p, Thing(p, i))
        <4>1. PICK t \in Owned : Remove(p, t)
          BY <3>2, LinesAreSetups
        <4> QED BY <4>1 DEF TypeOK, Remove
      <3> QED BY <3>1, <3>2
    <2> QED BY <2>1 DEF TypeOK
  <1>2. PlacedAt(p)'
    BY DEF PlacedAt, Placed, TypeOK, Line, Root
  <1>3. Held(p)'
    BY DEF Held, Active, TypeOK
  <1>4. \A q \in Procs \ {p} : \A x \in LockThings : Has(q, x) => Has(q, x)'
    <2>1. CASE UNCHANGED <<owner, robbed>>
      BY <2>1 DEF Has
    <2>2. CASE \E i \in held[p] : Remove(p, Thing(p, i))
      BY <2>2, OthersKeep
    <2> QED BY <2>1, <2>2
  <1> QED BY <1>1, <1>2, <1>3, <1>4, OneMoves DEF Root, TypeOK

\* Closing a stream: what is removed is the first item that is left, and the
\* others are other things.
LEMMA CloseKeeps ==
  ASSUME IInv, NEW p \in Procs, Close(p)
  PROVE  IInv'
  <1> USE DEF IInv
  <1>1. CASE OfStreams(p) = {} /\ Goes(p, "unlock") /\ UNCHANGED <<owner, robbed>>
    <2>1. held' = [held EXCEPT ![p] = held[p]]
      BY DEF Close, TypeOK
    <2> QED BY <1>1, <2>1, LeavingKeeps DEF Close, Goes, TypeOK
  <1>2. ASSUME NEW i \in First(p, OfStreams(p)), Remove(p, Thing(p, i)), Goes(p, "closing")
        PROVE  IInv'
    <2>1. i \in held[p] /\ UNCHANGED <<setup, parent, done, held, ended>> /\ pc[p] = "close"
      BY <1>2 DEF Close, First, OfStreams
    <2>2. TypeOK'
      <3>1. PICK t \in Owned : Remove(p, t)
        BY <1>2, <2>1, LinesAreSetups
      <3>2. owner' \in [Owned -> Procs \cup {None}] /\ robbed' \subseteq Owned
        BY <3>1 DEF TypeOK, Remove
      <3> QED BY <1>2, <2>1, <3>2 DEF TypeOK, Goes
    <2>3. PlacedAt(p)'
      BY <1>2, <2>1 DEF PlacedAt, Placed, TypeOK, Line, Root, Goes
    <2>4. Keeps(p)' = Own(p) \ First(p, OfStreams(p))
      <3>1. pc'[p] = "closing" /\ Line(p)' = Line(p) /\ held' = held
        BY <1>2, <2>1 DEF Goes, TypeOK, Line, Root
      <3>2. Own(p)' = Own(p) /\ First(p, OfStreams(p))' = First(p, OfStreams(p))
        BY <3>1 DEF Own, First, OfStreams, Rank, Of
      <3> QED BY <3>1, <3>2 DEF Keeps
    <2>5. ASSUME NEW j \in Own(p), j # i, Of(p, j) \in Locks
          PROVE  Has(p, Thing(p, j))'
      <3>1. Has(p, Thing(p, j))
        BY <2>1, <2>5 DEF LocksHeld, Held, Active, Keeps
      <3>2. i \in DOMAIN Line(p).items /\ j \in DOMAIN Line(p).items /\ Thing(p, j) \in LockThings
        BY <2>1, <2>5, LockItems DEF Own
      <3>3. Thing(p, i) # Thing(p, j)
        <4>1. CASE Of(p, i) = "program"
          <5>1. Thing(p, i) \in Programs
            <6>1. Root(p) \in Masters /\ Line(p).items[i] \in Items
              BY <2>1, <3>2, LinesAreSetups DEF SetupOK
            <6>2. Starter(p, i) \in Procs /\ Line(p).items[i].thing \in Things
              BY <6>1 DEF Starter, Procs, Items
            <6> QED BY <4>1, <6>2 DEF Thing, Programs
          <5> QED BY <3>2, <5>1, LockThingsAreThings, HoldingsAssumption
        <4>2. CASE Of(p, i) # "program"
          BY <4>2, <2>1, <2>5, <3>2, LinesAreSetups DEF Thing, Starter, Of, SetupOK, Locks
        <4> QED BY <4>1, <4>2
      <3>4. Thing(p, j)' = Thing(p, j)
        BY <2>1 DEF Thing, Starter, Line, Root, Of
      <3> QED BY <1>2, <3>1, <3>3, <3>4 DEF Has, Remove, TypeOK
    <2>6. \A j : Of(p, j)' = Of(p, j)
      BY <2>1 DEF Of, Line, Root
    <2>7. Held(p)'
      BY <1>2, <2>2, <2>4, <2>5, <2>6 DEF Held, Goes, TypeOK
    <2>8. \A q \in Procs \ {p} : \A x \in LockThings : Has(q, x) => Has(q, x)'
      BY <1>2, OthersKeep
    <2> QED BY <1>2, <2>1, <2>2, <2>3, <2>7, <2>8, OneMoves DEF Root, TypeOK, Goes
  <1> QED BY <1>1, <1>2 DEF Close

LEMMA ClosedKeeps ==
  ASSUME IInv, NEW p \in Procs, Closed(p)
  PROVE  IInv'
  <1> USE DEF IInv
  <1>1. /\ UNCHANGED <<setup, parent, done, owner, ended, robbed>> /\ pc[p] = "closing"
        /\ pc' = [pc EXCEPT ![p] = "close"]
        /\ held' = [held EXCEPT ![p] = held[p] \ First(p, OfStreams(p))]
    BY DEF Closed, Goes, TypeOK
  <1>2. TypeOK'
    BY <1>1 DEF TypeOK
  <1>3. PlacedAt(p)'
    BY <1>1 DEF PlacedAt, Placed, TypeOK, Line, Root
  <1>4. Own(p)' \subseteq Keeps(p)
    BY <1>1 DEF Own, Keeps, TypeOK, Line, Root
  <1>5. \A i : Of(p, i)' = Of(p, i) /\ Thing(p, i)' = Thing(p, i)
    BY <1>1 DEF Of, Thing, Starter, Line, Root
  <1>6. \A q, x : Has(q, x)' = Has(q, x)
    BY <1>1 DEF Has
  <1>7. Keeps(p)' = Own(p)' /\ pc'[p] = "close"
    BY <1>1 DEF Keeps, TypeOK
  <1>8. Held(p)'
    BY <1>1, <1>4, <1>5, <1>6, <1>7 DEF Held, LocksHeld, Active
  <1> QED BY <1>1, <1>2, <1>3, <1>6, <1>8, OneMoves DEF Root, TypeOK

LEMMA FinishKeeps ==
  ASSUME IInv, NEW p \in Procs, Finish(p)
  PROVE  IInv'
  <1> USE DEF IInv
  <1>1. TypeOK'
    BY DEF Finish, Goes, Marked, TypeOK
  <1>2. PlacedAt(p)'
    BY DEF Finish, Goes, PlacedAt, Placed, TypeOK, Line, Root
  <1>3. Held(p)'
    BY DEF Finish, Goes, Held, LocksHeld, Active, Keeps, Own, Of, Thing, Starter, Has, TypeOK, Line, Root
  <1> QED BY <1>1, <1>2, <1>3, OneMoves DEF Finish, Goes, Root, TypeOK, Has

\* A child is born with its parent's line and things, and relies on none.
LEMMA ForkKeeps ==
  ASSUME IInv, NEW p \in Procs, NEW k \in Kids, Fork(p, k)
  PROVE  IInv'
  <1> USE DEF IInv
  <1>1. p \in Masters /\ k \in Procs /\ k \notin Masters /\ p # k
    BY HoldingsAssumption DEF Fork, Placed, PlacedAt, Procs
  <1>2. TypeOK'
    BY <1>1 DEF Fork, Goes, TypeOK, Procs
  <1>3. \A q \in Procs \ {k} : UNCHANGED <<Root(q), pc[q], held[q], done[q]>>
    BY DEF Fork, Goes, Root, TypeOK, Procs
  <1>4. Root(k)' = p /\ Line(k)' = Line(p)
    BY <1>1 DEF Fork, Root, Line, TypeOK
  <1>5. PlacedAt(k)'
    BY <1>1, <1>4 DEF Fork, Goes, PlacedAt, Placed, TypeOK, Line, Root
  <1>6. Held(k)'
    BY <1>1 DEF Fork, Goes, Held, Active, TypeOK
  <1> QED BY <1>1, <1>2, <1>3, <1>5, <1>6, OneMoves DEF Fork, Has

\* What xio_forked_inchild leaves is not the child's own.
LEMMA AdoptKeeps ==
  ASSUME IInv, NEW p \in Procs, Adopt(p)
  PROVE  IInv'
  <1> USE DEF IInv
  <1>1. /\ UNCHANGED <<setup, parent, done, owner, ended, robbed>> /\ pc[p] = "born"
        /\ pc' = [pc EXCEPT ![p] = Stage(p, done[p])]
        /\ held' = [held EXCEPT ![p] = held[p] \ Dropped(p)]
    BY DEF Adopt, Goes, TypeOK
  <1>2. p \in Kids /\ p \notin Masters /\ done[p] \in Nat /\ done[p] = Line(p).before
        /\ done[p] <= Len(Line(p).items) /\ held[p] \subseteq 1 .. done[p] /\ Len(Line(p).items) \in Nat
        /\ Root(p) \in Masters
    BY <1>1, LinesAreSetups, HoldingsAssumption DEF Placed, PlacedAt, TypeOK
  <1>3. pc'[p] \in {"work", "open"} /\ (pc'[p] = "open" => done[p] < Len(Line(p).items))
    BY <1>1, <1>2, StageRight DEF TypeOK
  <1>4. pc' = [pc EXCEPT ![p] = pc'[p]]
    BY <1>1 DEF TypeOK
  <1>5. TypeOK'
    BY <1>1, <1>3, <1>4 DEF TypeOK
  <1>6. Line(p)' = Line(p) /\ Root(p)' = Root(p)
    BY <1>1 DEF Line, Root
  <1>7. PlacedAt(p)'
    BY <1>1, <1>2, <1>3, <1>6 DEF PlacedAt, TypeOK
  <1>8. Own(p)' = {}
    BY <1>1, <1>2, <1>6 DEF Own, TypeOK
  <1>9. Held(p)'
    BY <1>3, <1>8 DEF Held, Keeps
  <1> QED BY <1>1, <1>5, <1>7, <1>9, OneMoves DEF Root, TypeOK, Has

\* Errors, signals, kills and what exit does.
LEMMA EndsKeep ==
  ASSUME IInv, NEW p \in Procs,
         Fail(p) \/ Signal(p) \/ SignalAgain(p) \/ Crash(p) \/ ExitUnlock(p) \/ ExitClose(p)
  PROVE  IInv'
  <1> USE DEF IInv
  <1>0. held = [held EXCEPT ![p] = held[p]] /\ pc = [pc EXCEPT ![p] = pc[p]]
        /\ Found(p) \in {"early", "unready", "closing", "exit"}
    BY DEF TypeOK, Found
  <1>1. CASE Fail(p)
    BY <1>0, <1>1, LeavingKeeps DEF Fail, Exit, Marked, Goes, TypeOK
  <1>2. CASE Signal(p)
    BY <1>0, <1>2, LeavingKeeps DEF Signal, Exit, Marked, Goes, TypeOK
  <1>3. CASE SignalAgain(p)
    <2>1. CASE pc[p] = "unlock"
      BY <1>0, <1>3, <2>1, LeavingKeeps DEF SignalAgain, Marked, Goes, TypeOK
    <2>2. CASE pc[p] # "unlock"
      BY <1>0, <1>3, <2>2, LeavingKeeps DEF SignalAgain, Marked, Goes, TypeOK
    <2> QED BY <2>1, <2>2
  <1>4. CASE Crash(p)
    BY <1>4, LeavingKeeps DEF Crash, Goes, TypeOK
  <1>5. CASE ExitUnlock(p)
    BY <1>0, <1>5, LeavingKeeps DEF ExitUnlock, Goes, TypeOK
  <1>6. CASE ExitClose(p)
    <2>1. UNCHANGED <<setup, parent, done, ended>> /\ pc[p] = "exit"
      BY <1>6 DEF ExitClose
    <2>2. CASE /\ Goes(p, "gone")
               /\ held' = [held EXCEPT ![p] = {}]
               /\ UNCHANGED <<owner, robbed>>
      BY <2>1, <2>2, LeavingKeeps DEF Goes, TypeOK
    <2>3. ASSUME NEW i \in First(p, Reached(p)), Remove(p, Thing(p, i)),
                 held' = [held EXCEPT ![p] = @ \ {i}], UNCHANGED pc
          PROVE  IInv'
      <3>1. i \in held[p] /\ held[p] \ {i} \in SUBSET held[p]
        BY <2>3 DEF First, Reached, OfStreams
      <3>2. held' = [held EXCEPT ![p] = held[p] \ {i}] /\ pc' = [pc EXCEPT ![p] = "exit"]
        BY <1>0, <2>1, <2>3
      <3> QED BY <2>1, <2>3, <3>1, <3>2, LeavingKeeps DEF TypeOK
    <2> QED BY <1>6, <2>2, <2>3 DEF ExitClose
  <1> QED BY <1>1, <1>2, <1>3, <1>4, <1>5, <1>6

LEMMA StepHolds == IInv /\ [Next]_vars => IInv'
  <1> SUFFICES ASSUME IInv, [Next]_vars PROVE IInv'
    OBVIOUS
  <1>1. CASE UNCHANGED vars
    <2>1. TypeOK'
      BY <1>1 DEF vars, IInv, TypeOK
    <2>2. \A q \in Procs : PlacedAt(q)' /\ Held(q)'
      BY <1>1, OthersStay DEF vars, IInv, LocksHeld, Has, Root
    <2> QED BY <2>1, <2>2 DEF IInv, Placed, LocksHeld
  <1>2. ASSUME NEW p \in Procs, Step(p) PROVE IInv'
    BY <1>2, OpeningKeeps, AdoptKeeps, CloseKeeps, ClosedKeeps, EndsKeep DEF Step, Ending
  <1>3. ASSUME NEW p \in Procs, NEW k \in Kids, Fork(p, k) PROVE IInv'
    BY <1>3, ForkKeeps
  <1>4. ASSUME NEW p \in Procs, Finish(p) \/ Fail(p) \/ Signal(p) \/ SignalAgain(p) \/ Crash(p)
        PROVE  IInv'
    BY <1>4, FinishKeeps, EndsKeep
  <1> QED BY <1>1, <1>2, <1>3, <1>4 DEF Next
-----------------------------------------------------------------------------
\* The types of the variables, in every state (socat's processes, their flags
\* and the files).
THEOREM HoldingsTyped == Spec => []TypeOK
  <1>1. IInv => TypeOK
    BY DEF IInv
  <1> QED BY <1>1, InitHolds, StepHolds, PTL DEF Spec

\* Any number of processes and children with any command lines: two that work
\* hold different locks, unless a lock of that name was removed by another than
\* its owner (xiolockfile.c:22-72, xioclose.c:80-83, socat.c:1477-1487).
THEOREM OneHolderOfALock == Spec => []OneHolder
  <1>1. IInv => OneHolder
    <2> SUFFICES ASSUME IInv, NEW p \in Active, NEW q \in Active, p # q,
                        NEW x \in LocksOf(p) \cap LocksOf(q)
                 PROVE  x \in robbed
      BY DEF OneHolder
    <2>1. Has(p, x)
      BY DEF IInv, LocksHeld, Held, LocksOf, Keeps, Active
    <2>2. Has(q, x)
      BY DEF IInv, LocksHeld, Held, LocksOf, Keeps, Active
    <2> QED BY <2>1, <2>2 DEF Has
  <1> QED BY <1>1, InitHolds, StepHolds, PTL DEF Spec

-----------------------------------------------------------------------------
(* What is left behind, and what is removed.  The invariant says of each process how it *)
(* can have come to its end, what a child still has of its parent's, which locks are    *)
(* its own until it has removed them, and that each file it made is one it will remove. *)

Running == {"open", "making", "made", "serve", "work", "close", "closing", "unlock", "exit"}

\* The ends fit the place; only files are made, and a child is past the fork.
EndsAs(p) ==
  /\ pc[p] \in {"new", "born", "open", "making", "made", "serve", "work"} => ended[p] = {}
  /\ pc[p] \in {"close", "closing"} => ended[p] = {"finish"}
  /\ pc[p] \in {"unlock", "exit"} /\ ended[p] = {"finish"} => OfStreams(p) = {}
  /\ pc[p] \in {"making", "made"} => Item(p).kind # "program"
  /\ p \in Kids /\ pc[p] # "new" => Line(p).before <= done[p]

\* The streams in sock[] when the process forks.
InHandAtFork(p) ==
  IF Line(p).forks <= Line(p).first THEN Line(p).first ELSE Line(p).first + Line(p).second

\* What a child inherits for good.
Inherits(p) ==
  p \in Kids /\ pc[p] \in Running /\ "unready" \notin ended[p] =>
    \A i \in held[p] : i <= Line(p).before =>
      /\ Of(p, i) # "main"
      /\ Of(p, i) = "lock" => Line(p).items[i].stream \notin {1, InHandAtFork(p)}
      /\ Of(p, i) = "program" => Shared(p, i)

\* The locks that are to be given up on the way out.
StillHas(p) ==
  pc[p] \in {"unlock", "exit"} /\ "closing" \notin ended[p] =>
    \A i \in Own(p) :
      \/ Of(p, i) = "lock"
      \/ Of(p, i) = "main" /\ pc[p] = "unlock"
      => Has(p, Thing(p, i))

Excused(p) == ended[p] \cap {"early", "again", "killed"} # {}

\* Item i is there to be removed, or p has gone and could not see it.
ToGiveUp(p, i) ==
  \/ pc[p] = "made" /\ i = done[p] + 1
  \/ /\ pc[p] \in Running /\ i \in held[p]
     /\ pc[p] = "closing" => i \notin First(p, OfStreams(p))
     /\ pc[p] = "exit" => Of(p, i) # "main"
  \/ pc[p] = "gone" /\ ended[p] # {"finish"} /\ i \notin Listed(p)

FileOf(p, i, t) ==
  i \in DOMAIN Line(p).items /\ Line(p).items[i].thing = t /\ Of(p, i) # "program"

Traced(p) ==
  \A t \in Things : owner[t] = p /\ ~Excused(p) => \E i \in Nat : FileOf(p, i, t) /\ ToGiveUp(p, i)

Knows(p) == EndsAs(p) /\ Inherits(p) /\ StillHas(p) /\ Traced(p)

\* A program is known by its starter.
ByStarter == \A q \in Procs, x \in Things : owner[<<q, x>>] \in {None, q}

KInv == IInv /\ (\A p \in Procs : Knows(p)) /\ ByStarter
-----------------------------------------------------------------------------
\* A step that leaves the command line leaves what it says.
LEMMA SameLine ==
  ASSUME NEW p, setup' = setup, Root(p)' = Root(p)
  PROVE  /\ Line(p)' = Line(p) /\ InHandAtFork(p)' = InHandAtFork(p)
         /\ \A i : /\ Of(p, i)' = Of(p, i) /\ Thing(p, i)' = Thing(p, i)
                   /\ Rank(p, i)' = Rank(p, i) /\ Shared(p, i)' = Shared(p, i)
         /\ \A i, t : FileOf(p, i, t)' = FileOf(p, i, t)
  <1>1. Line(p)' = Line(p)
    BY DEF Line
  <1>2. \A i : Of(p, i)' = Of(p, i) /\ Starter(p, i)' = Starter(p, i)
    BY <1>1 DEF Of, Starter
  <1>3. \A i : Thing(p, i)' = Thing(p, i)
    BY <1>1, <1>2 DEF Thing
  <1> QED BY <1>1, <1>2, <1>3 DEF Rank, Shared, FileOf, InHandAtFork

\* Two items of a command line are never the same file or program.
LEMMA Distinct ==
  ASSUME IInv, NEW p \in Procs, pc[p] # "new",
         NEW i \in DOMAIN Line(p).items, NEW j \in DOMAIN Line(p).items, i # j,
         Of(p, j) # "program"
  PROVE  Thing(p, i) # Thing(p, j)
  <1>1. /\ Root(p) \in Masters /\ SetupOK(Line(p))
        /\ Len(Line(p).items) \in Nat /\ DOMAIN Line(p).items = 1 .. Len(Line(p).items)
        /\ \A n \in DOMAIN Line(p).items : Line(p).items[n] \in Items
    BY LinesAreSetups DEF IInv, SetupOK
  <1>2. Line(p).items[i].thing # Line(p).items[j].thing
    BY <1>1 DEF SetupOK
  <1>3. Line(p).items[i].thing \in Things /\ Line(p).items[j].thing \in Things /\ Starter(p, i) \in Procs
    BY <1>1 DEF Items, Starter, Procs
  <1>4. Thing(p, j) = Line(p).items[j].thing
    BY DEF Thing
  <1>5. CASE Of(p, i) = "program"
    <2>1. Thing(p, i) \in Programs
      BY <1>3, <1>5 DEF Thing, Programs
    <2> QED BY <1>3, <1>4, <2>1, HoldingsAssumption
  <1>6. CASE Of(p, i) # "program"
    BY <1>2, <1>4, <1>6 DEF Thing
  <1> QED BY <1>5, <1>6

\* Items that are held are items of the command line.
LEMMA HeldItems ==
  ASSUME IInv, NEW p \in Procs, pc[p] # "new"
  PROVE  /\ held[p] \subseteq DOMAIN Line(p).items /\ held[p] \subseteq Nat
         /\ DOMAIN Line(p).items \subseteq Nat
         /\ \A i \in DOMAIN Line(p).items :
              /\ Line(p).items[i].stream \in Nat /\ Of(p, i) \in Kinds
              /\ Line(p).items[i].thing \in Things
              /\ Of(p, i) = "main" <=> Line(p).items[i].stream = 0
         /\ \A i, j \in DOMAIN Line(p).items :
              Line(p).items[i].stream = Line(p).items[j].stream /\ Of(p, i) = Of(p, j) => i = j
  <1>1. /\ SetupOK(Line(p))
        /\ Len(Line(p).items) \in Nat /\ DOMAIN Line(p).items = 1 .. Len(Line(p).items)
        /\ \A n \in DOMAIN Line(p).items : Line(p).items[n] \in Items
    BY LinesAreSetups DEF IInv, SetupOK
  <1>2. held[p] \subseteq DOMAIN Line(p).items
    BY <1>1 DEF IInv, TypeOK, Placed, PlacedAt
  <1>3. \A i \in DOMAIN Line(p).items :
          /\ Line(p).items[i].stream \in Nat /\ Of(p, i) \in Kinds
          /\ Line(p).items[i].thing \in Things
    BY <1>1 DEF Items, Of
  <1>4. \A i \in DOMAIN Line(p).items : Of(p, i) = "main" <=> Line(p).items[i].stream = 0
    BY <1>1 DEF SetupOK, Of
  <1>5. \A i, j \in DOMAIN Line(p).items :
          i < j /\ Line(p).items[i].stream = Line(p).items[j].stream => Of(p, i) # Of(p, j)
    BY <1>1 DEF SetupOK, Of
  <1>6. \A i, j \in DOMAIN Line(p).items : i = j \/ i < j \/ j < i
    BY <1>1
  <1>7. held[p] \subseteq Nat /\ DOMAIN Line(p).items \subseteq Nat
    BY <1>1, <1>2
  <1> QED BY <1>2, <1>3, <1>4, <1>5, <1>6, <1>7

\* Of the items of streams only one is first.
LEMMA OneIsFirst ==
  ASSUME IInv, NEW p \in Procs, pc[p] # "new",
         NEW i \in First(p, OfStreams(p)), NEW j \in First(p, OfStreams(p))
  PROVE  i = j
  <1> DEFINE Class(n) == CASE Of(p, n) = "program" -> 0 [] Of(p, n) = "lock" -> 1 [] OTHER -> 2
             s(n) == Line(p).items[n].stream
  <1>1. i \in OfStreams(p) /\ j \in OfStreams(p) /\ Rank(p, i) <= Rank(p, j) /\ Rank(p, j) <= Rank(p, i)
    BY DEF First
  <1>2. /\ i \in DOMAIN Line(p).items /\ j \in DOMAIN Line(p).items
        /\ Of(p, i) \in {"lock", "name", "program"} /\ Of(p, j) \in {"lock", "name", "program"}
        /\ s(i) \in Nat /\ s(j) \in Nat
    BY <1>1, HeldItems DEF OfStreams, Kinds
  <1>3. /\ Class(i) \in 0 .. 2 /\ Class(j) \in 0 .. 2
        /\ Class(i) = Class(j) => Of(p, i) = Of(p, j)
    BY <1>2
  <1>4. Rank(p, i) = 3 * s(i) + Class(i) /\ Rank(p, j) = 3 * s(j) + Class(j)
    BY DEF Rank
  <1> HIDE DEF Class
  <1>5. s(i) = s(j) /\ Class(i) = Class(j)
    BY <1>1, <1>2, <1>3, <1>4
  <1> QED BY <1>2, <1>3, <1>5, HeldItems

\* A lock that a child inherits for good has no place in sock[] later on either.
LEMMA StaysUnlisted ==
  ASSUME IInv, NEW p \in Kids, pc[p] \notin {"new", "serve", "born"}, Line(p).before <= done[p],
         NEW i \in held[p], i <= Line(p).before,
         Line(p).items[i].stream \notin {1, InHandAtFork(p)}
  PROVE  i \notin Listed(p)
  <1> DEFINE s == Line(p)
  <1>1. /\ p \in Procs /\ SetupOK(s) /\ Len(s.items) \in Nat /\ DOMAIN s.items = 1 .. Len(s.items)
        /\ s.before \in 0 .. Len(s.items)
    BY LinesAreSetups DEF IInv, SetupOK, Procs
  <1>2. /\ i \in DOMAIN s.items /\ done[p] \in Nat /\ \A n \in DOMAIN s.items : s.items[n].stream \in Nat
    BY <1>1, HeldItems DEF IInv, TypeOK
  <1>3. s.items[i].stream <= s.forks /\ s.first \in 1 .. 2 /\ s.second \in 1 .. 2
        /\ s.forks \in 0 .. s.first + s.second
    BY <1>1, <1>2 DEF SetupOK
  <1>4. done[p] < Len(s.items) => Item(p).stream > s.forks
    <2>1. \A n \in DOMAIN s.items : n <= s.before <=> s.items[n].stream <= s.forks
      BY <1>1 DEF SetupOK
    <2> SUFFICES ASSUME done[p] < Len(s.items) PROVE s.items[done[p] + 1].stream > s.forks
      BY DEF Item
    <2>2. done[p] + 1 \in DOMAIN s.items /\ ~(done[p] + 1 <= s.before)
      BY <1>1, <1>2
    <2>3. ~(s.items[done[p] + 1].stream <= s.forks)
      BY <2>1, <2>2
    <2>4. s.items[done[p] + 1].stream \in Nat /\ s.forks \in Nat
      BY <1>2, <1>3, <2>2
    <2> QED BY <2>3, <2>4
  <1>5. done[p] < Len(s.items) => Item(p).stream \in Nat
    BY <1>1, <1>2 DEF Item
  <1>6. s.items[i].stream # InHand(p)
    <2>1. CASE done[p] < Len(s.items)
      BY <1>2, <1>3, <1>4, <1>5, <2>1 DEF InHand, InHandAtFork
    <2>2. CASE ~(done[p] < Len(s.items))
      BY <1>2, <1>3, <2>2 DEF InHand, InHandAtFork
    <2> QED BY <2>1, <2>2
  <1> QED BY <1>6 DEF Listed

-----------------------------------------------------------------------------
\* A process that does not move, and whose files nobody makes anew.
LEMMA OthersKnow ==
  ASSUME IInv, NEW q \in Procs,
         UNCHANGED <<setup, Root(q), pc[q], held[q], done[q], ended[q]>>,
         \A x \in LockThings : Has(q, x) => Has(q, x)',
         \A t \in Things : owner'[t] = q => owner[t] = q,
         Knows(q)
  PROVE  Knows(q)'
  <1>1. /\ Line(q)' = Line(q) /\ InHandAtFork(q)' = InHandAtFork(q)
        /\ \A i : /\ Of(q, i)' = Of(q, i) /\ Thing(q, i)' = Thing(q, i)
                  /\ Rank(q, i)' = Rank(q, i) /\ Shared(q, i)' = Shared(q, i)
        /\ \A i, t : FileOf(q, i, t)' = FileOf(q, i, t)
    BY SameLine
  <1>2. /\ Item(q)' = Item(q) /\ OfStreams(q)' = OfStreams(q) /\ Own(q)' = Own(q)
        /\ InHand(q)' = InHand(q)
    BY <1>1 DEF Item, OfStreams, Own, InHand
  <1>3. First(q, OfStreams(q))' = First(q, OfStreams(q)) /\ Listed(q)' = Listed(q)
    BY <1>1, <1>2 DEF First, Listed
  <1>4. EndsAs(q)'
    BY <1>1, <1>2 DEF Knows, EndsAs
  <1>5. Inherits(q)'
    BY <1>1 DEF Knows, Inherits
  <1>6. StillHas(q)'
    <2> SUFFICES ASSUME pc[q] \in {"unlock", "exit"}, "closing" \notin ended[q], NEW i \in Own(q),
                        Of(q, i) = "lock" \/ (Of(q, i) = "main" /\ pc[q] = "unlock")
                 PROVE  Has(q, Thing(q, i))'
      BY <1>1, <1>2 DEF StillHas
    <2>1. Has(q, Thing(q, i))
      BY DEF Knows, StillHas
    <2>2. Thing(q, i) \in LockThings
      BY LockItems DEF IInv, Own, Locks
    <2> QED BY <1>1, <2>1, <2>2 DEF Has
  <1>7. Traced(q)'
    <2> SUFFICES ASSUME NEW t \in Things, owner'[t] = q, ~Excused(q)
                 PROVE  \E i \in Nat : FileOf(q, i, t)' /\ ToGiveUp(q, i)'
      BY DEF Traced, Excused
    <2>1. PICK i \in Nat : FileOf(q, i, t) /\ ToGiveUp(q, i)
      BY DEF Knows, Traced
    <2>2. ToGiveUp(q, i)'
      BY <1>1, <1>3, <2>1 DEF ToGiveUp
    <2> QED BY <1>1, <2>1, <2>2
  <1> QED BY <1>4, <1>5, <1>6, <1>7 DEF Knows

\* What is to be shown of a step of p.
LEMMA OneKnows ==
  ASSUME KInv, NEW p \in Procs, IInv', UNCHANGED setup,
         \A q \in Procs \ {p} : UNCHANGED <<Root(q), pc[q], held[q], done[q], ended[q]>>,
         \A q \in Procs \ {p} : \A x \in LockThings : Has(q, x) => Has(q, x)',
         \A q \in Procs \ {p} : \A t \in Things : owner'[t] = q => owner[t] = q,
         Knows(p)', ByStarter'
  PROVE  KInv'
  <1>1. \A q \in Procs \ {p} : Knows(q)'
    BY OthersKnow DEF KInv
  <1> QED BY <1>1 DEF KInv

\* Removing a thing takes nothing else from anybody, and gives nothing.
LEMMA RemovesOne ==
  ASSUME IInv, NEW p \in Procs, NEW t \in Owned, Remove(p, t)
  PROVE  /\ \A x \in Owned : owner'[x] = IF x = t THEN None ELSE owner[x]
         /\ \A q : \A x \in Owned : x # t /\ Has(q, x) => Has(q, x)'
         /\ \A q \in Procs \ {p} : \A x \in LockThings : Has(q, x) => Has(q, x)'
         /\ \A q \in Procs : \A x \in Things : owner'[x] = q => owner[x] = q
         /\ ByStarter => ByStarter'
  <1>1. \A x \in Owned : owner'[x] = IF x = t THEN None ELSE owner[x]
    BY DEF Remove, IInv, TypeOK
  <1>2. robbed \subseteq robbed'
    BY DEF Remove
  <1>3. \A q \in Procs \ {p} : \A x \in LockThings : Has(q, x) => Has(q, x)'
    BY OthersKeep DEF IInv
  <1>4. Things \subseteq Owned /\ \A q \in Procs, x \in Things : <<q, x>> \in Owned
    BY DEF Owned, Programs
  <1>5. None \notin Procs
    BY HoldingsAssumption
  <1>6. ByStarter => ByStarter'
    BY <1>1, <1>4 DEF ByStarter
  <1> QED BY <1>1, <1>2, <1>3, <1>4, <1>5, <1>6 DEF Has

\* Nothing is removed or made.
LEMMA NothingRemoved ==
  ASSUME UNCHANGED <<owner, robbed>>
  PROVE  /\ \A q, x : Has(q, x)' = Has(q, x)
         /\ ByStarter => ByStarter'
  BY DEF Has, ByStarter

\* A step of p alone that does not fork.
Alone(p) ==
  /\ UNCHANGED <<setup, parent>>
  /\ \A q \in Procs \ {p} : UNCHANGED <<pc[q], held[q], done[q], ended[q]>>

LEMMA AloneRoots ==
  ASSUME NEW p, Alone(p)
  PROVE  \A q : Root(q)' = Root(q)
  BY DEF Alone, Root

\* A step of p alone: it is enough to look at p, when nothing is made or removed ...
LEMMA OnlyKnows ==
  ASSUME KInv, NEW p \in Procs, IInv', Alone(p), Knows(p)', UNCHANGED <<owner, robbed>>
  PROVE  KInv'
  <1>1. UNCHANGED setup /\ ByStarter
    BY DEF Alone, KInv
  <1>2. \A q \in Procs \ {p} : UNCHANGED <<Root(q), pc[q], held[q], done[q], ended[q]>>
    BY AloneRoots DEF Alone
  <1>3. /\ \A q \in Procs \ {p} : \A x \in LockThings : Has(q, x) => Has(q, x)'
        /\ \A q \in Procs \ {p} : \A t \in Things : owner'[t] = q => owner[t] = q
        /\ ByStarter'
    BY <1>1, NothingRemoved
  <1> QED BY <1>1, <1>2, <1>3, OneKnows

\* ... and when one thing is removed.
LEMMA RemoverKnows ==
  ASSUME KInv, NEW p \in Procs, IInv', Alone(p), Knows(p)', NEW t \in Owned, Remove(p, t)
  PROVE  KInv'
  <1>1. UNCHANGED setup /\ ByStarter /\ IInv
    BY DEF Alone, KInv
  <1>2. \A q \in Procs \ {p} : UNCHANGED <<Root(q), pc[q], held[q], done[q], ended[q]>>
    BY AloneRoots DEF Alone
  <1>3. /\ \A q \in Procs \ {p} : \A x \in LockThings : Has(q, x) => Has(q, x)'
        /\ \A q \in Procs \ {p} : \A x \in Things : owner'[x] = q => owner[x] = q
        /\ ByStarter'
    BY <1>1, RemovesOne
  <1> QED BY <1>1, <1>2, <1>3, OneKnows

\* Error and signal: whatever was held is given up on the way out.
LEMMA ExitKnows ==
  ASSUME KInv, NEW p \in Procs, NEW how \in {"exit", "early", "unready", "closing"}, Exit(p, how),
         pc[p] \in {"born", "open", "making", "made", "serve", "work", "close", "closing"},
         pc[p] = "made" => how = "early", pc[p] = "closing" => how = "closing",
         pc[p] = "born" => how = "unready",
         UNCHANGED <<setup, parent, done, held, owner, robbed>>
  PROVE  Knows(p)' /\ Alone(p)
  <1>1. /\ pc' = [pc EXCEPT ![p] = "unlock"]
        /\ ended' = [ended EXCEPT ![p] = @ \cup {how}]
    BY DEF Exit, Goes, Marked
  <1>2. /\ pc'[p] = "unlock" /\ ended'[p] = ended[p] \cup {how} /\ Alone(p)
    BY <1>1 DEF Alone, KInv, IInv, TypeOK
  <1>3. /\ Line(p)' = Line(p) /\ InHandAtFork(p)' = InHandAtFork(p)
        /\ \A i : /\ Of(p, i)' = Of(p, i) /\ Thing(p, i)' = Thing(p, i)
                  /\ Shared(p, i)' = Shared(p, i)
        /\ \A i, t : FileOf(p, i, t)' = FileOf(p, i, t)
    BY <1>2, AloneRoots, SameLine DEF Alone
  <1>4. Own(p)' = Own(p)
    BY <1>3 DEF Own
  <1>5. EndsAs(p)'
    BY <1>2, <1>3 DEF KInv, Knows, EndsAs
  <1>6. Inherits(p)'
    BY <1>2, <1>3 DEF KInv, Knows, Inherits, Running
  <1>7. StillHas(p)'
    <2>1. CASE pc[p] = "closing"
      BY <1>2, <2>1 DEF StillHas
    <2>2. CASE pc[p] = "born"
      <3>1. Own(p) = {}
        <4>1. p \notin Masters /\ held[p] \subseteq 1 .. done[p] /\ done[p] = Line(p).before
          BY <2>2, HoldingsAssumption DEF KInv, IInv, Placed, PlacedAt
        <4>2. done[p] \in Nat
          BY DEF KInv, IInv, TypeOK
        <4> QED BY <4>1, <4>2 DEF Own
      <3> QED BY <1>4, <3>1 DEF StillHas
    <2>3. CASE pc[p] \notin {"born", "closing"}
      <3>1. \A i \in Own(p) : Of(p, i) \in Locks => Has(p, Thing(p, i))
        BY <2>3 DEF KInv, IInv, LocksHeld, Held, Active, Keeps
      <3> QED BY <1>3, <1>4, <3>1 DEF StillHas, Has, Locks
    <2> QED BY <2>1, <2>2, <2>3
  <1>8. Traced(p)'
    <2> SUFFICES ASSUME NEW t \in Things, owner[t] = p, ~Excused(p)'
                 PROVE  \E i \in Nat : FileOf(p, i, t)' /\ ToGiveUp(p, i)'
      BY DEF Traced
    <2>1. ~Excused(p) /\ how # "early"
      BY <1>2 DEF Excused
    <2>2. PICK i \in Nat : FileOf(p, i, t) /\ ToGiveUp(p, i)
      BY <2>1 DEF KInv, Knows, Traced
    <2>3. i \in held[p]
      BY <2>1, <2>2 DEF ToGiveUp
    <2> QED BY <1>2, <1>3, <2>2, <2>3 DEF ToGiveUp, Running
  <1> QED BY <1>2, <1>5, <1>6, <1>7, <1>8 DEF Knows

-----------------------------------------------------------------------------
\* An item more counts as held; it is the one that was made, or a program.
LEMMA OpenedKnows ==
  ASSUME KInv, NEW p \in Procs, pc[p] \in {"open", "made"}, OpensNext(p),
         UNCHANGED <<setup, parent, ended, robbed>>,
         \A t \in Things : owner'[t] = owner[t]
  PROVE  Knows(p)' /\ Alone(p)
  <1>1. /\ Root(p) \in Masters /\ SetupOK(Line(p)) /\ Len(Line(p).items) \in Nat
        /\ done[p] \in Nat /\ done[p] < Len(Line(p).items) /\ held[p] \subseteq 1 .. done[p]
        /\ Line(p).before \in 0 .. Len(Line(p).items)
    BY LinesAreSetups DEF KInv, IInv, TypeOK, Placed, PlacedAt
  <1>2. /\ pc'[p] \in {"serve", "work", "open"}
        /\ held'[p] = held[p] \cup {done[p] + 1} /\ done'[p] = done[p] + 1 /\ Alone(p)
    BY <1>1, StageRight DEF OpensNext, Alone, KInv, IInv, TypeOK
  <1>3. /\ Line(p)' = Line(p) /\ InHandAtFork(p)' = InHandAtFork(p)
        /\ \A i : Of(p, i)' = Of(p, i) /\ Shared(p, i)' = Shared(p, i)
        /\ \A i, t : FileOf(p, i, t)' = FileOf(p, i, t)
    BY <1>2, AloneRoots, SameLine DEF Alone
  <1>4. EndsAs(p) /\ Inherits(p) /\ Traced(p)
    BY DEF KInv, Knows
  <1>5. EndsAs(p)'
    BY <1>1, <1>2, <1>3, <1>4 DEF EndsAs
  <1>6. Inherits(p)'
    <2> SUFFICES ASSUME p \in Kids, "unready" \notin ended[p],
                        NEW i \in held'[p], i <= Line(p).before
                 PROVE  /\ Of(p, i) # "main"
                        /\ Of(p, i) = "lock" => Line(p).items[i].stream \notin {1, InHandAtFork(p)}
                        /\ Of(p, i) = "program" => Shared(p, i)
      BY <1>3 DEF Inherits
    <2>1. i \in held[p]
      BY <1>1, <1>2, <1>4 DEF EndsAs
    <2> QED BY <1>4, <2>1 DEF Inherits, Running
  <1>7. StillHas(p)'
    BY <1>2 DEF StillHas
  <1>8. Traced(p)'
    <2> SUFFICES ASSUME NEW t \in Things, owner'[t] = p, ~Excused(p)
                 PROVE  \E i \in Nat : FileOf(p, i, t)' /\ ToGiveUp(p, i)'
      BY DEF Traced, Excused
    <2>1. PICK i \in Nat : FileOf(p, i, t) /\ ToGiveUp(p, i)
      BY <1>4 DEF Traced
    <2>2. i \in held'[p]
      BY <1>2, <2>1 DEF ToGiveUp
    <2> QED BY <1>2, <1>3, <2>1, <2>2 DEF ToGiveUp, Running
  <1> QED BY <1>2, <1>5, <1>6, <1>7, <1>8 DEF Knows

\* Steps within the opening and the work: p still has to give up what it had to.
LEMMA GoesOnKnows ==
  ASSUME KInv, NEW p \in Procs, pc[p] \in {"open", "making", "work"},
         NEW to \in {"making", "made", "close"}, Goes(p, to),
         UNCHANGED <<setup, parent, done, held>>,
         \A q \in Procs \ {p} : ended'[q] = ended[q],
         ended'[p] = IF to = "close" THEN {"finish"} ELSE {},
         to \in {"making", "made"} => Item(p).kind # "program",
         to = "made" => pc[p] = "making",
         \A t \in Things : owner'[t] = p => owner[t] = p \/ (to = "made" /\ t = Item(p).thing)
  PROVE  Knows(p)' /\ Alone(p)
  <1>1. pc'[p] = to /\ Alone(p)
    BY DEF Goes, Alone, KInv, IInv, TypeOK
  <1>2. /\ Line(p)' = Line(p) /\ InHandAtFork(p)' = InHandAtFork(p)
        /\ \A i : Of(p, i)' = Of(p, i) /\ Shared(p, i)' = Shared(p, i)
        /\ \A i, t : FileOf(p, i, t)' = FileOf(p, i, t)
    BY <1>1, AloneRoots, SameLine DEF Alone
  <1>3. EndsAs(p) /\ Inherits(p) /\ Traced(p) /\ ended[p] = {}
    BY DEF KInv, Knows, EndsAs
  <1>4. EndsAs(p)'
    BY <1>1, <1>2, <1>3 DEF EndsAs, Item
  <1>5. Inherits(p)'
    BY <1>1, <1>2, <1>3 DEF Inherits, Running
  <1>6. StillHas(p)'
    BY <1>1 DEF StillHas
  <1>7. Traced(p)'
    <2> SUFFICES ASSUME NEW t \in Things, owner'[t] = p
                 PROVE  \E i \in Nat : FileOf(p, i, t)' /\ ToGiveUp(p, i)'
      BY DEF Traced
    <2>1. CASE owner[t] = p
      <3>1. PICK i \in Nat : FileOf(p, i, t) /\ ToGiveUp(p, i)
        BY <1>3, <2>1 DEF Traced, Excused
      <3>2. i \in held[p]
        BY <3>1 DEF ToGiveUp
      <3> QED BY <1>1, <1>2, <3>1, <3>2 DEF ToGiveUp, Running
    <2>2. CASE to = "made" /\ t = Item(p).thing
      <3>0. done[p] \in Nat /\ done[p] < Len(Line(p).items)
        BY <2>2 DEF KInv, IInv, TypeOK, Placed, PlacedAt
      <3>1. done[p] + 1 \in DOMAIN Line(p).items /\ done[p] + 1 \in Nat
        BY <2>2, <3>0, LinesAreSetups DEF KInv, IInv, SetupOK
      <3>2. FileOf(p, done[p] + 1, t)
        BY <2>2, <3>1 DEF FileOf, Item, Of
      <3>3. ToGiveUp(p, done[p] + 1)'
        BY <1>1, <2>2 DEF ToGiveUp
      <3> QED BY <1>2, <3>1, <3>2, <3>3
    <2> QED BY <2>1, <2>2
  <1> QED BY <1>1, <1>4, <1>5, <1>6, <1>7 DEF Knows

LEMMA OpeningKnows ==
  ASSUME KInv, NEW p \in Procs, Opening(p)
  PROVE  KInv'
  <1>1. /\ TypeOK /\ pc[p] \in {"open", "making", "made"} /\ ended[p] = {} /\ None \notin Procs
        /\ done[p] < Len(Line(p).items) /\ IInv' /\ IInv /\ EndsAs(p) /\ ByStarter
    BY OpeningKeeps, HoldingsAssumption DEF KInv, IInv, Knows, EndsAs, Opening, Look, Refuse, Clear, Make, Keep,
         StartProgram, Placed, PlacedAt
  <1>2. done[p] + 1 \in DOMAIN Line(p).items /\ Item(p) \in Items /\ Line(p) \in Setups
    <2>1. done[p] + 1 \in 1 .. Len(Line(p).items) /\ DOMAIN Line(p).items = 1 .. Len(Line(p).items)
      BY <1>1, LinesAreSetups DEF IInv, TypeOK, SetupOK
    <2> QED BY <1>1, <2>1, LinesAreSetups DEF IInv, Item
  <1>3. Item(p).thing \in Things /\ Things \subseteq Owned
        /\ \A q \in Procs, x \in Things : <<q, x>> \in Programs
    BY <1>2 DEF Items, Owned, Programs
  \* It is enough to look at p, at its neighbours' locks and files, and at programs.
  <1>4. ASSUME Knows(p)', Alone(p), ByStarter',
               \A q \in Procs \ {p} : \A x \in LockThings : Has(q, x) => Has(q, x)',
               \A q \in Procs \ {p} : \A t \in Things : owner'[t] = q => owner[t] = q
        PROVE  KInv'
    BY <1>1, <1>4, AloneRoots, OneKnows DEF Alone
  <1>5. CASE Look(p)
    <2>1. Knows(p)' /\ Alone(p)
      <3>1. Item(p).kind # "program" /\ ended'[p] = {} /\ pc[p] = "open"
        BY <1>1, <1>5 DEF Look, Locks
      <3> QED BY <1>5, <3>1, GoesOnKnows DEF Look
    <2> QED BY <1>1, <1>4, <1>5, <2>1, NothingRemoved DEF Look
  <1>6. CASE Refuse(p)
    <2>1. Knows(p)' /\ Alone(p)
      BY <1>6, ExitKnows DEF Refuse
    <2> QED BY <1>1, <1>4, <1>6, <2>1, NothingRemoved DEF Refuse
  <1>7. CASE Clear(p)
    <2>1. Item(p).thing \notin LockThings
      BY <1>2, <1>7, HoldingsAssumption DEF Clear, Item, Locks
    <2>2. \A t \in Owned : owner'[t] = IF t = Item(p).thing THEN None ELSE owner[t]
      BY <1>1, <1>7 DEF Clear, TypeOK
    <2>3. Knows(p)' /\ Alone(p)
      <3>1. Item(p).kind # "program" /\ ended'[p] = {} /\ pc[p] = "open"
        BY <1>1, <1>7 DEF Clear
      <3>2. \A t \in Things : owner'[t] = p => owner[t] = p
        BY <1>1, <1>3, <2>2
      <3> QED BY <1>7, <3>1, <3>2, GoesOnKnows DEF Clear
    <2>4. \A q \in Procs : \A x \in LockThings : Has(q, x) => Has(q, x)'
      BY <1>3, <1>7, <2>1, <2>2, LockThingsAreThings DEF Clear, Has
    <2>5. ByStarter'
      BY <1>1, <1>3, <2>2, HoldingsAssumption DEF ByStarter, Owned
    <2> QED BY <1>1, <1>3, <1>4, <2>2, <2>3, <2>4, <2>5
  <1>8. CASE Make(p)
    <2>1. CASE owner[Item(p).thing] = None
      <3>1. \A t \in Owned : owner'[t] = IF t = Item(p).thing THEN p ELSE owner[t]
        BY <1>1, <1>8, <2>1 DEF Make, TypeOK
      <3>2. Knows(p)' /\ Alone(p)
        <4>1. Item(p).kind # "program" /\ ended'[p] = {} /\ pc[p] = "making"
          BY <1>1, <1>8, <2>1 DEF Make, EndsAs
        <4>2. \A x \in Things : owner'[x] = p => owner[x] = p \/ x = Item(p).thing
          BY <1>3, <3>1
        <4> QED BY <1>8, <2>1, <4>1, <4>2, GoesOnKnows DEF Make
      <3>3. \A q \in Procs : \A x \in LockThings : Has(q, x) => Has(q, x)'
        BY <1>1, <1>3, <1>8, <2>1, <3>1, LockThingsAreThings DEF Make, Has
      <3>4. ByStarter'
        <4> SUFFICES ASSUME NEW q \in Procs, NEW x \in Things
                     PROVE  owner'[<<q, x>>] = owner[<<q, x>>]
          BY <1>1 DEF ByStarter
        <4>1. <<q, x>> \in Owned /\ <<q, x>> # Item(p).thing
          BY <1>3, HoldingsAssumption DEF Owned
        <4> QED BY <3>1, <4>1
      <3> QED BY <1>3, <1>4, <3>1, <3>2, <3>3, <3>4
    <2>2. CASE owner[Item(p).thing] # None
      <3>1. Knows(p)' /\ Alone(p)
        BY <1>8, <2>2, ExitKnows DEF Make
      <3> QED BY <1>1, <1>4, <1>8, <2>2, <3>1, NothingRemoved DEF Make
    <2> QED BY <2>1, <2>2
  <1>9. CASE Keep(p)
    <2>1. Knows(p)' /\ Alone(p)
      BY <1>9, OpenedKnows DEF Keep, Opened, OpensNext, Goes
    <2> QED BY <1>1, <1>4, <1>9, <2>1, NothingRemoved DEF Keep
  <1>10. CASE StartProgram(p)
    <2> DEFINE t == Thing(p, done[p] + 1)
    <2>1. owner' = [owner EXCEPT ![t] = p] /\ robbed' = robbed
      BY <1>10 DEF StartProgram
    <2>2. t = <<p, Item(p).thing>>
      <3>1. Of(p, done[p] + 1) = "program" /\ Line(p).items[done[p] + 1].thing = Item(p).thing
        BY <1>10 DEF StartProgram, Of, Item
      <3>2. Starter(p, done[p] + 1) = p
        <4>1. CASE p \in Masters
          BY <4>1 DEF Starter, Root
        <4>2. CASE p \in Kids
          <5>1. Line(p).before <= done[p] /\ Line(p).before \in Int /\ done[p] \in Nat
            BY <1>1, <4>2, LinesAreSetups DEF EndsAs, IInv, TypeOK
          <5> QED BY <5>1 DEF Starter
        <4> QED BY <4>1, <4>2 DEF Procs
      <3> QED BY <3>1, <3>2 DEF Thing
    <2>3. t \in Programs /\ t \notin Things
      BY <1>3, <2>2, HoldingsAssumption
    <2>4. \A x \in Things : owner'[x] = owner[x]
      BY <1>1, <1>3, <2>1, <2>3 DEF TypeOK
    <2>5. Knows(p)' /\ Alone(p)
      BY <1>10, <2>4, OpenedKnows DEF StartProgram, Opened, OpensNext, Goes
    <2>6. \A q : \A x \in LockThings : Has(q, x) => Has(q, x)'
      BY <2>1, <2>4, LockThingsAreThings DEF Has
    <2>7. ByStarter'
      <3> SUFFICES ASSUME NEW q \in Procs, NEW x \in Things PROVE owner'[<<q, x>>] \in {None, q}
        BY DEF ByStarter
      <3>1. <<q, x>> \in Owned /\ (<<q, x>> = t => q = p)
        BY <1>3, <2>2 DEF Owned
      <3> QED BY <1>1, <2>1, <3>1 DEF ByStarter, TypeOK
    <2> QED BY <1>4, <2>4, <2>5, <2>6, <2>7
  <1> QED BY <1>5, <1>6, <1>7, <1>8, <1>9, <1>10 DEF Opening

-----------------------------------------------------------------------------
\* What a child still has after xio_forked_inchild it inherits for good.
LEMMA AdoptKnows ==
  ASSUME KInv, NEW p \in Procs, Adopt(p)
  PROVE  KInv'
  <1>1. /\ UNCHANGED <<setup, parent, done, owner, ended, robbed>> /\ pc[p] = "born"
        /\ pc' = [pc EXCEPT ![p] = Stage(p, done[p])]
        /\ held' = [held EXCEPT ![p] = @ \ Dropped(p)]
    BY DEF Adopt, Goes
  <1>2. /\ IInv /\ p \in Kids /\ p \notin Masters /\ done[p] = Line(p).before /\ done[p] \in Nat
        /\ done[p] <= Len(Line(p).items) /\ Len(Line(p).items) \in Nat /\ ended[p] = {}
        /\ EndsAs(p) /\ Traced(p) /\ ByStarter
    BY <1>1, LinesAreSetups, HoldingsAssumption
    DEF KInv, IInv, TypeOK, Placed, PlacedAt, Knows, EndsAs
  <1>3. /\ pc'[p] \in {"work", "open"} /\ held'[p] = held[p] \ Dropped(p) /\ Alone(p)
        /\ ended'[p] = {}
    BY <1>1, <1>2, StageRight DEF IInv, TypeOK, Alone
  <1>4. /\ Line(p)' = Line(p) /\ InHandAtFork(p)' = InHandAtFork(p)
        /\ \A i : Of(p, i)' = Of(p, i) /\ Shared(p, i)' = Shared(p, i)
    BY <1>1, <1>3, AloneRoots, SameLine
  <1>5. EndsAs(p)'
    BY <1>1, <1>2, <1>3, <1>4 DEF EndsAs
  <1>6. Inherits(p)'
    <2> SUFFICES ASSUME NEW i \in held[p] \ Dropped(p)
                 PROVE  /\ Of(p, i) # "main"
                        /\ Of(p, i) = "lock" => Line(p).items[i].stream \notin {1, InHandAtFork(p)}
                        /\ Of(p, i) = "program" => Shared(p, i)
      BY <1>3, <1>4 DEF Inherits
    <2>1. InHand(p) = InHandAtFork(p)
      BY <1>1 DEF InHand, InHandAtFork
    <2>2. i \in DOMAIN Line(p).items
      BY <1>1, <1>2, HeldItems
    <2> QED BY <2>1, <2>2 DEF Dropped, Listed
  <1>7. StillHas(p)'
    BY <1>3 DEF StillHas
  <1>8. Traced(p)'
    <2>1. \A t \in Things : owner[t] # p
      BY <1>1, <1>2 DEF Traced, ToGiveUp, Excused, Running
    <2> QED BY <1>1, <2>1 DEF Traced
  <1>9. Knows(p)'
    BY <1>5, <1>6, <1>7, <1>8 DEF Knows
  <1>10. IInv'
    BY <1>2, AdoptKeeps
  <1>11. Alone(p)
    BY <1>1, <1>3 DEF Alone
  <1> QED BY <1>1, <1>9, <1>10, <1>11, OnlyKnows

\* A newborn owns nothing.
LEMMA ForkKnows ==
  ASSUME KInv, NEW p \in Procs, NEW k \in Kids, Fork(p, k)
  PROVE  KInv'
  <1>1. /\ IInv /\ IInv' /\ ByStarter /\ k \in Procs /\ k \notin Masters /\ p \in Masters
        /\ p # k /\ pc[k] = "new" /\ pc[p] = "serve" /\ done[p] = Line(p).before /\ done[p] \in Nat
        /\ ended[k] = {} /\ Traced(k)
    BY ForkKeeps, HoldingsAssumption DEF KInv, IInv, TypeOK, Placed, PlacedAt, Fork, Knows, EndsAs, Procs
  <1>2. /\ UNCHANGED <<setup, owner, ended, robbed>>
        /\ pc'[k] = "born" /\ done'[k] = done[p] /\ parent'[k] = p
        /\ \A q \in Procs \ {k} : UNCHANGED <<Root(q), pc[q], held[q], done[q], ended[q]>>
    BY <1>1 DEF Fork, Goes, Root, IInv, TypeOK, Procs
  <1>3. Line(k)' = Line(p)
    BY <1>1, <1>2 DEF Line, Root
  <1>4. EndsAs(k)'
    BY <1>1, <1>2, <1>3 DEF EndsAs
  <1>5. Inherits(k)' /\ StillHas(k)'
    BY <1>2 DEF Inherits, StillHas, Running
  <1>6. Traced(k)'
    <2>1. \A t \in Things : owner[t] # k
      BY <1>1 DEF Traced, ToGiveUp, Excused, Running
    <2> QED BY <1>2, <2>1 DEF Traced
  <1>7. Knows(k)'
    BY <1>4, <1>5, <1>6 DEF Knows
  <1> QED BY <1>1, <1>2, <1>7, NothingRemoved, OneKnows

LEMMA FinishKnows ==
  ASSUME KInv, NEW p \in Procs, Finish(p)
  PROVE  KInv'
  <1>1. /\ IInv /\ IInv' /\ ByStarter /\ pc[p] = "work" /\ ended[p] = {}
        /\ ended' = [ended EXCEPT ![p] = @ \cup {"finish"}]
        /\ UNCHANGED <<setup, parent, done, held, owner, robbed>> /\ Goes(p, "close")
    BY FinishKeeps DEF KInv, Knows, EndsAs, Finish, Marked
  <1>2. ended'[p] = {"finish"} /\ \A q \in Procs \ {p} : ended'[q] = ended[q]
    BY <1>1 DEF IInv, TypeOK
  <1>3. Knows(p)' /\ Alone(p)
    BY <1>1, <1>2, GoesOnKnows
  <1> QED BY <1>1, <1>3, OnlyKnows

\* A signal or an error.
LEMMA StoppedKnows ==
  ASSUME KInv, NEW p \in Procs, Fail(p) \/ Signal(p)
  PROVE  KInv'
  <1>1. IInv' /\ ByStarter /\ UNCHANGED <<setup, parent, done, held, owner, robbed>>
    BY EndsKeep DEF KInv, Fail, Signal
  <1>2. Knows(p)' /\ Alone(p)
    <2>1. CASE Fail(p)
      BY <2>1, ExitKnows DEF Fail
    <2>2. CASE Signal(p)
      BY <2>2, ExitKnows DEF Signal, Found
    <2> QED BY <2>1, <2>2
  <1> QED BY <1>1, <1>2, OnlyKnows

\* Killed, or stopped in what exit does: nothing is promised.
LEMMA KilledKnows ==
  ASSUME KInv, NEW p \in Procs, SignalAgain(p) \/ Crash(p)
  PROVE  KInv'
  <1>1. IInv /\ IInv' /\ ByStarter /\ Inherits(p) /\ StillHas(p) /\ EndsAs(p)
        /\ UNCHANGED <<setup, parent, done, owner, robbed>>
    BY EndsKeep DEF KInv, Knows, SignalAgain, Crash
  <1>2. /\ pc[p] # "new" /\ pc'[p] \in {"exit", "gone"} /\ Alone(p) /\ Excused(p)'
        /\ pc'[p] = "exit" => /\ pc[p] = "unlock" /\ held'[p] = held[p]
                              /\ ended[p] \subseteq ended'[p] /\ "again" \in ended'[p]
    <2>1. CASE SignalAgain(p)
      <3>1. /\ pc[p] \in {"unlock", "exit"} /\ ended' = [ended EXCEPT ![p] = @ \cup {"again"}]
            /\ pc' = [pc EXCEPT ![p] = IF pc[p] = "unlock" THEN "exit" ELSE "gone"]
            /\ held' = [held EXCEPT ![p] = IF pc[p] = "unlock" THEN @ ELSE {}]
        BY <2>1 DEF SignalAgain, Goes, Marked
      <3> QED BY <1>1, <3>1 DEF Alone, IInv, TypeOK, Excused
    <2>2. CASE Crash(p)
      BY <1>1, <2>2 DEF Crash, Goes, Alone, IInv, TypeOK, Excused
    <2> QED BY <2>1, <2>2
  <1>3. /\ Line(p)' = Line(p) /\ InHandAtFork(p)' = InHandAtFork(p)
        /\ \A i : /\ Of(p, i)' = Of(p, i) /\ Shared(p, i)' = Shared(p, i)
                  /\ Thing(p, i)' = Thing(p, i)
    <2>1. setup' = setup /\ Root(p)' = Root(p)
      BY <1>1, <1>2, AloneRoots
    <2> QED BY <2>1, SameLine
  <1>4. EndsAs(p)'
    BY <1>1, <1>2, <1>3 DEF EndsAs
  <1>5. Inherits(p)'
    BY <1>1, <1>2, <1>3 DEF Inherits, Running
  <1>6. StillHas(p)'
    BY <1>1, <1>2, <1>3 DEF StillHas, Own, Has
  <1>7. Traced(p)'
    BY <1>2 DEF Traced
  <1>8. Knows(p)'
    BY <1>4, <1>5, <1>6, <1>7 DEF Knows
  <1> QED BY <1>1, <1>2, <1>8, OnlyKnows

-----------------------------------------------------------------------------
\* On the way out a process only loses items.
LEMMA LeavingKnows ==
  ASSUME KInv, NEW p \in Procs, pc[p] \in {"close", "closing", "unlock", "exit"},
         NEW to \in {"close", "closing", "unlock", "exit", "gone"}, pc' = [pc EXCEPT ![p] = to],
         NEW h \in SUBSET held[p], held' = [held EXCEPT ![p] = h],
         UNCHANGED <<setup, parent, done, ended>>
  PROVE  /\ Alone(p) /\ pc'[p] = to /\ held'[p] = h
         /\ Line(p)' = Line(p) /\ Own(p)' \subseteq Own(p) /\ OfStreams(p)' = OfStreams(p) \cap h
         /\ \A i : Of(p, i)' = Of(p, i) /\ Thing(p, i)' = Thing(p, i)
         /\ \A i, t : FileOf(p, i, t)' = FileOf(p, i, t)
         /\ h = held[p] => Own(p)' = Own(p) /\ First(p, OfStreams(p))' = First(p, OfStreams(p))
         /\ Inherits(p)'
         /\ \/ to \in {"close", "closing"} /\ pc[p] \in {"close", "closing"}
            \/ to \in {"unlock", "exit"} /\ (ended[p] = {"finish"} => OfStreams(p)' = {})
            \/ to = "gone"
            => EndsAs(p)'
  <1>1. Alone(p) /\ pc'[p] = to /\ held'[p] = h
    BY DEF Alone, KInv, IInv, TypeOK
  <1>2. /\ Line(p)' = Line(p) /\ InHandAtFork(p)' = InHandAtFork(p)
        /\ \A i : /\ Of(p, i)' = Of(p, i) /\ Thing(p, i)' = Thing(p, i)
                  /\ Shared(p, i)' = Shared(p, i) /\ Rank(p, i)' = Rank(p, i)
        /\ \A i, t : FileOf(p, i, t)' = FileOf(p, i, t)
    BY <1>1, AloneRoots, SameLine
  <1>3. OfStreams(p)' = OfStreams(p) \cap h /\ Own(p)' \subseteq Own(p)
    BY <1>1, <1>2 DEF OfStreams, Own
  <1>4. h = held[p] => Own(p)' = Own(p) /\ First(p, OfStreams(p))' = First(p, OfStreams(p))
    BY <1>1, <1>2, <1>3 DEF Own, First, OfStreams
  <1>5. Inherits(p)'
    BY <1>1, <1>2 DEF KInv, Knows, Inherits, Running
  <1>6. EndsAs(p)
    BY DEF KInv, Knows
  <1>7. \/ to \in {"close", "closing"} /\ pc[p] \in {"close", "closing"}
        \/ to \in {"unlock", "exit"} /\ (ended[p] = {"finish"} => OfStreams(p)' = {})
        \/ to = "gone"
        => EndsAs(p)'
    BY <1>1, <1>2, <1>6 DEF EndsAs
  <1> QED BY <1>1, <1>2, <1>3, <1>4, <1>5, <1>7

\* The first item is removed: of what is left each is another thing.
LEMMA CloseKnows ==
  ASSUME KInv, NEW p \in Procs, Close(p)
  PROVE  KInv'
  <1>1. /\ IInv /\ IInv' /\ ByStarter /\ EndsAs(p) /\ Traced(p) /\ pc[p] = "close" /\ held \in [Procs -> SUBSET Nat]
        /\ UNCHANGED <<setup, parent, done, held, ended>> /\ held' = [held EXCEPT ![p] = held[p]]
    BY CloseKeeps DEF KInv, Knows, Close, IInv, TypeOK
  <1>2. CASE OfStreams(p) = {} /\ Goes(p, "unlock") /\ UNCHANGED <<owner, robbed>>
    <2>1. /\ Alone(p) /\ pc'[p] = "unlock" /\ Inherits(p)' /\ EndsAs(p)' /\ Own(p)' = Own(p)
          /\ \A i : Of(p, i)' = Of(p, i) /\ Thing(p, i)' = Thing(p, i)
          /\ \A i, t : FileOf(p, i, t)' = FileOf(p, i, t)
      <3>1. pc' = [pc EXCEPT ![p] = "unlock"] /\ held[p] \in SUBSET held[p]
        BY <1>2 DEF Goes
      <3>2. OfStreams(p)' = OfStreams(p) \cap held[p]
        BY <1>1, <3>1, LeavingKnows
      <3>3. OfStreams(p)' = {}
        BY <1>2, <3>2
      <3> QED BY <1>1, <3>1, <3>3, LeavingKnows
    <2>2. \A i \in Own(p) : Of(p, i) \in Locks => Has(p, Thing(p, i))
      BY <1>1 DEF IInv, LocksHeld, Held, Active, Keeps
    <2>3. StillHas(p)'
      BY <1>2, <2>1, <2>2 DEF StillHas, Locks, Has
    <2>4. Traced(p)'
      <3> SUFFICES ASSUME NEW t \in Things, owner[t] = p, ~Excused(p)
                   PROVE  \E i \in Nat : FileOf(p, i, t)' /\ ToGiveUp(p, i)'
        BY <1>1, <1>2 DEF Traced, Excused
      <3>1. PICK i \in Nat : FileOf(p, i, t) /\ ToGiveUp(p, i)
        BY <1>1 DEF Traced
      <3> QED BY <1>1, <2>1, <3>1 DEF ToGiveUp, Running
    <2>5. Knows(p)'
      BY <2>1, <2>3, <2>4 DEF Knows
    <2> QED BY <1>1, <1>2, <2>1, <2>5, OnlyKnows
  <1>3. ASSUME NEW i \in First(p, OfStreams(p)), Remove(p, Thing(p, i)), Goes(p, "closing")
        PROVE  KInv'
    <2>1. /\ Alone(p) /\ pc'[p] = "closing" /\ Inherits(p)' /\ EndsAs(p)' /\ held'[p] = held[p]
          /\ First(p, OfStreams(p))' = First(p, OfStreams(p))
          /\ \A j, t : FileOf(p, j, t)' = FileOf(p, j, t)
      <3>1. pc' = [pc EXCEPT ![p] = "closing"] /\ held[p] \in SUBSET held[p]
        BY <1>3 DEF Goes
      <3> QED BY <1>1, <3>1, LeavingKnows
    <2>2. i \in held[p] /\ Thing(p, i) \in Owned
      BY <1>1, <1>3, LinesAreSetups DEF First, OfStreams, IInv
    <2>3. StillHas(p)'
      BY <2>1 DEF StillHas
    <2>4. Traced(p)'
      <3> SUFFICES ASSUME NEW t \in Things, owner'[t] = p, ~Excused(p)
                   PROVE  \E j \in Nat : FileOf(p, j, t)' /\ ToGiveUp(p, j)'
        BY <1>1 DEF Traced, Excused
      <3>1. owner[t] = p /\ t # Thing(p, i)
        BY <1>1, <1>3, <2>2, RemovesOne, HoldingsAssumption DEF Owned
      <3>2. PICK j \in Nat : FileOf(p, j, t) /\ ToGiveUp(p, j)
        BY <1>1, <3>1 DEF Traced
      <3>3. j \in held[p] /\ Thing(p, j) = t
        BY <1>1, <3>2 DEF ToGiveUp, FileOf, Thing
      <3>4. j \notin First(p, OfStreams(p))
        BY <1>1, <1>3, <3>1, <3>3, OneIsFirst
      <3> QED BY <2>1, <3>2, <3>3, <3>4 DEF ToGiveUp, Running
    <2>5. Knows(p)'
      BY <2>1, <2>3, <2>4 DEF Knows
    <2> QED BY <1>1, <1>3, <2>1, <2>2, <2>5, RemoverKnows
  <1> QED BY <1>2, <1>3 DEF Close

LEMMA ClosedKnows ==
  ASSUME KInv, NEW p \in Procs, Closed(p)
  PROVE  KInv'
  <1> DEFINE h == held[p] \ First(p, OfStreams(p))
  <1>1. /\ IInv' /\ ByStarter /\ Traced(p) /\ pc[p] = "closing"
        /\ UNCHANGED <<setup, parent, done, owner, ended, robbed>>
        /\ pc' = [pc EXCEPT ![p] = "close"] /\ held' = [held EXCEPT ![p] = h]
    BY ClosedKeeps DEF KInv, Knows, Closed, Goes
  <1>2. /\ Alone(p) /\ pc'[p] = "close" /\ held'[p] = h /\ Inherits(p)' /\ EndsAs(p)'
        /\ \A j, t : FileOf(p, j, t)' = FileOf(p, j, t)
    <2>1. h \in SUBSET held[p]
      OBVIOUS
    <2> HIDE DEF h
    <2> QED BY <1>1, <2>1, LeavingKnows
  <1>3. StillHas(p)'
    BY <1>2 DEF StillHas
  <1>4. Traced(p)'
    <2> SUFFICES ASSUME NEW t \in Things, owner[t] = p, ~Excused(p)
                 PROVE  \E j \in Nat : FileOf(p, j, t)' /\ ToGiveUp(p, j)'
      BY <1>1 DEF Traced, Excused
    <2>1. PICK j \in Nat : FileOf(p, j, t) /\ ToGiveUp(p, j)
      BY <1>1 DEF Traced
    <2>2. j \in h
      BY <1>1, <2>1 DEF ToGiveUp
    <2> QED BY <1>2, <2>1, <2>2 DEF ToGiveUp, Running
  <1>5. Knows(p)'
    BY <1>2, <1>3, <1>4 DEF Knows
  <1> QED BY <1>1, <1>2, <1>5, OnlyKnows

\* The lock of the process is one item, and the last that is no stream's.
LEMMA ExitUnlockKnows ==
  ASSUME KInv, NEW p \in Procs, ExitUnlock(p)
  PROVE  KInv'
  <1>1. /\ IInv /\ IInv' /\ ByStarter /\ EndsAs(p) /\ StillHas(p) /\ Traced(p) /\ pc[p] = "unlock"
        /\ UNCHANGED <<setup, parent, done, held, ended>> /\ held' = [held EXCEPT ![p] = held[p]]
        /\ pc' = [pc EXCEPT ![p] = "exit"] /\ held[p] \in SUBSET held[p]
    BY EndsKeep DEF KInv, Knows, ExitUnlock, Goes, IInv, TypeOK
  <1>2. /\ Alone(p) /\ pc'[p] = "exit" /\ held'[p] = held[p] /\ Inherits(p)' /\ Own(p)' = Own(p)
        /\ \A i : Of(p, i)' = Of(p, i) /\ Thing(p, i)' = Thing(p, i)
        /\ \A i, t : FileOf(p, i, t)' = FileOf(p, i, t)
        /\ OfStreams(p)' = OfStreams(p) \cap held[p]
    BY <1>1, LeavingKnows
  <1>3. EndsAs(p)'
    <2>1. ended[p] = {"finish"} => OfStreams(p)' = {}
      BY <1>1, <1>2 DEF EndsAs
    <2> QED BY <1>1, <2>1, LeavingKnows
  \* What is not removed is still there, and no longer the lock of the process.
  <1>4. ASSUME \A i \in held[p] : Of(p, i) = "lock" /\ Has(p, Thing(p, i)) => Has(p, Thing(p, i))',
               \A t \in Things : owner'[t] = p =>
                 owner[t] = p /\ \A i \in held[p] : FileOf(p, i, t) => Of(p, i) # "main"
        PROVE  Knows(p)'
    <2>1. StillHas(p)'
      BY <1>1, <1>2, <1>4 DEF StillHas, Own
    <2>2. Traced(p)'
      <3> SUFFICES ASSUME NEW t \in Things, owner'[t] = p, ~Excused(p)
                   PROVE  \E j \in Nat : FileOf(p, j, t)' /\ ToGiveUp(p, j)'
        BY <1>1 DEF Traced, Excused
      <3>1. owner[t] = p
        BY <1>4
      <3>2. PICK j \in Nat : FileOf(p, j, t) /\ ToGiveUp(p, j)
        BY <1>1, <3>1 DEF Traced
      <3>3. j \in held[p]
        BY <1>1, <3>2 DEF ToGiveUp
      <3> QED BY <1>2, <1>4, <3>2, <3>3 DEF ToGiveUp, Running
    <2> QED BY <1>2, <1>3, <2>1, <2>2 DEF Knows
  <1>5. CASE held[p] = OfStreams(p) /\ UNCHANGED <<owner, robbed>>
    <2>1. \A i \in held[p] : Of(p, i) # "main"
      BY <1>5 DEF OfStreams
    <2>2. \A i \in held[p] : Has(p, Thing(p, i)) => Has(p, Thing(p, i))'
      BY <1>2, <1>5 DEF Has
    <2>3. Knows(p)'
      BY <1>4, <1>5, <2>1, <2>2
    <2> QED BY <1>1, <1>2, <1>5, <2>3, OnlyKnows
  <1>6. ASSUME NEW i \in held[p] \ OfStreams(p), Remove(p, Thing(p, i))
        PROVE  KInv'
    <2>1. Thing(p, i) \in Owned /\ Of(p, i) = "main"
      BY <1>1, LinesAreSetups DEF IInv, OfStreams
    <2>2. \A j \in held[p] : /\ Of(p, j) = "main" => j = i
                             /\ Of(p, j) = "lock" => Thing(p, j) # Thing(p, i) /\ Thing(p, j) \in Owned
      <3>1. \A j \in held[p] : Of(p, j) = "main" => j = i
        BY <1>1, <2>1, HeldItems
      <3>2. \A j \in held[p] : Of(p, j) = "lock" => Thing(p, j) # Thing(p, i)
        BY <1>1, <2>1, HeldItems, Distinct
      <3> QED BY <1>1, <3>1, <3>2, LinesAreSetups DEF IInv
    <2>3. \A t \in Things : owner'[t] = p =>
            owner[t] = p /\ \A j \in held[p] : FileOf(p, j, t) => Of(p, j) # "main"
      <3>1. \A t \in Things : owner'[t] = p => owner[t] = p /\ t # Thing(p, i)
        BY <1>1, <1>6, <2>1, RemovesOne, HoldingsAssumption DEF Owned
      <3> QED BY <2>1, <2>2, <3>1 DEF FileOf, Thing
    <2>4. \A j \in held[p] : Of(p, j) = "lock" /\ Has(p, Thing(p, j)) => Has(p, Thing(p, j))'
      <3> SUFFICES ASSUME NEW j \in held[p], Of(p, j) = "lock", Has(p, Thing(p, j))
                   PROVE  Has(p, Thing(p, j))'
        OBVIOUS
      <3>1. \A x \in Owned : x # Thing(p, i) /\ Has(p, x) => x \in robbed' \/ owner'[x] = p
        <4>1. IInv /\ Thing(p, i) \in Owned /\ Remove(p, Thing(p, i))
          BY <1>1, <1>6, <2>1
        <4>2. \A x \in Owned : x # Thing(p, i) /\ Has(p, x) => Has(p, x)'
          BY <4>1, RemovesOne
        <4> QED BY <4>2 DEF Has
      <3> QED BY <1>2, <2>2, <3>1 DEF Has
    <2>5. Knows(p)'
      BY <1>4, <2>3, <2>4
    <2> QED BY <1>1, <1>2, <1>6, <2>1, <2>5, RemoverKnows
  <1> QED BY <1>5, <1>6 DEF ExitUnlock

\* xioexit: an item that it does not reach is not in sock[].
LEMMA ExitCloseKnows ==
  ASSUME KInv, NEW p \in Procs, ExitClose(p)
  PROVE  KInv'
  <1>1. /\ IInv /\ IInv' /\ ByStarter /\ EndsAs(p) /\ StillHas(p) /\ Traced(p) /\ pc[p] = "exit"
        /\ UNCHANGED <<setup, parent, done, ended>>
    BY EndsKeep DEF KInv, Knows, ExitClose
  <1>2. CASE Reached(p) = {} /\ Goes(p, "gone") /\ held' = [held EXCEPT ![p] = {}] /\ UNCHANGED <<owner, robbed>>
    <2>1. pc' = [pc EXCEPT ![p] = "gone"] /\ {} \in SUBSET held[p]
      BY <1>2 DEF Goes
    <2>2. /\ Alone(p) /\ pc'[p] = "gone" /\ Inherits(p)' /\ EndsAs(p)' /\ Line(p)' = Line(p)
          /\ \A i, t : FileOf(p, i, t)' = FileOf(p, i, t)
      BY <1>1, <1>2, <2>1, LeavingKnows
    <2>3. StillHas(p)'
      BY <2>2 DEF StillHas
    <2>4. Listed(p)' = Listed(p)
      BY <1>1, <2>2 DEF Listed, InHand, Item
    <2>5. Traced(p)'
      <3> SUFFICES ASSUME NEW t \in Things, owner[t] = p, ~Excused(p)
                   PROVE  \E j \in Nat : FileOf(p, j, t)' /\ ToGiveUp(p, j)'
        BY <1>1, <1>2 DEF Traced, Excused
      <3>1. PICK j \in Nat : FileOf(p, j, t) /\ ToGiveUp(p, j)
        BY <1>1 DEF Traced
      <3>2. j \in OfStreams(p)
        BY <1>1, <3>1 DEF ToGiveUp, OfStreams
      <3>3. j \notin Listed(p) /\ ended[p] # {"finish"}
        BY <1>1, <1>2, <3>2 DEF Reached, EndsAs
      <3> QED BY <1>1, <2>2, <2>4, <3>1, <3>3 DEF ToGiveUp
    <2>6. Knows(p)'
      BY <2>2, <2>3, <2>5 DEF Knows
    <2> QED BY <1>1, <1>2, <2>2, <2>6, OnlyKnows
  <1>3. ASSUME NEW i \in First(p, Reached(p)), Remove(p, Thing(p, i)),
               held' = [held EXCEPT ![p] = @ \ {i}], UNCHANGED pc
        PROVE  KInv'
    <2> DEFINE h == held[p] \ {i}
    <2>1. i \in held[p] /\ Thing(p, i) \in Owned /\ h \in SUBSET held[p]
      BY <1>1, LinesAreSetups DEF First, Reached, OfStreams, IInv
    <2>2. pc' = [pc EXCEPT ![p] = "exit"] /\ held' = [held EXCEPT ![p] = h]
      BY <1>1, <1>3 DEF IInv, TypeOK
    <2> HIDE DEF h
    <2>3. /\ Alone(p) /\ pc'[p] = "exit" /\ held'[p] = h /\ Inherits(p)' /\ Own(p)' \subseteq Own(p)
          /\ \A j : Of(p, j)' = Of(p, j) /\ Thing(p, j)' = Thing(p, j)
          /\ \A j, t : FileOf(p, j, t)' = FileOf(p, j, t)
          /\ OfStreams(p)' = OfStreams(p) \cap h
      BY <1>1, <2>1, <2>2, LeavingKnows
    <2>4. EndsAs(p)'
      <3>1. ended[p] = {"finish"} => OfStreams(p)' = {}
        BY <1>1, <2>3 DEF EndsAs
      <3> QED BY <1>1, <2>1, <2>2, <3>1, LeavingKnows
    <2>5. \A j \in held[p] : j # i /\ Of(p, j) # "program" => Thing(p, j) # Thing(p, i)
      BY <1>1, <2>1, HeldItems, Distinct
    <2>6. StillHas(p)'
      <3> SUFFICES ASSUME "closing" \notin ended[p], NEW j \in Own(p)', Of(p, j) = "lock"
                   PROVE  Has(p, Thing(p, j))'
        BY <1>1, <2>3 DEF StillHas
      <3>1. j \in Own(p) /\ j \in h /\ j \in held[p] /\ j # i
        BY <2>3 DEF Own, h
      <3>2. Has(p, Thing(p, j)) /\ Thing(p, j) # Thing(p, i) /\ Thing(p, j) \in Owned
        BY <1>1, <2>5, <3>1, LinesAreSetups DEF StillHas, IInv
      <3>3. \A x \in Owned : x # Thing(p, i) /\ Has(p, x) => x \in robbed' \/ owner'[x] = p
        BY <1>1, <1>3, <2>1, RemovesOne DEF Has
      <3> QED BY <2>3, <3>2, <3>3 DEF Has
    <2>7. Traced(p)'
      <3> SUFFICES ASSUME NEW t \in Things, owner'[t] = p, ~Excused(p)
                   PROVE  \E j \in Nat : FileOf(p, j, t)' /\ ToGiveUp(p, j)'
        BY <1>1 DEF Traced, Excused
      <3>1. owner[t] = p /\ t # Thing(p, i)
        BY <1>1, <1>3, <2>1, RemovesOne, HoldingsAssumption DEF Owned
      <3>2. PICK j \in Nat : FileOf(p, j, t) /\ ToGiveUp(p, j)
        BY <1>1, <3>1 DEF Traced
      <3>3. j \in h /\ Of(p, j) # "main"
        BY <1>1, <3>1, <3>2 DEF ToGiveUp, FileOf, Thing, h
      <3> QED BY <2>3, <3>2, <3>3 DEF ToGiveUp, Running
    <2>8. Knows(p)'
      BY <2>3, <2>4, <2>6, <2>7 DEF Knows
    <2> QED BY <1>1, <1>3, <2>1, <2>3, <2>8, RemoverKnows
  <1> QED BY <1>2, <1>3 DEF ExitClose

-----------------------------------------------------------------------------
LEMMA KInit == Init => KInv
  <1> SUFFICES ASSUME Init PROVE KInv
    OBVIOUS
  <1>1. IInv
    BY InitHolds
  <1>2. \A p \in Procs :
          /\ pc[p] \in {"new", "open", "serve", "work"} /\ ended[p] = {}
          /\ p \in Kids => pc[p] = "new"
    <2> SUFFICES ASSUME NEW p \in Procs
                 PROVE  /\ pc[p] \in {"new", "open", "serve", "work"} /\ ended[p] = {}
                        /\ p \in Kids => pc[p] = "new"
      OBVIOUS
    <2>1. pc[p] = IF p \in Masters THEN Stage(p, 0) ELSE "new"
      BY DEF Init
    <2>2. CASE p \in Masters
      BY <2>1, <2>2, HoldingsAssumption DEF Init, Stage
    <2>3. CASE p \notin Masters
      BY <2>1, <2>3 DEF Init
    <2> QED BY <2>2, <2>3, HoldingsAssumption
  <1>3. \A t \in Owned : owner[t] = None
    BY DEF Init
  <1>4. ByStarter
    BY <1>3 DEF ByStarter, Owned, Programs
  <1>5. \A p \in Procs : Traced(p)
    BY <1>3, HoldingsAssumption DEF Traced, Owned
  <1>6. \A p \in Procs : EndsAs(p) /\ Inherits(p) /\ StillHas(p)
    BY <1>2 DEF EndsAs, Inherits, StillHas, Running
  <1> QED BY <1>1, <1>4, <1>5, <1>6 DEF KInv, Knows

LEMMA KStep == KInv /\ [Next]_vars => KInv'
  <1> SUFFICES ASSUME KInv, [Next]_vars PROVE KInv'
    OBVIOUS
  <1>1. CASE UNCHANGED vars
    <2>1. IInv' /\ ByStarter'
      BY <1>1, StepHolds, NothingRemoved DEF KInv, vars
    <2>2. \A q \in Procs : Knows(q)'
      BY <1>1, OthersKnow, NothingRemoved DEF KInv, vars, Root
    <2> QED BY <2>1, <2>2 DEF KInv
  <1>2. ASSUME NEW p \in Procs, Step(p) PROVE KInv'
    BY <1>2, OpeningKnows, AdoptKnows, CloseKnows, ClosedKnows, ExitUnlockKnows, ExitCloseKnows
    DEF Step, Ending
  <1>3. ASSUME NEW p \in Procs, NEW k \in Kids, Fork(p, k) PROVE KInv'
    BY <1>3, ForkKnows
  <1>4. ASSUME NEW p \in Procs, Finish(p) \/ Fail(p) \/ Signal(p) \/ SignalAgain(p) \/ Crash(p)
        PROVE  KInv'
    BY <1>4, FinishKnows, StoppedKnows, KilledKnows
  <1> QED BY <1>1, <1>2, <1>3, <1>4 DEF Next

\* Whatever ends a process in the midst of whatever others do, it leaves no lock
\* file and no name behind but in the cases the invariant names (xioexit.c:13-21,
\* socat.c:1477-1487, xioclose.c:80-93).
THEOREM NothingIsLeft == Spec => []LeavesNothing
  <1>1. KInv => LeavesNothing
    <2> SUFFICES ASSUME KInv, NEW t \in Things, owner[t] # None, pc[owner[t]] = "gone",
                        ended[owner[t]] \cap {"early", "again", "killed"} = {}
                 PROVE  /\ ended[owner[t]] # {"finish"}
                        /\ \E i \in DOMAIN Line(owner[t]).items :
                             /\ Line(owner[t]).items[i].thing = t
                             /\ i \notin Listed(owner[t])
      BY DEF LeavesNothing
    <2>1. owner[t] \in Procs
      BY DEF KInv, IInv, TypeOK, Owned
    <2>2. PICK i \in Nat : FileOf(owner[t], i, t) /\ ToGiveUp(owner[t], i)
      BY <2>1 DEF KInv, Knows, Traced, Excused
    <2> QED BY <2>2 DEF FileOf, ToGiveUp, Running
  <1> QED BY <1>1, KInit, KStep, PTL DEF Spec

\* Why p may remove t: it is p's, or one of the six ways applies.
Ways(p, t) ==
  \/ owner[t] = p
  \/ p \in Kids /\ ("unready" \in ended[p] \/ Unlisted(p, t) \/ Inherited(p, t))
  \/ "closing" \in ended[p] \/ ByPath(p, t) \/ t \in robbed

LEMMA MayRemove ==
  ASSUME KInv, NEW p \in Procs, pc[p] \in {"close", "unlock", "exit"}, NEW i \in held[p],
         pc[p] = "unlock" <=> Of(p, i) = "main", owner[Thing(p, i)] # None
  PROVE  Ways(p, Thing(p, i))
  <1>1. /\ IInv /\ ByStarter /\ EndsAs(p) /\ Inherits(p) /\ StillHas(p)
        /\ i \in DOMAIN Line(p).items /\ i \in Nat /\ Of(p, i) \in Kinds
        /\ Line(p).items[i].thing \in Things /\ Line(p).before \in Int
    BY HeldItems, LinesAreSetups DEF KInv, Knows, IInv
  <1>2. CASE Of(p, i) = "name"
    BY <1>1, <1>2 DEF Ways, ByPath, Thing
  <1>3. CASE Of(p, i) # "name" /\ p \in Kids /\ i <= Line(p).before
    <2>1. CASE "unready" \in ended[p]
      BY <1>3, <2>1 DEF Ways
    <2>2. CASE Of(p, i) = "lock" /\ "unready" \notin ended[p]
      <3>1. i \notin Listed(p)
        <4>1. Line(p).items[i].stream \notin {1, InHandAtFork(p)}
          BY <1>1, <1>3, <2>2 DEF Inherits, Running
        <4> QED BY <1>1, <1>3, <4>1, StaysUnlisted DEF EndsAs
      <3> QED BY <1>3, <2>2, <3>1 DEF Ways, Unlisted
    <2>3. CASE Of(p, i) = "program" /\ "unready" \notin ended[p]
      BY <1>1, <1>3, <2>3 DEF Ways, Inherited, Inherits, Running
    <2>4. CASE Of(p, i) = "main" /\ "unready" \notin ended[p]
      BY <1>1, <1>3, <2>4 DEF Inherits, Running
    <2> QED BY <1>1, <1>3, <2>1, <2>2, <2>3, <2>4 DEF Kinds
  <1>4. CASE Of(p, i) # "name" /\ ~(p \in Kids /\ i <= Line(p).before)
    <2>1. i \in Own(p)
      BY <1>1, <1>4 DEF Own, Procs
    <2>2. CASE Of(p, i) = "program"
      <3>1. Thing(p, i) = <<p, Line(p).items[i].thing>>
        BY <1>4, <2>2 DEF Thing, Starter, Root, Procs
      <3> QED BY <1>1, <3>1 DEF ByStarter, Ways
    <2>3. CASE Of(p, i) \in Locks /\ pc[p] = "close"
      BY <1>1, <2>1, <2>3 DEF IInv, LocksHeld, Held, Active, Keeps, Has, Ways
    <2>4. CASE Of(p, i) \in Locks /\ pc[p] # "close"
      BY <1>1, <2>1, <2>4 DEF StillHas, Locks, Has, Ways
    <2> QED BY <1>1, <1>4, <2>2, <2>3, <2>4 DEF Kinds, Locks
  <1> QED BY <1>2, <1>3, <1>4

\* A step that removes t is a step of a process that may.
LEMMA RemovedRightly ==
  ASSUME KInv, [Next]_vars, NEW t \in Owned, owner[t] # None, owner'[t] = None
  PROVE  \E p \in Procs : (pc'[p] # pc[p] \/ held'[p] # held[p]) /\ Ways(p, t)
  <1>1. /\ TypeOK /\ Placed /\ None \notin Procs
    BY HoldingsAssumption DEF KInv, IInv
  <1>2. ASSUME NEW p \in Procs, NEW i \in held[p], Remove(p, Thing(p, i)),
               pc[p] \in {"close", "unlock", "exit"}, pc[p] = "unlock" <=> Of(p, i) = "main"
        PROVE  Ways(p, t)
    <2>1. t = Thing(p, i)
      BY <1>1, <1>2 DEF Remove, TypeOK
    <2> QED BY <1>2, <2>1, MayRemove
  <1>3. ASSUME NEW p \in Procs, Close(p)
        PROVE  pc'[p] # pc[p] /\ Ways(p, t)
    <2>1. PICK i \in First(p, OfStreams(p)) : Remove(p, Thing(p, i)) /\ Goes(p, "closing")
      BY <1>3 DEF Close
    <2>2. i \in held[p] /\ Of(p, i) # "main" /\ pc[p] = "close"
      BY <1>3, <2>1 DEF Close, First, OfStreams
    <2> QED BY <1>1, <1>2, <2>1, <2>2 DEF Goes, TypeOK
  <1>4. ASSUME NEW p \in Procs, ExitUnlock(p)
        PROVE  pc'[p] # pc[p] /\ Ways(p, t)
    <2>1. PICK i \in held[p] \ OfStreams(p) : Remove(p, Thing(p, i))
      BY <1>4 DEF ExitUnlock
    <2>2. Of(p, i) = "main" /\ pc[p] = "unlock" /\ pc'[p] = "exit"
      BY <1>1, <1>4, <2>1 DEF ExitUnlock, Goes, OfStreams, TypeOK
    <2> QED BY <1>2, <2>1, <2>2
  <1>5. ASSUME NEW p \in Procs, ExitClose(p)
        PROVE  held'[p] # held[p] /\ Ways(p, t)
    <2>1. PICK i \in First(p, Reached(p)) : Remove(p, Thing(p, i)) /\ held' = [held EXCEPT ![p] = @ \ {i}]
      BY <1>5 DEF ExitClose
    <2>2. i \in held[p] /\ Of(p, i) # "main" /\ pc[p] = "exit"
      BY <1>5, <2>1 DEF ExitClose, First, Reached, OfStreams
    <2>3. held'[p] = held[p] \ {i}
      BY <1>1, <2>1 DEF TypeOK
    <2> QED BY <1>2, <2>1, <2>2, <2>3
  <1>6. ASSUME NEW p \in Procs, Clear(p)
        PROVE  pc'[p] # pc[p] /\ Ways(p, t)
    <2>1. t = Item(p).thing /\ Item(p).kind = "name" /\ pc[p] = "open" /\ pc'[p] = "making"
      BY <1>1, <1>6 DEF Clear, Goes, TypeOK
    <2>2. done[p] \in Nat /\ done[p] < Len(Line(p).items)
      BY <1>1, <2>1 DEF TypeOK, Placed, PlacedAt
    <2>3. done[p] + 1 \in DOMAIN Line(p).items
      BY <1>1, <2>1, <2>2, LinesAreSetups DEF SetupOK
    <2> QED BY <2>1, <2>3 DEF Ways, ByPath, Item, Of
  <1>7. ASSUME NEW p \in Procs, Make(p) \/ StartProgram(p)
        PROVE  FALSE
    BY <1>1, <1>7 DEF Make, StartProgram, TypeOK
  <1>8. CASE UNCHANGED owner
    BY <1>8
  <1>9. ASSUME NEW p \in Procs, Step(p)
        PROVE  \E q \in Procs : (pc'[q] # pc[q] \/ held'[q] # held[q]) /\ Ways(q, t)
    <2>1. CASE Look(p) \/ Refuse(p) \/ Keep(p) \/ Adopt(p) \/ Closed(p)
      BY <1>8, <2>1 DEF Look, Refuse, Keep, Adopt, Closed
    <2> QED BY <1>3, <1>4, <1>5, <1>6, <1>7, <1>9, <2>1 DEF Step, Opening, Ending
  <1>10. ASSUME NEW p \in Procs, NEW k \in Kids, Fork(p, k)
         PROVE  UNCHANGED owner
    BY <1>10 DEF Fork
  <1>11. ASSUME NEW p \in Procs, Finish(p) \/ Fail(p) \/ Signal(p) \/ SignalAgain(p) \/ Crash(p)
         PROVE  UNCHANGED owner
    BY <1>11 DEF Finish, Fail, Signal, SignalAgain, Crash
  <1> QED BY <1>8, <1>9, <1>10, <1>11 DEF Next, vars

\* No process ever removes a lock, a name or a program of another but in the six ways
\* that the property names, however many processes race for the same files
\* (xioinitialize.c:127-174, xioclose.c:54-93, socat.c:1477-1487).
THEOREM RemovesItsOwn == Spec => OnlyItsOwn
  <1>1. KInv /\ [Next]_vars =>
          [\A t \in Owned :
             owner[t] # None /\ owner'[t] = None =>
               \E p \in Procs :
                 /\ pc'[p] # pc[p] \/ held'[p] # held[p]
                 /\ \/ owner[t] = p
                    \/ p \in Kids /\ ("unready" \in ended[p] \/ Unlisted(p, t) \/ Inherited(p, t))
                    \/ "closing" \in ended[p] \/ ByPath(p, t) \/ t \in robbed]_vars
    BY RemovedRightly DEF Ways
  <1> QED BY <1>1, KInit, KStep, PTL DEF Spec, OnlyItsOwn
=============================================================================
