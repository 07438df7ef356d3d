-------------------------- MODULE PlcServer_proofs --------------------------
(***************************************************************************)
(* For any number of connections, any Limit and any messages: the          *)
(* operators know how the PLC and its signal are, but for the ways that    *)
(* excused names.  ServerInv adds to OperatorsKnow what makes it inductive: *)
(*  - Order: what is posted to the mailbox agrees with where the readers   *)
(*    and the users stand; nobody starts twice, nothing comes behind the   *)
(*    end of a connection, and who has not started yet has no counters;    *)
(*  - OnePlc: PLC users are one at a time unless excused;                  *)
(*  - Known: the counters and the last SMS agree at every row.             *)
(***************************************************************************)
EXTENDS PlcServer, SequenceTheorems, TLAPS

Messages ==
  [type : {"start", "finish", "message", "forward", "monitor", "die"}, from : Conns \cup {None},
   rows : Seq(BOOLEAN), answer : BOOLEAN]

Types ==
  /\ setup \in Setups
  /\ reader \in [Conns -> {"none", "first", "login", "serving", "gone"}]
  /\ inbox \in Seq(Messages)
  /\ mailbox \in [at : {"loop", "greet", "rows", "query", "dead"}, user : Conns \cup {None},
                  rows : Seq(BOOLEAN), answer : BOOLEAN]
  /\ users \subseteq Conns
  /\ online \in [Conns -> BOOLEAN]
  /\ fails \in [Conns -> Counters \cup {None}]
  /\ clock \in [due : BOOLEAN, settled : BOOLEAN, recent : BOOLEAN]
  /\ told \in [plc : {"online", "offline"}, signal : {"none", "fail", "ok"}]

\* A message in the mailbox agrees with its sender.
Sent(m) ==
  LET c == m.from
  IN /\ IF m.type = "die" THEN c = None ELSE c \in Conns
     /\ m.type = "start" => reader[c] = "login"
     /\ m.type \in {"message", "forward", "monitor"} =>
          c \in users /\ reader[c] \in {"serving", "gone"}
     /\ m.type = "message" => Plc(c)
     /\ m.type = "finish" => c \in users /\ reader[c] = "gone"

\* Nothing of a connection is ahead of its start or behind its finish.
InOrder(box) ==
  \A i, j \in DOMAIN box :
    i < j /\ box[i].from = box[j].from =>
      box[i].type \notin {"start", "finish"} /\ box[j].type # "start"

Greets(c) == mailbox.at = "greet" /\ mailbox.user = c

\* A connection that is not served yet has left no trace.
Fresh(c) == c \notin users /\ fails[c] = None /\ online[c] = FALSE

Order ==
  /\ \A i \in DOMAIN inbox : Sent(inbox[i])
  /\ InOrder(inbox)
  /\ \A c \in Conns :
       /\ reader[c] = "serving" => c \in users
       /\ reader[c] \in {"none", "first", "login"} /\ ~Greets(c) => Fresh(c)
       /\ Greets(c) => reader[c] = "login" /\ \A i \in DOMAIN inbox : inbox[i].from # c
  /\ mailbox.at \in {"greet", "rows", "query"} => mailbox.user \in PlcUsers

OnePlc == excused = {} => \A c, d \in PlcUsers : c = d

\* What the counters of the signal say was told.
Agrees(f) ==
  /\ f = None => told.signal # "fail"
  /\ f # None =>
       /\ f.notified /\ f.count > 0 => f.count >= Limit /\ told.signal = "fail"
       /\ f.notified /\ f.count = 0 => told.signal # "fail"
       /\ ~f.notified /\ f.count > 0 => told.signal # "fail"
       /\ ~f.notified /\ f.count = 0 => told.signal = "fail"

\* There is nothing left to tell.
Settled(f) == f # None /\ ~f.notified => f.count > 0 /\ f.count < Limit

Known ==
  excused = {} =>
    /\ setup.sms =>
         /\ told.plc = "online" <=> \E c \in PlcUsers : online[c]
         /\ \A c \in PlcUsers : Agrees(fails[c])
    /\ mailbox.at \in {"loop", "greet"} => \A c \in PlcUsers : Settled(fails[c])

ServerInv == Types /\ Order /\ OnePlc /\ Known
-----------------------------------------------------------------------------
(* The mailbox. *)

LEMMA Popped ==
  ASSUME NEW box \in Seq(Messages), box # <<>>, InOrder(box)
  PROVE  /\ Tail(box) \in Seq(Messages) /\ InOrder(Tail(box))
         /\ 1 \in DOMAIN box /\ Head(box) = box[1] /\ box[1] \in Messages
         /\ \A i \in DOMAIN Tail(box) :
              /\ i + 1 \in DOMAIN box /\ Tail(box)[i] = box[i + 1] /\ box[i + 1] \in Messages
              /\ Tail(box)[i].from = box[1].from =>
                   box[1].type \notin {"start", "finish"} /\ Tail(box)[i].type # "start"
  <1> DEFINE t == Tail(box)
  <1>1. /\ Len(box) \in Nat \ {0} /\ DOMAIN box = 1 .. Len(box) /\ Head(box) = box[1]
        /\ t \in Seq(Messages) /\ DOMAIN t = 1 .. Len(box) - 1
        /\ \A i \in 1 .. Len(box) - 1 : t[i] = box[i + 1]
    BY HeadTailProperties, EmptySeq, LenProperties
  <1>2. \A i \in DOMAIN box : box[i] \in Messages
    BY ElementOfSeq, LenProperties
  <1> HIDE DEF t
  <1>3. \A i \in DOMAIN t : i + 1 \in DOMAIN box /\ 1 < i + 1 /\ t[i] = box[i + 1]
    BY <1>1
  <1>4. InOrder(t)
    <2>1. SUFFICES ASSUME NEW i \in DOMAIN t, NEW j \in DOMAIN t, i < j, t[i].from = t[j].from
                   PROVE  t[i].type \notin {"start", "finish"} /\ t[j].type # "start"
      BY DEF InOrder
    <2>2. i + 1 < j + 1
      BY <1>1, <2>1
    <2> QED BY <1>3, <2>1, <2>2 DEF InOrder
  <1>5. 1 \in DOMAIN box
    BY <1>1
  <1>6. ASSUME NEW i \in DOMAIN t, t[i].from = box[1].from
        PROVE  box[1].type \notin {"start", "finish"} /\ t[i].type # "start"
    BY <1>3, <1>5, <1>6 DEF InOrder
  <1> QED BY <1>1, <1>2, <1>3, <1>4, <1>5, <1>6 DEF t

LEMMA Posted ==
  ASSUME NEW box \in Seq(Messages), InOrder(box), NEW m \in Messages,
         \A i \in DOMAIN box : box[i].from = m.from =>
           box[i].type \notin {"start", "finish"} /\ m.type # "start"
  PROVE  /\ Append(box, m) \in Seq(Messages) /\ InOrder(Append(box, m))
         /\ \A i \in DOMAIN Append(box, m) :
              \/ i \in DOMAIN box /\ Append(box, m)[i] = box[i]
              \/ Append(box, m)[i] = m
  <1> DEFINE a == Append(box, m)
  <1>1. /\ Len(box) \in Nat /\ DOMAIN box = 1 .. Len(box)
        /\ a \in Seq(Messages) /\ DOMAIN a = 1 .. Len(box) + 1
        /\ \A i \in 1 .. Len(box) : a[i] = box[i]
        /\ a[Len(box) + 1] = m
    BY AppendProperties, LenProperties
  <1> HIDE DEF a
  <1>2. ASSUME NEW i \in DOMAIN a PROVE (i \in DOMAIN box /\ a[i] = box[i]) \/ a[i] = m
    BY <1>1
  <1>3. ASSUME NEW i \in DOMAIN a, NEW j \in DOMAIN a, i < j
        PROVE  i \in DOMAIN box /\ a[i] = box[i]
    BY <1>1, <1>3
  <1>4. InOrder(a)
    <2>1. SUFFICES ASSUME NEW i \in DOMAIN a, NEW j \in DOMAIN a, i < j, a[i].from = a[j].from
                   PROVE  a[i].type \notin {"start", "finish"} /\ a[j].type # "start"
      BY DEF InOrder
    <2>2. i \in DOMAIN box /\ a[i] = box[i]
      BY <1>3, <2>1
    <2>3. CASE j \in DOMAIN box /\ a[j] = box[j]
      BY <2>1, <2>2, <2>3 DEF InOrder
    <2>4. CASE a[j] = m
      BY <2>1, <2>2, <2>4
    <2> QED BY <1>2, <2>3, <2>4
  <1> QED BY <1>1, <1>2, <1>4 DEF a

(* A connection posts a message; nobody else is concerned. *)
LEMMA PostStep ==
  ASSUME ServerInv, NEW m \in Messages, Post(m),
         UNCHANGED <<setup, mailbox, users, online, fails>>,
         reader' \in [Conns -> {"none", "first", "login", "serving", "gone"}],
         \A d \in Conns : d # m.from => reader'[d] = reader[d],
         Sent(m)',
         \A i \in DOMAIN inbox : inbox[i].from = m.from =>
           /\ inbox[i].type \notin {"start", "finish"} /\ m.type # "start"
           /\ \A x \in Messages : x = inbox[i] => Sent(x)',
         m.from \in Conns =>
           /\ ~Greets(m.from)
           /\ reader'[m.from] = "serving" => m.from \in users
           /\ reader'[m.from] \in {"none", "first", "login"} => Fresh(m.from)
  PROVE  Order' /\ inbox' \in Seq(Messages)
  <1>1. inbox \in Seq(Messages) /\ InOrder(inbox) /\ inbox' = Append(inbox, m)
    BY DEF ServerInv, Types, Order, Post
  <1>2. /\ inbox' \in Seq(Messages) /\ InOrder(inbox')
        /\ \A i \in DOMAIN inbox' : (i \in DOMAIN inbox /\ inbox'[i] = inbox[i]) \/ inbox'[i] = m
    BY <1>1, Posted
  <1>3. \A i \in DOMAIN inbox : inbox[i] \in Messages
    BY <1>1, ElementOfSeq, LenProperties
  <1>4. UNCHANGED PlcUsers /\ \A c : UNCHANGED <<Fresh(c), Greets(c), Plc(c)>>
    BY DEF PlcUsers, Plc, Fresh, Greets
  <1>5. ASSUME NEW i \in DOMAIN inbox' PROVE Sent(inbox[i])'
    <2>1. CASE inbox'[i] = m
      BY <2>1 DEF Sent, Plc
    <2>2. CASE i \in DOMAIN inbox /\ inbox'[i] = inbox[i] /\ inbox[i].from # m.from
      <3>1. Sent(inbox[i]) /\ inbox[i] \in Messages
        BY <1>3, <2>2 DEF ServerInv, Order
      <3>2. inbox[i].from \in Conns => reader'[inbox[i].from] = reader[inbox[i].from]
        BY <2>2
      <3>3. inbox[i].type = "die" \/ inbox[i].from \in Conns
        BY <3>1 DEF Sent
      <3> QED BY <2>2, <3>1, <3>2, <3>3 DEF Sent, Plc
    <2>3. CASE i \in DOMAIN inbox /\ inbox'[i] = inbox[i] /\ inbox[i].from = m.from
      <3> DEFINE x == inbox[i]
      <3>1. Sent(inbox[i]) /\ x \in Messages
        BY <1>3, <2>3 DEF ServerInv, Order
      <3>2. PICK y \in Messages : y = x /\ Sent(y)'
        BY <2>3, <3>1
      <3> QED BY <2>3, <3>2 DEF Sent, Plc
    <2> QED BY <1>2, <2>1, <2>2, <2>3
  <1>6. ASSUME NEW c \in Conns
        PROVE  /\ reader'[c] = "serving" => c \in users'
               /\ reader'[c] \in {"none", "first", "login"} /\ ~Greets(c)' => Fresh(c)'
               /\ Greets(c)' => reader'[c] = "login" /\ \A i \in DOMAIN inbox' : inbox'[i].from # c
    BY <1>2, <1>4 DEF ServerInv, Order
  <1>7. (mailbox.at \in {"greet", "rows", "query"} => mailbox.user \in PlcUsers)'
    BY <1>4 DEF ServerInv, Order
  <1> QED BY <1>2, <1>5, <1>6, <1>7 DEF Order

(* The mailbox takes the message of c and goes on to the next or to the rest of it;  *)
(* nobody else is concerned.                                                         *)
LEMMA PopStep ==
  ASSUME ServerInv, mailbox = Loop, inbox # <<>>, inbox' = Tail(inbox),
         UNCHANGED <<setup, fails>>,
         NEW c, c = Head(inbox).from,
         reader' \in [Conns -> {"none", "first", "login", "serving", "gone"}],
         \A d \in Conns : d # c =>
           /\ reader'[d] = reader[d] /\ online'[d] = online[d]
           /\ d \in users' <=> d \in users
           /\ ~Greets(d)',
         Head(inbox).type \notin {"start", "finish"} => UNCHANGED <<reader, users, online>>,
         c \in Conns =>
           /\ reader'[c] = "serving" => c \in users'
           /\ reader'[c] \in {"none", "first", "login"} /\ ~Greets(c)' => Fresh(c)'
           /\ Greets(c)' => reader'[c] = "login" /\ Head(inbox).type = "start",
         (mailbox.at \in {"greet", "rows", "query"} => mailbox.user \in PlcUsers)'
  PROVE  Order' /\ inbox' \in Seq(Messages)
  <1>1. inbox \in Seq(Messages) /\ InOrder(inbox)
    BY DEF ServerInv, Types, Order
  <1>2. /\ inbox' \in Seq(Messages) /\ InOrder(inbox')
        /\ Head(inbox) = inbox[1] /\ 1 \in DOMAIN inbox
        /\ \A i \in DOMAIN inbox' :
             /\ i + 1 \in DOMAIN inbox /\ inbox'[i] = inbox[i + 1]
             /\ inbox'[i].from = c =>
                  Head(inbox).type \notin {"start", "finish"} /\ inbox'[i].type # "start"
    BY <1>1, Popped
  <1>3. ASSUME NEW i \in DOMAIN inbox' PROVE Sent(inbox[i])'
    <2>1. Sent(inbox[i + 1]) /\ inbox'[i] = inbox[i + 1]
      BY <1>2 DEF ServerInv, Order
    <2>2. CASE inbox'[i].from = c
      BY <1>2, <2>1, <2>2 DEF Sent, Plc
    <2>3. CASE inbox'[i].from # c
      <3>1. inbox'[i].from \in Conns =>
              /\ reader'[inbox'[i].from] = reader[inbox'[i].from]
              /\ inbox'[i].from \in users' <=> inbox'[i].from \in users
        BY <2>3
      <3> QED BY <2>1, <3>1 DEF Sent, Plc
    <2> QED BY <2>2, <2>3
  <1>4. ASSUME NEW d \in Conns
        PROVE  /\ reader'[d] = "serving" => d \in users'
               /\ reader'[d] \in {"none", "first", "login"} /\ ~Greets(d)' => Fresh(d)'
               /\ Greets(d)' => reader'[d] = "login" /\ \A i \in DOMAIN inbox' : inbox'[i].from # d
    <2>1. CASE d = c
      BY <1>2, <2>1
    <2>2. CASE d # c
      <3>1. ~Greets(d) /\ ~Greets(d)'
        BY <2>2 DEF Greets, Loop, Busy
      <3> QED BY <2>2, <3>1 DEF ServerInv, Order, Fresh
    <2> QED BY <2>1, <2>2
  <1> QED BY <1>2, <1>3, <1>4 DEF Order

(* The mailbox is at work on something else than a message. *)
LEMMA StayStep ==
  ASSUME ServerInv, UNCHANGED <<setup, inbox, reader, users>>,
         mailbox.at # "greet", mailbox'.at # "greet",
         \A d \in Conns \ users : fails'[d] = fails[d] /\ online'[d] = online[d],
         mailbox'.at \in {"rows", "query"} =>
           mailbox.at \in {"rows", "query"} /\ mailbox'.user = mailbox.user
  PROVE  Order'
  <1>1. ASSUME NEW i \in DOMAIN inbox' PROVE Sent(inbox[i])'
    BY DEF ServerInv, Order, Sent, Plc
  <1>2. ASSUME NEW c \in Conns
        PROVE  /\ reader'[c] = "serving" => c \in users'
               /\ reader'[c] \in {"none", "first", "login"} /\ ~Greets(c)' => Fresh(c)'
               /\ ~Greets(c)'
    BY DEF ServerInv, Order, Fresh, Greets
  <1>3. (mailbox.at \in {"greet", "rows", "query"} => mailbox.user \in PlcUsers)'
    BY DEF ServerInv, Order, PlcUsers, Plc
  <1> QED BY <1>1, <1>2, <1>3 DEF ServerInv, Order
-----------------------------------------------------------------------------
(* What the operators know. *)

LEMMA KnownKept ==
  ASSUME ServerInv, UNCHANGED <<setup, told, users, online, fails>>, excused \subseteq excused',
         excused' = {} /\ mailbox'.at \in {"loop", "greet"} => mailbox.at \in {"loop", "greet"}
  PROVE  OnePlc' /\ Known'
  <1>1. UNCHANGED PlcUsers /\ \A f : UNCHANGED <<Agrees(f), Settled(f)>>
    BY DEF PlcUsers, Plc, Agrees, Settled
  <1>2. excused' = {} => excused = {}
    OBVIOUS
  <1>3. OnePlc'
    BY <1>1, <1>2 DEF ServerInv, OnePlc
  <1>4. Known'
    BY <1>1, <1>2 DEF ServerInv, Known
  <1> QED BY <1>3, <1>4

(* A counter after one row more, field by field. *)
LEMMA CountedFields ==
  ASSUME NEW f \in Counters, NEW bad \in BOOLEAN
  PROVE  /\ Counted(f, bad) \in Counters
         /\ f.count = 0 /\ bad =>
              Counted(f, bad).count = 1 /\ ~Counted(f, bad).notified
         /\ f.count > 0 /\ bad =>
              Counted(f, bad).count = f.count + 1 /\ (Counted(f, bad).notified <=> f.notified)
         /\ f.count > 0 /\ ~bad =>
              Counted(f, bad).count = 0 /\ (Counted(f, bad).notified <=> ~f.notified)
         /\ f.count = 0 /\ ~bad =>
              Counted(f, bad).count = 0 /\ (Counted(f, bad).notified <=> f.notified)
  <1> DEFINE g == Counted(f, bad)
  <1>1. f # None /\ f.count \in Nat /\ f.notified \in BOOLEAN
    BY ServerAssumption DEF Counters
  <1>2. CASE f.count = 0 /\ bad
    <2>1. g = [count |-> 1, notified |-> FALSE]
      BY <1>1, <1>2 DEF Counted
    <2> HIDE DEF g
    <2>2. g \in Counters /\ g.count = 1 /\ ~g.notified
      BY <2>1 DEF Counters
    <2>3. ~(f.count > 0)
      BY <1>2
    <2> QED BY <1>2, <2>2, <2>3, Zenon DEF g
  <1>3. CASE f.count > 0 /\ bad
    <2>1. g = [count |-> f.count + 1, notified |-> f.notified]
      <3>1. f.count # 0
        BY <1>1, <1>3
      <3> QED BY <1>1, <1>3, <3>1, Zenon DEF Counted
    <2>2. f.count + 1 \in Nat
      BY <1>1
    <2>3. f.count # 0
      BY <1>1, <1>3
    <2> HIDE DEF g
    <2>4. g \in Counters /\ g.count = f.count + 1
      BY <1>1, <2>1, <2>2 DEF Counters
    <2>5. g.notified = f.notified
      BY <2>1
    <2> QED BY <1>3, <2>3, <2>4, <2>5 DEF g
  <1>4. CASE f.count > 0 /\ ~bad /\ f.notified
    <2>1. g = [count |-> 0, notified |-> FALSE]
      BY <1>1, <1>4 DEF Counted
    <2> QED BY <1>4, <2>1 DEF Counters
  <1>5. CASE f.count > 0 /\ ~bad /\ ~f.notified
    <2>1. g = [count |-> 0, notified |-> TRUE]
      BY <1>1, <1>5 DEF Counted
    <2> QED BY <1>5, <2>1 DEF Counters
  <1>6. CASE f.count = 0 /\ ~bad /\ f.notified
    <2>1. g = [count |-> 0, notified |-> TRUE]
      BY <1>1, <1>6 DEF Counted
    <2> QED BY <1>6, <2>1 DEF Counters
  <1>7. CASE f.count = 0 /\ ~bad /\ ~f.notified
    <2>1. g = [count |-> 0, notified |-> FALSE]
      <3>1. f.notified = FALSE /\ ~(f.count > 0)
        BY <1>1, <1>7
      <3> QED BY <1>1, <1>7, <3>1 DEF Counted
    <2> QED BY <1>7, <2>1 DEF Counters
  <1>8. f.count = 0 \/ f.count > 0
    BY <1>1
  <1> QED BY <1>2, <1>3, <1>4, <1>5, <1>6, <1>7, <1>8

(* One row more. *)
LEMMA CountedAgrees ==
  ASSUME NEW f \in Counters \cup {None}, NEW bad \in BOOLEAN
  PROVE  /\ Counted(f, bad) \in Counters /\ Counted(f, bad) # None
         /\ Agrees(f) /\ ~Hides(f, bad) => Agrees(Counted(f, bad))
  <1> DEFINE g == Counted(f, bad)
  <1>1. CASE f = None
    <2>1. g = IF bad THEN [count |-> 1, notified |-> FALSE] ELSE [count |-> 0, notified |-> TRUE]
      BY <1>1 DEF Counted
    <2> HIDE DEF g
    <2>2. g \in Counters /\ (bad => g.count = 1 /\ ~g.notified) /\ (~bad => g.count = 0 /\ g.notified)
      BY <2>1 DEF Counters
    <2>3. g # None
      BY <2>2, ServerAssumption
    <2>4. Agrees(f) => Agrees(g)
      BY <1>1, <2>2, <2>3 DEF Agrees
    <2> QED BY <2>2, <2>3, <2>4 DEF g
  <1>2. CASE f \in Counters
    <2>1. f # None /\ f.count \in Nat
      BY <1>2, ServerAssumption DEF Counters
    <2>2. /\ g \in Counters
          /\ f.count = 0 /\ bad => g.count = 1 /\ ~g.notified
          /\ f.count > 0 /\ bad => g.count = f.count + 1 /\ (g.notified <=> f.notified)
          /\ f.count > 0 /\ ~bad => g.count = 0 /\ (g.notified <=> ~f.notified)
          /\ f.count = 0 /\ ~bad => g.count = 0 /\ (g.notified <=> f.notified)
      BY <1>2, CountedFields
    <2> HIDE DEF g
    <2>3. g # None
      BY <2>2, ServerAssumption
    <2>4. ASSUME Agrees(f), ~Hides(f, bad) PROVE Agrees(g)
      <3>1. CASE f.count = 0 /\ bad
        BY <2>1, <2>2, <2>3, <2>4, <3>1 DEF Agrees, Hides
      <3>2. CASE f.count > 0 /\ bad
        BY <2>1, <2>2, <2>3, <2>4, <3>2, ServerAssumption DEF Agrees
      <3>3. CASE f.count > 0 /\ ~bad
        BY <2>1, <2>2, <2>3, <2>4, <3>3 DEF Agrees
      <3>4. CASE f.count = 0 /\ ~bad
        BY <2>1, <2>2, <2>3, <2>4, <3>4 DEF Agrees
      <3> QED BY <2>1, <3>1, <3>2, <3>3, <3>4
    <2> QED BY <2>2, <2>3, <2>4 DEF g
  <1> QED BY <1>1, <1>2

(* What there is to tell is told. *)
LEMMA TellStep ==
  ASSUME ServerInv, mailbox.at \in {"rows", "query"}, NotifySignalEvents(mailbox.user),
         UNCHANGED <<setup, users, online, excused>>
  PROVE  /\ OnePlc' /\ Known'
         /\ fails' \in [Conns -> Counters \cup {None}]
         /\ told' \in [plc : {"online", "offline"}, signal : {"none", "fail", "ok"}]
         /\ \A d \in Conns \ users : fails'[d] = fails[d]
  <1>1. PICK c : c = mailbox.user
    OBVIOUS
  <1>2. c \in PlcUsers /\ c \in users /\ c \in Conns
    BY <1>1 DEF ServerInv, Types, Order, PlcUsers
  <1> DEFINE f == fails[c]
             news == News(fails[c])
  <1>3. f \in Counters \cup {None} /\ news \in {"none", "fail", "ok"}
    BY <1>2 DEF ServerInv, Types, News
  <1>4. /\ fails' = IF news = "none" THEN fails ELSE [fails EXCEPT ![c].notified = TRUE]
        /\ IF news # "none" /\ setup.sms THEN told' = [told EXCEPT !.signal = news]
           ELSE told' = told
    BY <1>1 DEF NotifySignalEvents
  <1>5. UNCHANGED PlcUsers
    BY DEF PlcUsers, Plc
  <1>6. OnePlc'
    BY <1>5 DEF ServerInv, OnePlc
  <1>7. CASE news = "none"
    <2>1. Settled(f)
      BY <1>3, <1>7, ServerAssumption DEF Settled, News, Counters
    <2>2. fails' = fails /\ told' = told
      BY <1>4, <1>7
    <2>3. Known'
      BY <1>2, <1>5, <2>1, <2>2 DEF ServerInv, Known, OnePlc, Agrees, Settled
    <2> QED BY <1>6, <2>2, <2>3 DEF ServerInv, Types
  <1>8. CASE news # "none"
    <2>1. f # None /\ f \in Counters /\ ~f.notified
      BY <1>3, <1>8 DEF News
    <2>2. /\ (news = "fail" /\ f.count >= Limit /\ f.count > 0)
             \/ (news = "ok" /\ f.count = 0)
      BY <1>8, <2>1, ServerAssumption DEF News, Counters
    <2>3. fails'[c] = [f EXCEPT !.notified = TRUE] /\ \A d \in Conns : d # c => fails'[d] = fails[d]
      BY <1>2, <1>4, <1>8 DEF ServerInv, Types
    <2>4. /\ fails'[c] \in Counters /\ fails'[c] # None
          /\ fails'[c].notified /\ fails'[c].count = f.count
      BY <2>1, <2>3, ServerAssumption DEF Counters
    <2>5. fails' \in [Conns -> Counters \cup {None}]
      BY <1>2, <1>4, <1>8, <2>3, <2>4 DEF ServerInv, Types
    <2>6. /\ told' \in [plc : {"online", "offline"}, signal : {"none", "fail", "ok"}]
          /\ told'.plc = told.plc
          /\ setup.sms => told'.signal = news
      BY <1>3, <1>4, <1>8 DEF ServerInv, Types
    <2>7. setup.sms => Agrees(fails[c])'
      BY <2>2, <2>4, <2>6 DEF Agrees
    <2>8. Settled(fails[c])'
      BY <2>4 DEF Settled
    <2>9. Known'
      BY <1>2, <1>5, <2>6, <2>7, <2>8 DEF ServerInv, Known, OnePlc
    <2> QED BY <1>2, <1>6, <2>3, <2>5, <2>6, <2>9
  <1> QED BY <1>7, <1>8
-----------------------------------------------------------------------------
LEMMA ServerInit == Init => ServerInv
  <1> SUFFICES ASSUME Init PROVE ServerInv
    OBVIOUS
  <1>1. inbox = <<>> /\ DOMAIN inbox = {} /\ inbox \in Seq(Messages)
    BY EmptySeq DEF Init
  <1>2. mailbox = Loop /\ <<>> \in Seq(BOOLEAN)
    BY EmptySeq DEF Init
  <1>3. Types
    BY <1>1, <1>2 DEF Init, Types, Loop, Busy
  <1>4. Order
    BY <1>1, <1>2 DEF Init, Order, InOrder, Greets, Fresh, Loop, Busy
  <1>5. OnePlc /\ Known
    BY DEF Init, OnePlc, Known, PlcUsers
  <1> QED BY <1>3, <1>4, <1>5 DEF ServerInv

(* Whatever happens at sockets, writers and the modem. *)
LEMMA QuietStep ==
  ASSUME ServerInv,
         UNCHANGED <<setup, reader, inbox, mailbox, users, online, fails, told, excused>>,
         clock' \in [due : BOOLEAN, settled : BOOLEAN, recent : BOOLEAN]
  PROVE  ServerInv'
  <1>1. Types'
    BY DEF ServerInv, Types
  <1>2. Order'
    BY DEF ServerInv, Order, Sent, InOrder, Greets, Fresh, PlcUsers, Plc
  <1>3. OnePlc' /\ Known'
    BY KnownKept DEF ServerInv
  <1> QED BY <1>1, <1>2, <1>3 DEF ServerInv

(* A connection that has not asked to be let in. *)
LEMMA Unheard ==
  ASSUME ServerInv, NEW c \in Conns, reader[c] \in {"none", "first"}
  PROVE  Fresh(c) /\ ~Greets(c) /\ \A i \in DOMAIN inbox : inbox[i].from # c
  <1>1. ~Greets(c) /\ Fresh(c)
    BY DEF ServerInv, Order
  <1>2. ASSUME NEW i \in DOMAIN inbox, inbox[i].from = c PROVE FALSE
    <2>1. Sent(inbox[i]) /\ inbox[i] \in Messages
      BY ElementOfSeq, LenProperties DEF ServerInv, Types, Order
    <2>2. c # None
      BY ServerAssumption
    <2> QED BY <1>2, <2>1, <2>2 DEF Sent, Messages
  <1> QED BY <1>1, <1>2

(* Its messages and those of one that is served say where it stands. *)
LEMMA Served ==
  ASSUME ServerInv, NEW c \in Conns, reader[c] = "serving"
  PROVE  /\ c \in users /\ ~Greets(c)
         /\ \A i \in DOMAIN inbox : inbox[i].from = c =>
              inbox[i] \in Messages /\ inbox[i].type \in {"message", "forward", "monitor"}
  <1>1. c \in users /\ ~Greets(c)
    BY DEF ServerInv, Order
  <1>2. ASSUME NEW i \in DOMAIN inbox, inbox[i].from = c
        PROVE  inbox[i] \in Messages /\ inbox[i].type \in {"message", "forward", "monitor"}
    <2>1. Sent(inbox[i]) /\ inbox[i] \in Messages
      BY ElementOfSeq, LenProperties DEF ServerInv, Types, Order
    <2>2. c # None
      BY ServerAssumption
    <2> QED BY <1>2, <2>1, <2>2 DEF Sent, Messages
  <1> QED BY <1>1, <1>2

LEMMA ReaderStep ==
  ASSUME ServerInv, NEW c \in Conns,
         Accept(c) \/ LogIn(c) \/ LeaveFirst(c) \/ Leave(c) \/ Read(c)
  PROVE  ServerInv'
  <1> USE DEF ReaderOnly, userVars, ghostVars, senderVars, connVars
  <1>1. /\ UNCHANGED <<setup, mailbox, users, online, fails, clock, told, excused>>
        /\ reader' \in [Conns -> {"none", "first", "login", "serving", "gone"}]
        /\ \A d \in Conns : d # c => reader'[d] = reader[d]
    BY DEF Accept, LogIn, LeaveFirst, Leave, Read, HangUp, ServerInv, Types
  <1>2. OnePlc' /\ Known'
    BY <1>1, KnownKept DEF ServerInv
  <1>3. inbox' \in Seq(Messages) => Types'
    BY <1>1 DEF ServerInv, Types
  <1>4. CASE (Accept(c) \/ LeaveFirst(c))
    <2>1. /\ inbox' = inbox /\ reader[c] \in {"none", "first"} /\ reader'[c] \in {"first", "gone"}
      BY <1>4 DEF Accept, LeaveFirst, HangUp, ServerInv, Types
    <2>2. Fresh(c) /\ ~Greets(c) /\ \A i \in DOMAIN inbox : inbox[i].from # c
      BY <2>1, Unheard
    <2>3. ASSUME NEW i \in DOMAIN inbox' PROVE Sent(inbox[i])'
      <3>1. Sent(inbox[i]) /\ inbox[i].from # c
        BY <2>1, <2>2 DEF ServerInv, Order
      <3>2. inbox[i].from \in Conns => reader'[inbox[i].from] = reader[inbox[i].from]
        BY <1>1, <3>1
      <3> QED BY <1>1, <2>1, <3>1, <3>2 DEF Sent, Plc
    <2>4. ASSUME NEW d \in Conns
          PROVE  /\ reader'[d] = "serving" => d \in users'
                 /\ reader'[d] \in {"none", "first", "login"} /\ ~Greets(d)' => Fresh(d)'
                 /\ Greets(d)' => reader'[d] = "login" /\ \A i \in DOMAIN inbox' : inbox'[i].from # d
      BY <1>1, <2>1, <2>2 DEF ServerInv, Order, Fresh, Greets
    <2>5. Order'
      BY <1>1, <2>1, <2>3, <2>4 DEF ServerInv, Order, InOrder, PlcUsers, Plc
    <2> QED BY <1>2, <1>3, <2>1, <2>5 DEF ServerInv, Types
  <1>5. CASE LogIn(c)
    <2> DEFINE m == Message("start", c)
    <2>1. /\ m \in Messages /\ m.from = c /\ m.type = "start"
      BY EmptySeq DEF Message, Messages
    <2>2. Post(m) /\ reader[c] = "first" /\ reader'[c] = "login"
      BY <1>5 DEF LogIn, ServerInv, Types
    <2>3. Fresh(c) /\ ~Greets(c) /\ \A i \in DOMAIN inbox : inbox[i].from # c
      BY <2>2, Unheard
    <2> HIDE DEF m
    <2>4. Sent(m)'
      BY <2>1, <2>2 DEF Sent
    <2>5. Order' /\ inbox' \in Seq(Messages)
      BY <1>1, <2>1, <2>2, <2>3, <2>4, PostStep
    <2> QED BY <1>2, <1>3, <2>5 DEF ServerInv
  <1>6. CASE (Leave(c) \/ Read(c))
    <2>1. reader[c] = "serving"
      BY <1>6 DEF Leave, Read
    <2>2. PICK m \in Messages :
            /\ Post(m) /\ m.from = c
            /\ \/ m.type = "finish" /\ reader'[c] = "gone"
               \/ /\ m.type \in {"message", "forward", "monitor"} /\ reader'[c] = "serving"
                  /\ m.type = "message" => Plc(c)
      <3>1. CASE Leave(c)
        <4> DEFINE m == Message("finish", c)
        <4>1. m \in Messages /\ m.from = c /\ m.type = "finish"
          BY EmptySeq DEF Message, Messages
        <4>2. Post(m) /\ reader'[c] = "gone"
          BY <3>1 DEF Leave, HangUp, ServerInv, Types
        <4> QED BY <4>1, <4>2
      <3>2. CASE Read(c) /\ Plc(c)
        <4>1. PICK rows \in Seq(BOOLEAN), answer \in BOOLEAN : Post(SignalRows(c, rows, answer))
          <5>1. \A bad \in BOOLEAN : <<bad>> \in Seq(BOOLEAN)
            OBVIOUS
          <5>2. setup.answers \subseteq Seq(BOOLEAN)
            BY ServerAssumption DEF ServerInv, Types
          <5> QED BY <3>2, <5>1, <5>2 DEF Read
        <4> DEFINE m == SignalRows(c, rows, answer)
        <4>2. m \in Messages /\ m.from = c /\ m.type = "message"
          BY DEF SignalRows, Messages
        <4>3. reader'[c] = "serving"
          BY <2>1, <3>2 DEF Read
        <4> QED BY <3>2, <4>1, <4>2, <4>3
      <3>3. CASE Read(c) /\ ~Plc(c)
        <4>1. PICK type \in {"forward", "monitor"} : Post(Message(type, c))
          BY <3>3 DEF Read
        <4> DEFINE m == Message(type, c)
        <4>2. m \in Messages /\ m.from = c /\ m.type = type
          BY EmptySeq DEF Message, Messages
        <4>3. reader'[c] = "serving"
          BY <2>1, <3>3 DEF Read
        <4> QED BY <4>1, <4>2, <4>3
      <3> QED BY <1>6, <3>1, <3>2, <3>3
    <2>3. /\ c \in users /\ ~Greets(c)
          /\ \A i \in DOMAIN inbox : inbox[i].from = c =>
               inbox[i] \in Messages /\ inbox[i].type \in {"message", "forward", "monitor"}
      BY <2>1, Served
    <2>4. Sent(m)'
      BY <1>1, <2>2, <2>3 DEF Sent, Plc
    <2>5. ASSUME NEW i \in DOMAIN inbox, inbox[i].from = c, NEW x \in Messages, x = inbox[i]
          PROVE  Sent(x)'
      <3>1. Sent(x) /\ x.from = c /\ x.type \in {"message", "forward", "monitor"}
        BY <2>3, <2>5 DEF ServerInv, Order
      <3> QED BY <1>1, <2>2, <2>3, <3>1 DEF Sent, Plc
    <2>6. reader'[c] \in {"serving", "gone"} /\ m.type # "start"
      BY <2>2
    <2>7. Order' /\ inbox' \in Seq(Messages)
      BY <1>1, <2>2, <2>3, <2>4, <2>5, <2>6, PostStep
    <2> QED BY <1>2, <1>3, <2>7 DEF ServerInv
  <1> QED BY <1>4, <1>5, <1>6
-----------------------------------------------------------------------------
(* The message at the head of the mailbox. *)
LEMMA AtHead ==
  ASSUME ServerInv, inbox # <<>>
  PROVE  Sent(Head(inbox)) /\ Head(inbox) \in Messages
  BY Popped DEF ServerInv, Types, Order

(* Messages after which only the mailbox stands elsewhere. *)
LEMMA TakeStep ==
  ASSUME ServerInv, NEW type, Receives(type), type \notin {"start", "finish"},
         UNCHANGED <<setup, reader, users, online, fails, clock, told, excused>>,
         \/ mailbox' = mailbox
         \/ /\ type = "message"
            /\ mailbox' = Busy("rows", Sender, Head(inbox).rows, Head(inbox).answer)
  PROVE  ServerInv'
  <1>1. /\ mailbox = Loop /\ inbox # <<>> /\ Head(inbox).type = type /\ inbox' = Tail(inbox)
        /\ mailbox.at = "loop"
    BY DEF Receives, Loop, Busy
  <1>2. PICK c : c = Head(inbox).from
    OBVIOUS
  <1>3. Sent(Head(inbox)) /\ Head(inbox) \in Messages
    BY <1>1, AtHead
  <1>4. /\ mailbox' \in [at : {"loop", "greet", "rows", "query", "dead"}, user : Conns \cup {None},
                          rows : Seq(BOOLEAN), answer : BOOLEAN]
        /\ mailbox'.at \in {"loop", "rows"}
        /\ mailbox'.at = "rows" => type = "message" /\ mailbox'.user = c
    BY <1>1, <1>2, <1>3 DEF Busy, Messages, Sender, ServerInv, Types
  <1>5. (mailbox.at \in {"greet", "rows", "query"} => mailbox.user \in PlcUsers)'
    BY <1>1, <1>2, <1>3, <1>4 DEF Sent, PlcUsers, Plc
  <1>6. \A d : ~Greets(d)'
    BY <1>4 DEF Greets
  <1>7. c \in Conns =>
          /\ reader'[c] = "serving" => c \in users'
          /\ reader'[c] \in {"none", "first", "login"} => Fresh(c)'
    BY <1>1 DEF ServerInv, Order, Fresh, Greets
  <1>8. Order' /\ inbox' \in Seq(Messages)
    BY <1>1, <1>2, <1>5, <1>6, <1>7, PopStep DEF ServerInv, Types
  <1>9. OnePlc' /\ Known'
    BY <1>1, KnownKept
  <1>10. Types'
    BY <1>4, <1>8 DEF ServerInv, Types
  <1> QED BY <1>8, <1>9, <1>10 DEF ServerInv

(* A connection that is refused, and one that becomes a user. *)
LEMMA RefuseStep == ASSUME ServerInv, Refuse PROVE ServerInv'
  <1> USE DEF userVars, ghostVars, senderVars, MailboxOnly
  <1>1. /\ mailbox = Loop /\ inbox # <<>> /\ Head(inbox).type = "start" /\ inbox' = Tail(inbox)
        /\ mailbox.at = "loop" /\ mailbox' = mailbox
        /\ UNCHANGED <<setup, users, online, fails, clock, told, excused>>
    BY DEF Refuse, Receives, Loop, Busy
  <1>2. PICK c : c = Head(inbox).from
    OBVIOUS
  <1>3. Sent(Head(inbox)) /\ c \in Conns
    BY <1>1, <1>2, AtHead DEF Sent
  <1>4. /\ reader' = [reader EXCEPT ![c] = "gone"]
        /\ reader' \in [Conns -> {"none", "first", "login", "serving", "gone"}]
        /\ reader'[c] = "gone"
    BY <1>2, <1>3 DEF Refuse, Sender, ServerInv, Types
  <1>5. \A d : ~Greets(d)'
    BY <1>1 DEF Greets
  <1>6. Order' /\ inbox' \in Seq(Messages)
    BY <1>1, <1>2, <1>3, <1>4, <1>5, PopStep DEF ServerInv, Types
  <1>7. OnePlc' /\ Known'
    BY <1>1, KnownKept
  <1>8. Types'
    BY <1>1, <1>4, <1>6 DEF ServerInv, Types
  <1> QED BY <1>6, <1>7, <1>8 DEF ServerInv

LEMMA StartStep == ASSUME ServerInv, Start PROVE ServerInv'
  <1> USE DEF senderVars, MailboxOnly
  <1>1. /\ mailbox = Loop /\ inbox # <<>> /\ Head(inbox).type = "start" /\ inbox' = Tail(inbox)
        /\ mailbox.at = "loop"
        /\ UNCHANGED <<setup, online, fails, clock, told>>
    BY DEF Start, Receives, Loop, Busy
  <1>2. PICK c : c = Head(inbox).from
    OBVIOUS
  <1>3. c \in Conns /\ reader[c] = "login"
    BY <1>1, <1>2, AtHead DEF Sent
  <1>4. Fresh(c)
    BY <1>1, <1>3 DEF ServerInv, Order, Greets
  <1>5. /\ users' = users \cup {c}
        /\ excused' = excused \cup
             (IF Plc(c) /\ told.signal = "fail" THEN {"forgotten"} ELSE {}) \cup
             (IF Plc(c) /\ PlcUsers # {} THEN {"two"} ELSE {})
    BY <1>2 DEF Start, Sender
  <1>6. \/ reader' = [reader EXCEPT ![c] = "serving"] /\ mailbox' = mailbox
        \/ Plc(c) /\ mailbox' = Busy("greet", c, <<>>, FALSE) /\ reader' = reader
    BY <1>2 DEF Start, Sender
  <1>7. /\ mailbox' \in [at : {"loop", "greet", "rows", "query", "dead"}, user : Conns \cup {None},
                          rows : Seq(BOOLEAN), answer : BOOLEAN]
        /\ reader' \in [Conns -> {"none", "first", "login", "serving", "gone"}]
        /\ \A d \in Conns : d # c => reader'[d] = reader[d]
        /\ \/ reader'[c] = "serving" /\ mailbox'.at = "loop"
           \/ Plc(c) /\ reader'[c] = "login" /\ mailbox'.at = "greet" /\ mailbox'.user = c
    <2>1. CASE reader' = [reader EXCEPT ![c] = "serving"] /\ mailbox' = mailbox
      BY <1>1, <1>3, <2>1 DEF ServerInv, Types
    <2>2. CASE Plc(c) /\ mailbox' = Busy("greet", c, <<>>, FALSE) /\ reader' = reader
      <3>1. mailbox' = [at |-> "greet", user |-> c, rows |-> <<>>, answer |-> FALSE]
        BY <2>2 DEF Busy
      <3>2. <<>> \in Seq(BOOLEAN)
        BY EmptySeq
      <3>3. /\ mailbox' \in [at : {"loop", "greet", "rows", "query", "dead"},
                               user : Conns \cup {None}, rows : Seq(BOOLEAN), answer : BOOLEAN]
            /\ mailbox'.at = "greet" /\ mailbox'.user = c
        BY <1>3, <3>1, <3>2
      <3>4. reader' \in [Conns -> {"none", "first", "login", "serving", "gone"}]
        BY <2>2 DEF ServerInv, Types
      <3> QED BY <1>3, <2>2, <3>3, <3>4
    <2> QED BY <1>6, <2>1, <2>2
  <1>8. \A d : Greets(d)' => d = c /\ Plc(c) /\ reader'[c] = "login"
    BY <1>7 DEF Greets
  <1>9. (mailbox.at \in {"greet", "rows", "query"} => mailbox.user \in PlcUsers)'
    BY <1>1, <1>5, <1>7 DEF PlcUsers, Plc
  <1>10. reader'[c] \in {"none", "first", "login"} => Greets(c)'
    BY <1>7 DEF Greets
  <1>11. Order' /\ inbox' \in Seq(Messages)
    BY <1>1, <1>2, <1>3, <1>5, <1>7, <1>8, <1>9, <1>10, PopStep
  <1>12. Types'
    BY <1>1, <1>3, <1>5, <1>7, <1>11 DEF ServerInv, Types
  <1>13. excused' = {} => excused = {} /\ (Plc(c) => told.signal # "fail" /\ PlcUsers = {})
    BY <1>5
  <1>14. PlcUsers' = PlcUsers \cup (IF Plc(c) THEN {c} ELSE {})
    BY <1>1, <1>5 DEF PlcUsers, Plc
  <1>15. OnePlc'
    BY <1>13, <1>14 DEF ServerInv, OnePlc
  <1>16. \A f : UNCHANGED <<Agrees(f), Settled(f)>>
    BY <1>1 DEF Agrees, Settled
  <1>17. Plc(c) /\ told.signal # "fail" => Agrees(fails[c]) /\ ~online[c]
    BY <1>4 DEF Fresh, Agrees
  <1>18. Settled(fails[c])
    BY <1>4 DEF Fresh, Settled
  <1>19. Known'
    BY <1>1, <1>13, <1>14, <1>16, <1>17, <1>18 DEF ServerInv, Known
  <1> QED BY <1>11, <1>12, <1>15, <1>19 DEF ServerInv

LEMMA GreetedStep == ASSUME ServerInv, Greeted PROVE ServerInv'
  <1> USE DEF userVars, ghostVars, senderVars, MailboxOnly
  <1>1. /\ mailbox.at = "greet" /\ mailbox' = Loop /\ mailbox'.at = "loop"
        /\ UNCHANGED <<setup, inbox, users, online, fails, clock, told, excused>>
    BY DEF Greeted, Written, Loop, Busy
  <1>2. PICK c : c = mailbox.user
    OBVIOUS
  <1>3. c \in Conns /\ c \in users /\ Greets(c) /\ \A i \in DOMAIN inbox : inbox[i].from # c
    BY <1>1, <1>2 DEF ServerInv, Order, Types, PlcUsers, Greets
  <1>4. /\ reader' = [reader EXCEPT ![c] = "serving"]
        /\ reader' \in [Conns -> {"none", "first", "login", "serving", "gone"}]
        /\ reader'[c] = "serving" /\ \A d \in Conns : d # c => reader'[d] = reader[d]
    BY <1>2, <1>3 DEF Greeted, ServerInv, Types
  <1>5. ASSUME NEW i \in DOMAIN inbox' PROVE Sent(inbox[i])'
    <2>1. Sent(inbox[i]) /\ inbox[i].from # c
      BY <1>1, <1>3 DEF ServerInv, Order
    <2>2. inbox[i].from \in Conns => reader'[inbox[i].from] = reader[inbox[i].from]
      BY <1>4, <2>1
    <2> QED BY <1>1, <2>1, <2>2 DEF Sent, Plc
  <1>6. ASSUME NEW d \in Conns
        PROVE  /\ reader'[d] = "serving" => d \in users'
               /\ reader'[d] \in {"none", "first", "login"} /\ ~Greets(d)' => Fresh(d)'
               /\ ~Greets(d)'
    BY <1>1, <1>2, <1>3, <1>4 DEF ServerInv, Order, Fresh, Greets
  <1>7. Order'
    BY <1>1, <1>5, <1>6 DEF ServerInv, Order, InOrder
  <1>8. OnePlc' /\ Known'
    BY <1>1, KnownKept
  <1>9. Types'
    BY <1>1, <1>4, EmptySeq DEF ServerInv, Types, Loop, Busy
  <1> QED BY <1>7, <1>8, <1>9 DEF ServerInv

(* One row is counted. *)
LEMMA CountStep == ASSUME ServerInv, CountRow PROVE ServerInv'
  <1> USE DEF senderVars, connVars, MailboxOnly
  <1>1. PICK c : c = mailbox.user
    OBVIOUS
  <1>2. PICK bad : bad = Head(mailbox.rows)
    OBVIOUS
  <1>3. /\ mailbox.at = "rows" /\ mailbox.rows # <<>>
        /\ mailbox' = [mailbox EXCEPT !.rows = Tail(@)]
        /\ UNCHANGED <<setup, inbox, reader, users, online, clock, told>>
        /\ fails' = [fails EXCEPT ![c] = Counted(@, bad)]
        /\ excused' = excused \cup (IF Hides(fails[c], bad) THEN {"hidden"} ELSE {})
    BY <1>1, <1>2 DEF CountRow
  <1>4. /\ bad \in BOOLEAN /\ Tail(mailbox.rows) \in Seq(BOOLEAN)
    BY <1>2, <1>3, HeadTailProperties DEF ServerInv, Types
  <1>5. /\ mailbox' \in [at : {"loop", "greet", "rows", "query", "dead"}, user : Conns \cup {None},
                          rows : Seq(BOOLEAN), answer : BOOLEAN]
        /\ mailbox'.at = "rows" /\ mailbox'.user = mailbox.user
    BY <1>3, <1>4 DEF ServerInv, Types
  <1>6. c \in PlcUsers /\ c \in users /\ c \in Conns
    BY <1>1, <1>3 DEF ServerInv, Types, Order, PlcUsers
  <1>7. PICK f \in Counters \cup {None} : f = fails[c]
    BY <1>6 DEF ServerInv, Types
  <1>8. /\ Counted(f, bad) \in Counters
        /\ Agrees(f) /\ ~Hides(f, bad) => Agrees(Counted(f, bad))
    BY <1>4, CountedAgrees
  <1>9. /\ fails' \in [Conns -> Counters \cup {None}]
        /\ fails'[c] = Counted(f, bad) /\ \A d \in Conns : d # c => fails'[d] = fails[d]
    BY <1>3, <1>6, <1>7, <1>8 DEF ServerInv, Types
  <1>10. Types'
    BY <1>3, <1>5, <1>9 DEF ServerInv, Types
  <1>11. Order'
    BY <1>3, <1>5, <1>6, <1>9, StayStep
  <1>12. UNCHANGED PlcUsers
    BY <1>3 DEF PlcUsers, Plc
  <1>13. excused' = {} => excused = {} /\ ~Hides(f, bad)
    BY <1>3, <1>7
  <1>14. OnePlc'
    BY <1>12, <1>13 DEF ServerInv, OnePlc
  <1>15. \A g : UNCHANGED Agrees(g)
    BY <1>3 DEF Agrees
  <1>16. Known'
    <2>1. SUFFICES ASSUME excused' = {}, setup.sms
                   PROVE  /\ told.plc = "online" <=> \E d \in PlcUsers : online[d]
                          /\ Agrees(fails'[c])
      BY <1>3, <1>5, <1>6, <1>12, <1>13, <1>14, <1>15 DEF Known, OnePlc
    <2>2. Agrees(f)
      BY <1>6, <1>7, <1>13, <2>1 DEF ServerInv, Known
    <2> QED BY <1>8, <1>9, <1>13, <2>1, <2>2 DEF ServerInv, Known
  <1> QED BY <1>10, <1>11, <1>14, <1>16 DEF ServerInv

(* The rows are counted; what there is to tell is told, or left for after the query. *)
LEMMA DoneStep == ASSUME ServerInv, RowsDone \/ QueryDone PROVE ServerInv'
  <1> USE DEF senderVars, connVars, MailboxOnly
  <1>1. /\ mailbox.at \in {"rows", "query"}
        /\ UNCHANGED <<setup, inbox, reader, users, online>>
        /\ clock' \in [due : BOOLEAN, settled : BOOLEAN, recent : BOOLEAN]
    BY DEF RowsDone, QueryDone, Written, ServerInv, Types
  <1>2. CASE mailbox' = Loop /\ NotifySignalEvents(mailbox.user) /\ UNCHANGED excused
    <2>1. /\ OnePlc' /\ Known'
          /\ fails' \in [Conns -> Counters \cup {None}]
          /\ told' \in [plc : {"online", "offline"}, signal : {"none", "fail", "ok"}]
          /\ \A d \in Conns \ users : fails'[d] = fails[d]
      BY <1>1, <1>2, TellStep
    <2>2. mailbox'.at = "loop"
      BY <1>2 DEF Loop, Busy
    <2>3. Order'
      BY <1>1, <2>1, <2>2, StayStep
    <2>4. Types'
      BY <1>1, <1>2, <2>1, EmptySeq DEF ServerInv, Types, Loop, Busy
    <2> QED BY <2>1, <2>3, <2>4 DEF ServerInv
  <1>3. CASE /\ mailbox.at = "rows" /\ mailbox' = [mailbox EXCEPT !.at = "query"]
             /\ UNCHANGED <<fails, told, excused>>
    <2>1. /\ mailbox' \in [at : {"loop", "greet", "rows", "query", "dead"},
                            user : Conns \cup {None}, rows : Seq(BOOLEAN), answer : BOOLEAN]
          /\ mailbox'.at = "query" /\ mailbox'.user = mailbox.user
      BY <1>3 DEF ServerInv, Types
    <2>2. OnePlc' /\ Known'
      BY <1>1, <1>3, <2>1, KnownKept
    <2>3. Order'
      BY <1>1, <1>3, <2>1, StayStep
    <2>4. Types'
      BY <1>1, <1>3, <2>1 DEF ServerInv, Types
    <2> QED BY <2>2, <2>3, <2>4 DEF ServerInv
  <1>4. CASE /\ mailbox' = Loop /\ excused' = excused \cup {"unheard"}
             /\ UNCHANGED <<fails, told>>
    <2>1. mailbox'.at = "loop" /\ excused' # {} /\ excused \subseteq excused'
      BY <1>4 DEF Loop, Busy
    <2>2. OnePlc' /\ Known'
      BY <1>1, <1>4, <2>1, KnownKept
    <2>3. Order'
      BY <1>1, <1>4, <2>1, StayStep
    <2>4. Types'
      BY <1>1, <1>4, EmptySeq DEF ServerInv, Types, Loop, Busy
    <2> QED BY <2>2, <2>3, <2>4 DEF ServerInv
  <1>5. \/ mailbox' = Loop /\ NotifySignalEvents(mailbox.user) /\ UNCHANGED excused
        \/ /\ mailbox.at = "rows" /\ mailbox' = [mailbox EXCEPT !.at = "query"]
           /\ UNCHANGED <<fails, told, excused>>
        \/ /\ mailbox' = Loop /\ excused' = excused \cup {"unheard"}
           /\ UNCHANGED <<fails, told>>
    BY DEF RowsDone, QueryDone, Written
  <1> QED BY <1>2, <1>3, <1>4, <1>5

(* The operators are told of a PLC. *)
LEMMA NotifyTells ==
  ASSUME ServerInv, NEW cs \in SUBSET Conns, NEW up \in BOOLEAN, NEW done, Notify(cs, up, done)
  PROVE  /\ online' \in [Conns -> BOOLEAN]
         /\ told' \in [plc : {"online", "offline"}, signal : {"none", "fail", "ok"}]
         /\ told'.signal = told.signal
         /\ \A d \in Conns \ cs : online'[d] = online[d]
         /\ setup.sms =>
              /\ \A d \in cs : online'[d] = up
              /\ told'.plc = IF \A d \in cs : online[d] = up THEN told.plc
                             ELSE IF up THEN "online" ELSE "offline"
  <1> DEFINE tell == {c \in cs : online[c] # up}
  <1>1. CASE setup.sms
    <2>1. /\ online' = [c \in Conns |-> IF c \in tell THEN up ELSE online[c]]
          /\ told' = IF tell = {} THEN told
                     ELSE [told EXCEPT !.plc = IF up THEN "online" ELSE "offline"]
      BY <1>1 DEF Notify
    <2>2. tell = {} <=> \A d \in cs : online[d] = up
      OBVIOUS
    <2>3. \A d \in Conns : d \in tell <=> d \in cs /\ online[d] # up
      OBVIOUS
    <2> HIDE DEF tell
    <2>4. \A d \in Conns : online[d] \in BOOLEAN
      BY DEF ServerInv, Types
    <2>5. online' \in [Conns -> BOOLEAN]
      BY <2>1, <2>4
    <2>6. /\ \A d \in Conns \ cs : online'[d] = online[d]
          /\ \A d \in cs : online'[d] = up
      BY <2>1, <2>3
    <2>7. /\ told' \in [plc : {"online", "offline"}, signal : {"none", "fail", "ok"}]
          /\ told'.signal = told.signal
          /\ told'.plc = IF tell = {} THEN told.plc ELSE IF up THEN "online" ELSE "offline"
      BY <2>1 DEF ServerInv, Types
    <2> QED BY <2>2, <2>5, <2>6, <2>7
  <1>2. CASE ~setup.sms
    BY <1>2 DEF Notify, ServerInv, Types
  <1> QED BY <1>1, <1>2

(* A user has left. *)
LEMMA FinishStep == ASSUME ServerInv, Finish PROVE ServerInv'
  <1>1. /\ mailbox = Loop /\ inbox # <<>> /\ Head(inbox).type = "finish" /\ inbox' = Tail(inbox)
        /\ mailbox.at = "loop"
        /\ UNCHANGED <<setup, reader, mailbox, fails, clock, excused>>
    BY DEF Finish, Receives, MailboxOnly, Loop, Busy
  <1>2. PICK c : c = Head(inbox).from
    OBVIOUS
  <1>3. c \in Conns /\ c \in users /\ reader[c] = "gone"
    BY <1>1, <1>2, AtHead DEF Sent
  <1>4. users' = users \ {c} /\ PlcUsers' = PlcUsers \ {c}
    BY <1>1, <1>2 DEF Finish, Sender, PlcUsers, Plc
  <1>5. PICK cs \in SUBSET Conns : cs = {c} \cap PlcUsers /\ Notify(cs, FALSE, FALSE)
    BY <1>2, <1>3 DEF Finish, Sender
  <1>6. /\ online' \in [Conns -> BOOLEAN]
        /\ told' \in [plc : {"online", "offline"}, signal : {"none", "fail", "ok"}]
        /\ told'.signal = told.signal
        /\ \A d \in Conns \ cs : online'[d] = online[d]
        /\ setup.sms =>
             told'.plc = IF \A d \in cs : online[d] = FALSE THEN told.plc ELSE "offline"
    BY <1>5, NotifyTells
  <1>7. \A d : ~Greets(d)'
    BY <1>1 DEF Greets
  <1>8. Order' /\ inbox' \in Seq(Messages)
    BY <1>1, <1>2, <1>3, <1>4, <1>5, <1>6, <1>7, PopStep DEF ServerInv, Types
  <1>9. Types'
    BY <1>1, <1>4, <1>6, <1>8 DEF ServerInv, Types
  <1>10. OnePlc'
    BY <1>1, <1>4 DEF ServerInv, OnePlc
  <1>11. \A f : UNCHANGED <<Agrees(f), Settled(f)>>
    BY <1>6 DEF Agrees, Settled
  <1>12. ASSUME excused = {}, setup.sms
         PROVE  told'.plc = "online" <=> \E d \in PlcUsers' : online'[d]
    <2>1. \A d, e \in PlcUsers : d = e
      BY <1>12 DEF ServerInv, OnePlc
    <2>2. told.plc = "online" <=> \E d \in PlcUsers : online[d]
      BY <1>12 DEF ServerInv, Known
    <2>3. \A d \in PlcUsers : d \in Conns /\ online[d] \in BOOLEAN
      BY DEF ServerInv, Types, PlcUsers
    <2>4. CASE c \in PlcUsers
      <3>1. PlcUsers = {c} /\ PlcUsers' = {} /\ cs = {c}
        BY <1>4, <1>5, <2>1, <2>4
      <3> QED BY <1>6, <1>12, <2>2, <2>3, <3>1
    <2>5. CASE c \notin PlcUsers
      <3>1. PlcUsers' = PlcUsers /\ cs = {}
        BY <1>4, <1>5, <2>5
      <3> QED BY <1>6, <1>12, <2>2, <2>3, <3>1
    <2> QED BY <2>4, <2>5
  <1>13. Known'
    BY <1>1, <1>4, <1>11, <1>12 DEF ServerInv, Known
  <1> QED BY <1>8, <1>9, <1>10, <1>13 DEF ServerInv

(* The clock. *)
LEMMA PingStep == ASSUME ServerInv, Ping PROVE ServerInv'
  <1>1. /\ mailbox.at = "loop"
        /\ UNCHANGED <<setup, reader, inbox, users, fails, excused>>
        /\ clock' = [clock EXCEPT !.due = FALSE]
    BY DEF Ping, MailboxOnly, connVars, Loop, Busy
  <1>2. clock' \in [due : BOOLEAN, settled : BOOLEAN, recent : BOOLEAN] /\ clock.recent \in BOOLEAN
    BY <1>1 DEF ServerInv, Types
  <1>3. CASE mailbox' = [Loop EXCEPT !.at = "dead"] /\ UNCHANGED <<online, told>>
    <2>1. mailbox' = [at |-> "dead", user |-> None, rows |-> <<>>, answer |-> FALSE]
      BY <1>3 DEF Loop, Busy
    <2>2. OnePlc' /\ Known'
      BY <1>1, <1>3, <2>1, KnownKept
    <2>3. Order'
      BY <1>1, <1>3, <2>1, StayStep
    <2>4. mailbox' \in [at : {"loop", "greet", "rows", "query", "dead"},
                        user : Conns \cup {None}, rows : Seq(BOOLEAN), answer : BOOLEAN]
      <3>1. <<>> \in Seq(BOOLEAN)
        BY EmptySeq
      <3> QED BY <2>1, <3>1
    <2>5. Types'
      BY <1>1, <1>2, <1>3, <2>4 DEF ServerInv, Types
    <2> QED BY <2>2, <2>3, <2>5 DEF ServerInv
  <1>4. CASE /\ mailbox' = mailbox
             /\ Notify(IF clock.settled THEN PlcUsers ELSE {}, clock.recent, TRUE)
    <2>1. PlcUsers \subseteq users /\ PlcUsers \subseteq Conns /\ PlcUsers' = PlcUsers
      BY <1>1 DEF ServerInv, Types, PlcUsers, Plc
    <2>2. PICK cs \in SUBSET Conns, up \in BOOLEAN :
            /\ cs = (IF clock.settled THEN PlcUsers ELSE {}) /\ up = clock.recent
            /\ Notify(cs, up, TRUE)
      BY <1>2, <1>4, <2>1
    <2>3. /\ online' \in [Conns -> BOOLEAN]
          /\ told' \in [plc : {"online", "offline"}, signal : {"none", "fail", "ok"}]
          /\ told'.signal = told.signal
          /\ \A d \in Conns \ cs : online'[d] = online[d]
          /\ setup.sms =>
               /\ \A d \in cs : online'[d] = up
               /\ told'.plc = IF \A d \in cs : online[d] = up THEN told.plc
                              ELSE IF up THEN "online" ELSE "offline"
      BY <2>2, NotifyTells
    <2>4. cs \subseteq users
      BY <2>1, <2>2
    <2>5. Order'
      BY <1>1, <1>4, <2>3, <2>4, StayStep
    <2>6. Types'
      BY <1>1, <1>2, <1>4, <2>3 DEF ServerInv, Types
    <2>7. OnePlc'
      BY <1>1, <2>1 DEF ServerInv, OnePlc
    <2>8. \A f : UNCHANGED <<Agrees(f), Settled(f)>>
      BY <2>3 DEF Agrees, Settled
    <2>9. ASSUME excused = {}, setup.sms
          PROVE  told'.plc = "online" <=> \E d \in PlcUsers : online'[d]
      <3>1. told.plc = "online" <=> \E d \in PlcUsers : online[d]
        BY <2>9 DEF ServerInv, Known
      <3>2. CASE cs = {} \/ \A d \in cs : online[d] = up
        <4>1. \A d \in PlcUsers : online'[d] = online[d]
          BY <2>1, <2>3, <2>9, <3>2
        <4> QED BY <2>3, <2>9, <3>1, <3>2, <4>1
      <3>3. CASE \E d \in cs : online[d] # up
        <4>1. cs = PlcUsers /\ cs # {}
          BY <2>2, <3>3
        <4> QED BY <2>3, <2>9, <3>3, <4>1
      <3> QED BY <3>2, <3>3
    <2>10. Known'
      BY <1>1, <1>4, <2>1, <2>8, <2>9 DEF ServerInv, Known
    <2> QED BY <2>5, <2>6, <2>7, <2>10 DEF ServerInv
  <1> QED BY <1>3, <1>4 DEF Ping
-----------------------------------------------------------------------------
LEMMA ServerStep == ServerInv /\ [Next]_vars => ServerInv'
  <1> SUFFICES ASSUME ServerInv, [Next]_vars PROVE ServerInv'
    OBVIOUS
  <1> USE DEF userVars, ghostVars, senderVars, connVars, serviceVars
  <1>1. CASE UNCHANGED vars
    BY <1>1, QuietStep DEF vars, ServerInv, Types
  <1>2. ASSUME NEW c \in Conns, Connection(c) PROVE ServerInv'
    <2>1. CASE Accept(c) \/ LogIn(c) \/ LeaveFirst(c) \/ Leave(c) \/ Read(c)
      BY <2>1, ReaderStep
    <2>2. CASE Break(c) \/ Stall(c) \/ Resume(c)
      BY <2>2, QuietStep DEF Break, Stall, Resume, PeerOnly, ServerInv, Types
    <2>3. CASE TakeMessage(c) \/ WriteMessage(c)
      BY <2>3, QuietStep DEF TakeMessage, WriteMessage, WriterOnly, ServerInv, Types
    <2> QED BY <1>2, <2>1, <2>2, <2>3 DEF Connection
  <1>3. CASE Mailbox
    <2>1. CASE ReceiveRows
      BY <2>1, TakeStep DEF ReceiveRows, MailboxOnly
    <2>2. CASE FromOperator
      BY <2>2, TakeStep DEF FromOperator, MailboxOnly
    <2>3. CASE Die
      BY <2>3, TakeStep DEF Die, MailboxOnly
    <2> QED BY <1>3, <2>1, <2>2, <2>3, RefuseStep, StartStep, GreetedStep, CountStep, DoneStep,
               FinishStep, PingStep DEF Mailbox
  <1>4. CASE Modem \/ TestProgram
    BY <1>4, QuietStep DEF Modem, TestProgram, ServerInv, Types
  <1>5. CASE Tick
    <2>1. clock' \in [due : BOOLEAN, settled : BOOLEAN, recent : BOOLEAN]
      <3>1. clock.settled \in BOOLEAN /\ clock.recent \in BOOLEAN
        BY DEF ServerInv, Types
      <3>2. PICK settled \in {clock.settled, TRUE}, recent \in {clock.recent, FALSE} :
              clock' = [due |-> TRUE, settled |-> settled, recent |-> recent]
        BY <1>5 DEF Tick
      <3>3. settled \in BOOLEAN /\ recent \in BOOLEAN
        BY <3>1
      <3> QED BY <3>2, <3>3
    <2> QED BY <1>5, <2>1, QuietStep DEF Tick
  <1>6. CASE StopServer
    <2> DEFINE m == Message("die", None)
    <2>1. m \in Messages /\ m.from = None /\ m.type = "die"
      BY EmptySeq DEF Message, Messages
    <2>2. /\ Post(m)
          /\ UNCHANGED <<setup, reader, mailbox, users, online, fails, clock, told, excused>>
      BY <1>6 DEF StopServer
    <2> HIDE DEF m
    <2>3. Sent(m)' /\ m.from \notin Conns
      BY <2>1, ServerAssumption DEF Sent
    <2>4. ASSUME NEW i \in DOMAIN inbox, inbox[i].from = None
          PROVE  /\ inbox[i].type = "die"
                 /\ \A x \in Messages : x = inbox[i] => Sent(x)'
      <3>1. Sent(inbox[i])
        BY DEF ServerInv, Order
      <3>2. inbox[i].type = "die"
        BY <2>4, <3>1, ServerAssumption DEF Sent
      <3> QED BY <2>4, <3>2 DEF Sent
    <2>5. Order' /\ inbox' \in Seq(Messages)
      BY <2>1, <2>2, <2>3, <2>4, PostStep DEF ServerInv, Types
    <2>6. OnePlc' /\ Known'
      BY <2>2, KnownKept
    <2>7. Types'
      BY <2>2, <2>5 DEF ServerInv, Types
    <2> QED BY <2>5, <2>6, <2>7 DEF ServerInv
  <1> QED BY <1>1, <1>2, <1>3, <1>4, <1>5, <1>6 DEF Next

LEMMA InvKnows == ServerInv => OperatorsKnow
  <1> SUFFICES ASSUME ServerInv, setup.sms, mailbox = Loop, excused = {}
               PROVE  /\ told.plc = "online" <=> \E c \in PlcUsers : online[c]
                      /\ \A c \in PlcUsers : fails[c] # None =>
                           /\ fails[c].count >= Limit => told.signal = "fail"
                           /\ fails[c].count = 0 => told.signal # "fail"
    BY DEF OperatorsKnow
  <1>1. mailbox.at = "loop"
    BY DEF Loop, Busy
  <1>2. ASSUME NEW c \in PlcUsers, fails[c] # None
        PROVE  /\ fails[c].count >= Limit => told.signal = "fail"
               /\ fails[c].count = 0 => told.signal # "fail"
    <2>1. Agrees(fails[c]) /\ Settled(fails[c])
      BY <1>1 DEF ServerInv, Known
    <2>2. fails[c] \in Counters
      BY <1>2 DEF ServerInv, Types, PlcUsers
    <2>3. fails[c].count \in Nat
      BY <2>2 DEF Counters
    <2> QED BY <1>2, <2>1, <2>3, ServerAssumption DEF Agrees, Settled
  <1> QED BY <1>2 DEF ServerInv, Known

(* The operators know how the PLC and its signal are, unless they are led astray in one *)
(* of the ways that excused names, for every Limit, number of connections and messages. *)
THEOREM OperatorsAreTold == Spec => []OperatorsKnow
  <1>1. Init => ServerInv
    BY ServerInit
  <1>2. ServerInv /\ [Next]_vars => ServerInv'
    BY ServerStep
  <1> QED BY <1>1, <1>2, InvKnows, PTL DEF Spec
=============================================================================
