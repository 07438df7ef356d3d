---------------------------- MODULE BlockingQueue ----------------------------
(***************************************************************************)
(* The stoppable queue that PlcServer2 and SmsMessenger have a copy of each *)
(* (BlockingQueue.fs): its methods as functions of its state, for queues    *)
(* with one consumer.  A method that finds the queue stopped without the    *)
(* lock finds the same with it, since a queue is never started again: what  *)
(* it does under the lock is one step.                                      *)
(***************************************************************************)
EXTENDS Sequences

\* waiting: the consumer is in Monitor.Wait and was not woken yet.
EmptyQueue == [items |-> <<>>, stopped |-> FALSE, waiting |-> FALSE]

\* Pulse wakes the consumer; what a stopped queue is given is dropped.
Enqueue(q, x) ==
  IF q.stopped THEN q ELSE [q EXCEPT !.items = Append(@, x), !.waiting = FALSE]

\* Mutant of Stop: nobody is woken.
StopSilently(q) == [q EXCEPT !.stopped = TRUE]

Stop(q) == [q EXCEPT !.stopped = TRUE, !.waiting = FALSE]

(* Dequeue by the consumer: it waits, it takes an item, or gets none. *)
Blocks(q) == ~q.waiting /\ ~q.stopped /\ q.items = <<>>
Gives(q) == ~q.waiting /\ ~q.stopped /\ q.items # <<>>
GivesNone(q) == ~q.waiting /\ q.stopped

Wait(q) == [q EXCEPT !.waiting = TRUE]
Taken(q) == [q EXCEPT !.items = Tail(@)]
==============================================================================
