----------------------------- MODULE MCHoldings -----------------------------
(***************************************************************************)
(* Four command lines that share a lock file L and a link N:               *)
(*   socat -W L pty,link=N tcp-l:P,fork                                    *)
(*   socat pty,link=N,waitlock=L X                                         *)
(*   socat exec:Q!!Z,lockfile=L tcp-l:P,fork                               *)
(*   socat exec:Q!!tcp-l:P,lockfile=L,fork X                               *)
(***************************************************************************)
EXTENDS Holdings

CONSTANTS a, b, k, L, N, Q

MCMasters == {a, b}
MCKids == {k}

Lock(kind, s, wait) == [kind |-> kind, thing |-> L, stream |-> s, wait |-> wait]
Link(s) == [kind |-> "name", thing |-> N, stream |-> s, wait |-> FALSE]
Program(s) == [kind |-> "program", thing |-> Q, stream |-> s, wait |-> FALSE]

Guarded == [items |-> <<Lock("main", 0, TRUE), Link(1)>>,
            first |-> 1, second |-> 1, forks |-> 2, before |-> 2]
Single == [items |-> <<Lock("lock", 1, TRUE), Link(1)>>,
           first |-> 1, second |-> 1, forks |-> 0, before |-> 0]
Dual == [items |-> <<Program(1), Lock("lock", 2, FALSE)>>,
         first |-> 2, second |-> 1, forks |-> 3, before |-> 2]
Both == [Dual EXCEPT !.forks = 2]

MCSetups == {Guarded, Single, Dual, Both}

\* Any two of the first three command lines, a and b exchanged are the same case,
\* and the second with the fourth.
MCInit ==
  /\ Init
  /\ \/ setup[a] = Guarded /\ setup[b] # Both
     \/ setup[a] = Single /\ setup[b] # Guarded
     \/ setup[a] = Dual /\ setup[b] = Dual

MCSpec == MCInit /\ [][Next]_vars /\ Fairness
=============================================================================
