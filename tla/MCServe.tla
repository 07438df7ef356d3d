------------------------------- MODULE MCServe -------------------------------
(* Servers for Serve. *)
EXTENDS Serve

Plain ==
  [server |-> "listen", maxchildren |-> 0, fails |-> 0, retry |-> 0, empties |-> FALSE,
   stay |-> FALSE, refuses |-> FALSE]

MCSetups ==
  { [Plain EXCEPT !.refuses = TRUE, !.stay = TRUE],
    [Plain EXCEPT !.fails = 1, !.retry = 1],
    [Plain EXCEPT !.maxchildren = 1],
    [Plain EXCEPT !.maxchildren = 2, !.stay = TRUE],
    [Plain EXCEPT !.server = "udp", !.refuses = TRUE, !.stay = TRUE, !.fails = 1],
    [Plain EXCEPT !.server = "recvfrom", !.refuses = TRUE, !.stay = TRUE, !.fails = 1],
    [Plain EXCEPT !.server = "recvfrom", !.empties = TRUE] }

\* A limit of one child.
LimitSetups == {[Plain EXCEPT !.maxchildren = 1]}

=============================================================================
