----------------------------- MODULE MCTransfer -----------------------------
(* Command lines for Transfer. *)
EXTENDS Transfer

Both(v) == [s \in {1, 2} |-> v]
First(v, w) == [s \in {1, 2} |-> IF s = 1 THEN v ELSE w]

\* socat without options between two sockets.
Plain ==
  [mode |-> "both", total |-> FALSE, kind |-> Both("socket"), ignoreeof |-> Both(FALSE),
   readbytes |-> Both(0), escape |-> Both(0), child |-> Both(FALSE),
   cool |-> FALSE, peer |-> "ready", resets |-> FALSE]

MCSetups ==
  { [Plain EXCEPT !.peer = "prompt"],
    [Plain EXCEPT !.peer = "slow", !.total = TRUE],
    [Plain EXCEPT !.cool = TRUE, !.resets = TRUE],
    [Plain EXCEPT !.mode = "lefttoright", !.cool = TRUE, !.resets = TRUE],
    [Plain EXCEPT !.mode = "righttoleft", !.resets = TRUE],
    [Plain EXCEPT !.readbytes = First(1, 0)],
    [Plain EXCEPT !.escape = First(0, 2)],
    [Plain EXCEPT !.child = First(FALSE, TRUE)],
    [Plain EXCEPT !.kind = First("file", "socket"), !.ignoreeof = First(TRUE, FALSE)],
    [Plain EXCEPT !.kind = First("file", "socket"), !.ignoreeof = First(TRUE, FALSE),
                  !.total = TRUE] }

\* tail -f as the second address.
SecondSetups ==
  {[Plain EXCEPT !.kind = First("socket", "file"), !.ignoreeof = First(FALSE, TRUE)]}
=============================================================================
