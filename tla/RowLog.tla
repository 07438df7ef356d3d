------------------------------- MODULE RowLog -------------------------------
(***************************************************************************)
(* What the ring of rows promises to the rest of the controller: rows get  *)
(* consecutive Ids, readers see a window [first .. next) of them, the      *)
(* window keeps fewer than Capacity rows between two Adds, a row is        *)
(* counted before it is seen, and a restart that finds one row counted     *)
(* continues the numbering with every row written so far.  A restart that  *)
(* finds none counted promises nothing: the rows written are lost and      *)
(* their Ids are given out again.                                          *)
(***************************************************************************)
EXTENDS Integers

CONSTANT Capacity

VARIABLES up,      \* the store is open
          first,   \* smallest Id that can be fetched
          next,    \* smallest Id that cannot be fetched yet
          given,   \* Ids given out in this numbering
          counted, \* Ids that the next restart finds counted
          fits     \* the next restart can read what this one wrote

vars == <<up, first, next, given, counted, fits>>

Init ==
  /\ up = FALSE
  /\ first = 0
  /\ next = 0
  /\ given = 0
  /\ counted = 0
  /\ fits = FALSE

\* A row gets the next Id; it is counted, and then it can be fetched.
Write ==
  /\ up
  /\ given = next
  /\ given' = given + 1
  /\ UNCHANGED <<up, first, next, counted, fits>>

Count ==
  /\ up
  /\ next < given
  /\ counted' = given
  /\ UNCHANGED <<up, first, next, given, fits>>

Publish ==
  /\ up
  /\ next < counted
  /\ next' = next + 1
  /\ UNCHANGED <<up, first, given, counted, fits>>

\* The oldest row makes room, and only when the window is full.
Retire ==
  /\ up
  /\ next - first = Capacity
  /\ first' = first + 1
  /\ UNCHANGED <<up, next, given, counted, fits>>

\* A failure of the power may take counts back, by less than Capacity rows
\* or all of them.
Stop ==
  /\ up' = FALSE
  /\ first' = 0
  /\ next' = 0
  /\ counted' \in 0 .. counted
  /\ counted' # counted => counted' = 0 \/ given - counted' < Capacity
  /\ UNCHANGED <<given, fits>>

\* Every row written is visible again, also one whose Add was interrupted.
Restart ==
  /\ ~up
  /\ fits
  /\ counted > 0
  /\ up' = TRUE
  /\ next' = given
  /\ first' \in 0 .. given
  /\ given - first' < Capacity
  /\ counted' = given
  /\ UNCHANGED <<given, fits>>

StartOver ==
  /\ ~up
  /\ fits => counted = 0
  /\ up' = TRUE
  /\ first' = 0
  /\ next' = 0
  /\ given' = 0
  /\ counted' = 0
  /\ fits' = TRUE

\* The store is taken away, or its reader becomes another.
Outdate ==
  /\ ~up
  /\ fits' = FALSE
  /\ UNCHANGED <<up, first, next, given, counted>>

Next ==
  \/ Write \/ Count \/ Publish \/ Retire
  \/ Stop \/ Restart \/ StartOver \/ Outdate

Spec == Init /\ [][Next]_vars
=============================================================================
