------------------------------- MODULE MCOpen -------------------------------
(***************************************************************************)
(* Open for every address, without options and with each of those it       *)
(* takes, alone and next to a fork, to retries, or to the loss of rights.  *)
(***************************************************************************)
EXTENDS Open

Partners == {{}, {"fork"}, {"retry"}, {"su"}, {"su-d"}, {"range"}}

MCSetups ==
  UNION {{[addr |-> a, given |-> o \cup p] :
            o \in {{}} \cup {{x} : x \in Allowed(a)},
            p \in {q \in Partners : q \subseteq Allowed(a)}} : a \in Address}
=============================================================================
