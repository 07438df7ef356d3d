----------------------------- MODULE MCPlcServer -----------------------------
(* Small servers for TLC. *)
EXTENDS PlcServer

CONSTANTS c1, c2

MCConns == {c1, c2}
Kinds(a, b) == (c1 :> a) @@ (c2 :> b)

Quiet ==
  [kind |-> Kinds("plc", "operator"), messages |-> 0, answers |-> {}, sms |-> FALSE,
   modem |-> "good", closes |-> FALSE, drops |-> FALSE, breaks |-> FALSE, stalls |-> 0,
   dbFails |-> FALSE, stops |-> FALSE, ticks |-> 0]

\* A PLC and an operator that come and go, and a server that is stopped; a PLC whose
\* rows are asked for and a connection that is refused; a database that fails.
Sessions == [Quiet EXCEPT !.messages = 1, !.breaks = TRUE, !.stalls = 1, !.stops = TRUE]
Strangers ==
  [Quiet EXCEPT !.kind = Kinds("plc", "stranger"), !.messages = 1, !.answers = {<<FALSE>>},
                !.drops = TRUE, !.stalls = 1]
Failing == [Quiet EXCEPT !.dbFails = TRUE, !.ticks = 1]

\* What the operators are told of the one signal, and of the PLC when it comes again.
Alarms ==
  [Quiet EXCEPT !.kind = Kinds("plc", "absent"), !.messages = 4, !.sms = TRUE,
                !.answers = {<<FALSE, TRUE>>, <<TRUE, FALSE>>, <<TRUE, FALSE, TRUE>>}]
Returns ==
  [Quiet EXCEPT !.kind = Kinds("plc", "plc"), !.messages = 1, !.answers = {<<TRUE, TRUE>>},
                !.sms = TRUE, !.drops = TRUE]
Online ==
  [Quiet EXCEPT !.kind = Kinds("plc", "absent"), !.messages = 1, !.sms = TRUE,
                !.drops = TRUE, !.ticks = 2]

\* Modems that fail, and the test program of the sender.
Flaky == [Online EXCEPT !.modem = "flaky"]
Dead == [Online EXCEPT !.modem = "dead"]
Closing == [Flaky EXCEPT !.closes = TRUE, !.kind = Kinds("absent", "absent"), !.ticks = 0]
ClosingDead == [Closing EXCEPT !.modem = "dead"]

MCSetups ==
  {Sessions, Strangers, Failing, Alarms, Returns, Online, Flaky, Dead, Closing, ClosingDead}
==============================================================================
