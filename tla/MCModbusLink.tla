---------------------------- MODULE MCModbusLink ----------------------------
(* Configurations and faults for ModbusLink. *)
EXTENDS ModbusLink

Coils(n) == [type |-> "COIL", start |-> 0, count |-> n]
Inputs == [type |-> "DISCRETE_INPUT", start |-> 0, count |-> 1]
Others == [type |-> "DISCRETE_INPUT", start |-> 1, count |-> 1]
Beyond == [type |-> "COIL", start |-> 2, count |-> 1]

Quiet ==
  [devices |-> <<Coils(2), Inputs>>, delays |-> 0, cuts |-> 0, breaks |-> 0, orders |-> 0,
   inputs |-> {0 :> TRUE @@ 1 :> FALSE}, toggles |-> 0, dies |-> FALSE]

MCSetups ==
  { [Quiet EXCEPT !.orders = 1, !.toggles = 1, !.dies = TRUE],
    [Quiet EXCEPT !.devices = <<Beyond, Inputs>>, !.toggles = 1],
    [Quiet EXCEPT !.devices = <<Coils(1)>>, !.orders = 2, !.breaks = 1],
    [Quiet EXCEPT !.devices = <<Inputs, Others>>, !.cuts = 1, !.delays = 3],
    [Quiet EXCEPT !.devices = <<Coils(1), Inputs>>, !.orders = 1, !.cuts = 1, !.delays = 3] }

MCConns == 1..2
=============================================================================
