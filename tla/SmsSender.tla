------------------------------ MODULE SmsSender ------------------------------
(***************************************************************************)
(* SmsSender.fs: the queue of SMS, the texts that are collected for the     *)
(* next one, and the thread that serves the modem.  An SMS is a number; it  *)
(* goes to one receiver, and a text that takes several is as one.           *)
(***************************************************************************)
EXTENDS BlockingQueue, Naturals

CONSTANTS MaxRetries,   \* max_retry_count
          MaxErrors     \* max_errors_in_round

ASSUME SenderAssumption == MaxRetries \in Nat /\ MaxErrors \in Nat \ {0}

VARIABLES
  setup,     \* chosen once; setup.modem: "dead" (its port never opens), "flaky", "good";
             \* setup.closes: the sender is run by its test program, not by PlcServer2
  sender,    \* queue, number of texts in MessageQueue, number of SMS made so far
  service,   \* where modem_service_thread stands
  current,   \* the SMS it sends
  errors,    \* round_errors
  got,       \* SMS that have reached the receiver
  gaveUp     \* SMS given up after max_retry_count

serviceVars == <<service, current, errors, got, gaveUp>>
senderVars == <<sender, serviceVars>>

NoSms == [number |-> 0, count |-> 0]

SenderInit ==
  /\ sender = [queue |-> EmptyQueue, texts |-> 0, made |-> 0]
  /\ service = "open"
  /\ current = NoSms
  /\ errors = 0
  /\ got = {} /\ gaveUp = {}
------------------------------------------------------------------------------
(* What others call, as functions of the state of the sender. *)

SendMessage(s) ==
  [s EXCEPT !.queue = Enqueue(@, [number |-> s.made + 1, count |-> 0]), !.made = @ + 1]

QueueMessage(s) == [s EXCEPT !.texts = @ + 1]

SendQueued(s) == IF s.texts > 0 THEN [SendMessage(s) EXCEPT !.texts = 0] ELSE s

(* test_smssender of TestProgram.fs.  SendSms refuses a sender that is closed, Close *)
(* drops the SMS that wait; PlcServer2 never calls it.                              *)
TestSendSms ==
  /\ setup.closes /\ ~sender.queue.stopped /\ sender.made < 2
  /\ sender' = SendMessage(sender)
  /\ UNCHANGED serviceVars

CloseSender ==
  /\ setup.closes /\ ~sender.queue.stopped
  /\ sender' = [sender EXCEPT !.queue = Stop(@)]
  /\ UNCHANGED serviceVars
------------------------------------------------------------------------------
(* modem_service_thread *)

Stopped == sender.queue.stopped

Opens ==
  /\ service = "open" /\ ~Stopped /\ setup.modem # "dead"
  /\ service' = "take"
  /\ errors' = 0
  /\ UNCHANGED <<sender, current, got, gaveUp>>

OpenFails ==
  /\ service = "open" /\ ~Stopped /\ setup.modem # "good"
  /\ service' = "sleep"
  /\ UNCHANGED <<sender, current, errors, got, gaveUp>>

TakeSms ==
  /\ service = "take" /\ errors < MaxErrors
  /\ \/ /\ Blocks(sender.queue)
        /\ sender' = [sender EXCEPT !.queue = Wait(@)]
        /\ UNCHANGED <<service, current>>
     \/ /\ Gives(sender.queue)
        /\ current' = Head(sender.queue.items)
        /\ sender' = [sender EXCEPT !.queue = Taken(@)]
        /\ service' = "send"
  /\ UNCHANGED <<errors, got, gaveUp>>

Sends ==
  /\ service = "send"
  /\ got' = got \cup {current.number}
  /\ errors' = 0
  /\ current' = NoSms
  /\ service' = "take"
  /\ UNCHANGED <<sender, gaveUp>>

\* Mutant of Again: the attempts are not counted.
AgainAndAgain(m) == m

Again(m) == [m EXCEPT !.count = @ + 1]

\* The modem answers wrongly or not in time; the SMS may be on its way all the same.
SendFails ==
  /\ service = "send" /\ setup.modem = "flaky"
  /\ got' \in {got, got \cup {current.number}}
  /\ errors' = errors + 1
  /\ IF current.count < MaxRetries
     THEN sender' = [sender EXCEPT !.queue = Enqueue(@, Again(current))] /\ UNCHANGED gaveUp
     ELSE gaveUp' = gaveUp \cup {current.number} /\ UNCHANGED sender
  /\ current' = NoSms
  /\ service' = "take"

\* Closing the modem may fail, which makes no difference.
CloseModem ==
  /\ service = "take"
  /\ errors >= MaxErrors \/ GivesNone(sender.queue)
  /\ service' = "sleep"
  /\ UNCHANGED <<sender, current, errors, got, gaveUp>>

WakeUp ==
  /\ service = "sleep"
  /\ service' = "open"
  /\ UNCHANGED <<sender, current, errors, got, gaveUp>>

ServiceEnds ==
  /\ service = "open" /\ Stopped
  /\ service' = "end"
  /\ UNCHANGED <<sender, current, errors, got, gaveUp>>

Service ==
  \/ Opens \/ OpenFails \/ TakeSms \/ Sends \/ SendFails \/ CloseModem
  \/ WakeUp \/ ServiceEnds
==============================================================================
