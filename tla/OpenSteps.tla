----------------------------- MODULE OpenSteps ------------------------------
(***************************************************************************)
(* The steps of opening an address, as far as they concern options,        *)
(* descriptors, retries and rights.  The functions that open addresses are *)
(* written as sequences of steps (OpenSockets, OpenProxies, OpenFiles,     *)
(* OpenPrograms) and Open.tla says what a step does.                       *)
(*                                                                         *)
(* What is opened is a record: addr, the address; given, the options it    *)
(* has got.  Descriptors have names; fd is the one of the stream.          *)
(***************************************************************************)
EXTENDS OpenOptions

(* Calls that may fail: fail is "error" when the attempt is the last one,  *)
(* "later" when it may be repeated; closes are the descriptors closed then. *)
Call(fail, closes) == <<[do |-> "call", fail |-> fail, closes |-> closes, root |-> FALSE]>>
CallAsRoot(fail, closes) == <<[do |-> "call", fail |-> fail, closes |-> closes, root |-> TRUE]>>
Check == Call("error", {})

\* Calls that yield descriptors of a kind.
MakeAny(names, kinds, fail) == <<[do |-> "make", names |-> names, kinds |-> kinds, fail |-> fail]>>
Make(names, kind, fail) == MakeAny(names, {kind}, fail)
Use(name) == <<[do |-> "use", name |-> name]>>
Get(name, kind, fail) == Make({name}, kind, fail) \o Use(name)
Close(names) == <<[do |-> "close", names |-> names]>>

\* accept: a connection on a descriptor of its own that inherits socket options.
Accept(from, to) == <<[do |-> "accept", from |-> from, to |-> to, closes |-> {from}]>>

(* Options that are used: all of a phase, those that applyopts_single,     *)
(* applyopts_named and so on look for, or some by name.                    *)
Apply(phase) == <<[do |-> "apply", phase |-> phase, name |-> "fd"]>>
ApplyTo(name, phase) == <<[do |-> "apply", phase |-> phase, name |-> name]>>
ApplyRange(first, last) ==
  FlattenSeq([i \in DOMAIN PhasesFrom(first, last) |-> Apply(PhasesFrom(first, last)[i])])
ApplySingle(phase) == <<[do |-> "single", phase |-> phase]>>
ApplyOffset == <<[do |-> "offset"]>>
ApplyFlags == <<[do |-> "flags"]>>
ApplyNamed(phase) == <<[do |-> "named", phase |-> phase]>>
ApplySignal == <<[do |-> "signal"]>>
Take(options) == <<[do |-> "take", options |-> options]>>
Put(options, name) == <<[do |-> "put", options |-> options, name |-> name]>>
Drop(phase) == <<[do |-> "drop", phase |-> phase]>>
DropAll == <<[do |-> "dropall"]>>
Leftover == <<[do |-> "leftover"]>>

\* A second set of options with a name: those of some groups are moved there, or
\* copied with those of the application; Swap goes on with that set.
Move(name, groups) == <<[do |-> "move", name |-> name, groups |-> groups]>>
Copy(name, groups) == <<[do |-> "copy", name |-> name, groups |-> groups \cup {"APPL"}]>>
Swap(name) == <<[do |-> "swap", name |-> name]>>
With(name, steps) == Swap(name) \o steps \o Swap(name)

(* Attempts.  Keep copies the options.  A failure that may be repeated goes *)
(* back to Loop, with the copy unless it is a LoopAsIs; own says whether    *)
(* the caller goes on with the copy, too, after EndLoop, or with the array  *)
(* of the first attempt, which is empty by then.                            *)
Keep == <<[do |-> "keep"]>>
Restore == <<[do |-> "restore"]>>
Loop(own) == <<[do |-> "loop", own |-> own, restores |-> TRUE]>>
LoopAsIs == <<[do |-> "loop", own |-> TRUE, restores |-> FALSE]>>
EndLoop == <<[do |-> "endloop"]>>

\* Places to go to, and steps that may or do go there.
Mark(mark) == <<[do |-> "mark", mark |-> mark]>>
Go(mark) == <<[do |-> "go", mark |-> mark]>>
May(mark, closes) == <<[do |-> "may", mark |-> mark, closes |-> closes]>>

\* fork: the child goes on; the parent closes descriptors and goes back to a mark,
\* or to the loop when mark is "loop".  Without a child, what follows is "error",
\* "later", or "again": fork again as long as there are retries, "anew" with the copy.
Fork(mark, closes, fail, failcloses) ==
  <<[do |-> "fork", mark |-> mark, closes |-> closes, fail |-> fail, failcloses |-> failcloses]>>

If(condition, steps) == IF condition THEN steps ELSE <<>>

Has(x, option) == option \in x.given
HasOneOf(x, options) == x.given \cap options # {}
-----------------------------------------------------------------------------
(* xioopts.c *)

applyopts_cloexec(name) == Put({"cloexec"}, name)
applyopts_fchown(name) == Put({"user"}, name)

_xioopen_setdelayeduser == <<[do |-> "delayeduser"]>>

\* Mutant of _xio_openlate: what is left is not looked at.
_xio_openlateUnchecked ==
  _xioopen_setdelayeduser \o Apply("LATE") \o ApplySingle("LATE") \o Apply("LATE2")

\* Mutant of _xio_openlate: the user changes before the rest is done.
_xio_openlateEarly ==
  _xioopen_setdelayeduser \o Apply("LATE2") \o Apply("LATE") \o ApplySingle("LATE") \o Leftover

\* Mutant of _xio_openlate: the delayed change of the user is forgotten.
_xio_openlateAsRoot == Apply("LATE") \o ApplySingle("LATE") \o Apply("LATE2") \o Leftover

\* The end of most openings: nothing may be left.
_xio_openlate ==
  _xioopen_setdelayeduser \o Apply("LATE") \o ApplySingle("LATE") \o Apply("LATE2") \o Leftover
=============================================================================
