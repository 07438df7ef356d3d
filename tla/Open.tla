------------------------------- MODULE Open ---------------------------------
(***************************************************************************)
(* Opening an address of socat.  What there is to be opened is an address  *)
(* with options; the functions of OpenSockets, OpenProxies, OpenFiles and  *)
(* OpenPrograms give the steps, this module what the steps do to options,  *)
(* descriptors and rights, and what may fail.                              *)
(*                                                                         *)
(* An option that is given twice and the values of options are left out.   *)
(* Options of one phase come in any order, as in the command line.         *)
(***************************************************************************)
EXTENDS OpenAddresses, OpenProxies, OpenPrograms

CONSTANTS
  Setups,       \* what is opened: records of an address and a set of options
  MaxRetries,   \* retries that option retry allows
  MaxForks      \* children of one process

VARIABLES
  setup,      \* what is opened, and the steps of the function that opens it
  pc,         \* number of the step
  opts,       \* options not yet used
  kept,       \* copy of the options for the next attempt
  other,      \* sets of options set apart, by name
  done,       \* options used
  on,         \* which options were put on which descriptors
  fd,         \* the descriptor of the stream
  fds,        \* kinds of the open descriptors
  lost,       \* descriptors that are open and have no name any more
  retries,    \* failures that are still allowed
  detached,   \* the caller's array of options has been emptied
  forks,      \* children
  rights,     \* user of the process and whether it sees a part of the file system only
  end         \* how it ended: open, error, unused option, rights missing

vars == <<setup, pc, opts, kept, other, done, on, fd, fds, lost, retries, detached, forks,
          rights, end>>

(* The functions that open the addresses. *)
Plan(x) ==
  CASE x.addr \in {"tcp-connect", "sctp-connect", "udp-connect"} -> xioopen_ipapp_connect(x)
    [] x.addr \in {"tcp-listen", "sctp-listen"} -> xioopen_ipapp_listen(x)
    [] x.addr = "udp-listen" -> xioopen_ipdgram_listen(x)
    [] x.addr = "udp-sendto" -> xioopen_udp_sendto(x)
    [] x.addr = "udp-datagram" -> xioopen_udp_datagram(x)
    [] x.addr = "udp-recvfrom" -> xioopen_udp_recvfrom(x)
    [] x.addr = "udp-recv" -> xioopen_udp_recv(x)
    [] x.addr = "ip-sendto" -> xioopen_rawip_sendto(x)
    [] x.addr = "ip-datagram" -> xioopen_rawip_datagram(x)
    [] x.addr = "ip-recvfrom" -> xioopen_rawip_recvfrom(x)
    [] x.addr = "ip-recv" -> xioopen_rawip_recv(x)
    [] x.addr = "socket-connect" -> xioopen_socket_connect(x)
    [] x.addr = "socket-listen" -> xioopen_socket_listen(x)
    [] x.addr = "socket-sendto" -> xioopen_socket_sendto(x)
    [] x.addr = "socket-datagram" -> xioopen_socket_datagram(x)
    [] x.addr = "socket-recvfrom" -> xioopen_socket_recvfrom(x)
    [] x.addr = "socket-recv" -> xioopen_socket_recv(x)
    [] x.addr \in {"unix-listen", "abstract-listen"} -> xioopen_unix_listen(x)
    [] x.addr \in {"unix-connect", "abstract-connect"} -> xioopen_unix_connect(x)
    [] x.addr \in {"unix-sendto", "abstract-sendto"} -> xioopen_unix_sendto(x)
    [] x.addr \in {"unix-recvfrom", "abstract-recvfrom"} -> xioopen_unix_recvfrom(x)
    [] x.addr \in {"unix-recv", "abstract-recv"} -> xioopen_unix_recv(x)
    [] x.addr \in {"unix-client", "abstract-client"} -> xioopen_unix_client(x)
    [] x.addr = "proxy" -> xioopen_proxy_connect(x)
    [] x.addr \in {"socks4", "socks4a"} -> xioopen_socks4_connect(x)
    [] x.addr = "openssl" -> xioopen_openssl_connect(x)
    [] x.addr = "openssl-listen" -> xioopen_openssl_listen(x)
    [] x.addr = "create" -> xioopen_creat(x)
    [] x.addr = "open" -> xioopen_open(x)
    [] x.addr = "gopen" -> xioopen_gopen(x)
    [] x.addr = "pipe" -> xioopen_fifo(x)
    [] x.addr = "fd" -> xioopen_fdnum(x)
    [] x.addr = "stdin" -> xioopen_stdfd(x)
    [] x.addr = "stdio" -> xioopen_stdio(x)
    [] x.addr = "tun" -> xioopen_tun(x)
    [] x.addr = "interface" -> xioopen_interface(x)
    [] x.addr = "pty" -> xioopen_pty(x)
    [] x.addr = "readline" -> xioopen_readline(x)
    [] x.addr = "exec" -> xioopen_exec(x)
    [] x.addr = "system" -> xioopen_system(x)

\* The options that decide which steps there are.
Switches ==
  {"bind", "sourceport", "lowport", "connect-timeout", "fork", "max-children", "unlink-early",
   "pty", "openpty", "pipes", "nofork", "wait-slave"} \cup PeerOptions

Plans ==
  [a \in Address |->
     [s \in {x.given \cap Switches : x \in {y \in Setups : y.addr = a}} |->
        Plan([addr |-> a, given |-> s])]]
Steps == setup.steps
Step == Steps[pc]

\* Places in the steps.
PlaceOf(mark) == CHOOSE i \in DOMAIN Steps : Steps[i].do = "mark" /\ Steps[i].mark = mark
LoopPlaces == {i \in DOMAIN Steps : Steps[i].do = "loop"}
LoopPlace == CHOOSE i \in LoopPlaces : TRUE
InLoop ==
  /\ LoopPlaces # {} /\ LoopPlace < pc
  /\ \A i \in DOMAIN Steps : Steps[i].do = "endloop" => pc < i

Init ==
  /\ setup \in {[addr |-> x.addr, given |-> x.given,
                  steps |-> Plans[x.addr][x.given \cap Switches]] : x \in Setups}
  /\ pc = 1
  /\ opts = setup.given
  /\ kept = setup.given
  /\ other = <<>>
  /\ done = {}
  /\ on = {}
  /\ fd = "none"
  /\ fds = <<>>
  /\ lost = {}
  /\ retries = 0
  /\ detached = FALSE
  /\ forks = 0
  /\ rights = [root |-> TRUE, jailed |-> FALSE, delayed |-> FALSE]
  /\ end = ""
-----------------------------------------------------------------------------
Running(do) == end = "" /\ pc \in DOMAIN Steps /\ Step.do = do

Ends(how) ==
  /\ end' = how
  /\ UNCHANGED <<setup, pc, opts, kept, other, done, on, fd, fds, lost, retries, detached, forks,
                 rights>>

Named(name) == IF name = "fd" THEN fd ELSE name
KindOf(name) == IF name \in DOMAIN fds THEN fds[name] ELSE "none"

\* What is on descriptors that are closed is on none.
OnWithout(names) == {<<p[1], IF p[2] \in names THEN "closed" ELSE p[2]>> : p \in on}
FdsWithout(names) == [n \in DOMAIN fds \ names |-> fds[n]]

ClosesThem(names) == fds' = FdsWithout(names) /\ on' = OnWithout(names)

\* Options that are used, all at once.
UsesThem(options) == opts' = opts \ options /\ done' = done \cup options
Next1 == pc' = pc + 1
SameOptions == UNCHANGED <<opts, kept, other, done>>
SameFds == UNCHANGED <<on, fd, fds, lost>>
SameProcess == UNCHANGED <<setup, retries, detached, forks, rights, end>>
-----------------------------------------------------------------------------
(* Calls and attempts *)

\* What happens when an attempt fails: the next one, or the end.
AttemptFails(fail, closes) ==
  IF fail = "later" /\ InLoop /\ retries > 0
  THEN /\ retries' = retries - 1
       /\ pc' = LoopPlace
       /\ IF Steps[LoopPlace].restores
          THEN /\ opts' = kept /\ done' = done \ kept
               /\ detached' = ~Steps[LoopPlace].own
          ELSE UNCHANGED <<opts, done, detached>>
       /\ ClosesThem(closes)
       /\ UNCHANGED <<setup, kept, other, fd, lost, forks, rights, end>>
  ELSE Ends("error")

DoCall ==
  /\ Running("call")
  /\ \/ /\ Step.root => rights.root
        /\ Next1 /\ SameOptions /\ SameFds /\ SameProcess
     \/ /\ Step.root /\ ~rights.root
        /\ Ends("denied")
     \/ AttemptFails(Step.fail, Step.closes)

DoMake ==
  /\ Running("make")
  /\ \/ /\ \E kind \in Step.kinds :
             fds' = [n \in Step.names |-> kind] @@ fds
        /\ lost' = lost \cup (Step.names \cap DOMAIN fds)
        /\ on' = OnWithout(Step.names)
        /\ Next1 /\ SameOptions /\ SameProcess /\ UNCHANGED fd
     \/ /\ Step.fail # "never"
        /\ AttemptFails(Step.fail, {})

\* A connection that is accepted has the socket options of the listening socket.
DoAccept ==
  /\ Running("accept")
  /\ \/ /\ fds' = Step.to :> "socket" @@ fds
        /\ lost' = lost \cup ({Step.to} \cap DOMAIN fds)
        /\ on' = OnWithout({Step.to})
                   \cup {<<p[1], Step.to>> : p \in {q \in on : q[2] = Step.from /\ HowOf(q[1]) \in {"sockopt", "generic"}}}
        /\ Next1 /\ SameOptions /\ SameProcess /\ UNCHANGED fd
     \/ AttemptFails("later", Step.closes)

DoUse ==
  /\ Running("use")
  /\ fd' = Step.name
  /\ Next1 /\ SameOptions /\ SameProcess /\ UNCHANGED <<on, fds, lost>>

DoClose ==
  /\ Running("close")
  /\ ClosesThem(Step.names)
  /\ Next1 /\ SameOptions /\ SameProcess /\ UNCHANGED <<fd, lost>>

DoKeep ==
  /\ Running("keep")
  /\ kept' = opts
  /\ Next1 /\ SameFds /\ SameProcess /\ UNCHANGED <<opts, other, done>>

DoRestore ==
  /\ Running("restore")
  /\ opts' = kept
  /\ done' = done \ kept
  /\ detached' = FALSE
  /\ Next1 /\ SameFds /\ UNCHANGED <<kept, other, setup, retries, forks, rights, end>>

\* After the attempts, the caller goes on with its own array.
DoEndLoop ==
  /\ Running("endloop")
  /\ opts' = IF detached THEN {} ELSE opts
  /\ Next1 /\ SameFds /\ SameProcess /\ UNCHANGED <<kept, other, done>>

DoMove ==
  /\ \/ Running("loop")
     \/ Running("mark")
  /\ Next1 /\ SameOptions /\ SameFds /\ SameProcess

DoGo ==
  /\ Running("go")
  /\ pc' = PlaceOf(Step.mark)
  /\ SameOptions /\ SameFds /\ SameProcess

DoMay ==
  /\ Running("may")
  /\ \/ Next1 /\ SameFds
     \/ /\ pc' = PlaceOf(Step.mark)
        /\ ClosesThem(Step.closes)
        /\ UNCHANGED <<fd, lost>>
  /\ SameOptions /\ SameProcess

\* The child goes on, the parent with the next connection.
DoFork ==
  /\ Running("fork")
  /\ \/ /\ Next1
        /\ retries' = 0
        /\ SameOptions /\ SameFds /\ UNCHANGED <<setup, detached, forks, rights, end>>
     \/ /\ forks < MaxForks
        /\ forks' = forks + 1
        /\ ClosesThem(Step.closes)
        /\ IF Step.mark = "loop"
           THEN /\ pc' = LoopPlace
                /\ opts' = kept /\ done' = done \ kept
                /\ detached' = ~Steps[LoopPlace].own
           ELSE /\ pc' = PlaceOf(Step.mark)
                /\ UNCHANGED <<opts, done, detached>>
        /\ UNCHANGED <<setup, kept, other, fd, lost, retries, rights, end>>
     \/ /\ Step.fail = "again" /\ retries > 1
        /\ retries' = retries - 1
        /\ SameOptions /\ SameFds /\ UNCHANGED <<setup, pc, detached, forks, rights, end>>
     \/ /\ Step.fail = "anew" /\ retries > 1
        /\ retries' = retries - 1
        /\ opts' = kept /\ done' = done \ kept /\ detached' = TRUE
        /\ SameFds /\ UNCHANGED <<setup, pc, kept, other, forks, rights, end>>
     \/ /\ Step.fail \in {"again", "anew"} /\ retries <= 1
        /\ Ends("error")
     \/ /\ Step.fail \notin {"again", "anew"}
        /\ AttemptFails(Step.fail, Step.failcloses)
-----------------------------------------------------------------------------
(* Options *)

OfPhase(o, phase) == phase = "ALL" \/ PhaseOf(o) = phase

\* What options of the process do to its rights.
Changed(o) ==
  CASE o \in {"su", "su-e"} -> [rights EXCEPT !.root = FALSE]
    [] o = "su-d" -> [rights EXCEPT !.delayed = TRUE]
    [] o \in {"chroot", "chroot-e"} -> [rights EXCEPT !.jailed = TRUE]
    [] OTHER -> rights

\* What they need: to be root, and a path that exists.
Permitted(o) == o \in {"chroot", "chroot-e"} => rights.root /\ ~rights.jailed

\* applyopts: one option of the phase; the step is over when there is none left.
applyopts ==
  /\ Running("apply")
  /\ LET there == {o \in opts : OfPhase(o, Step.phase) /\ HowOf(o) \notin LeftToOthers}
     IN \/ /\ there = {}
           /\ Next1 /\ SameOptions /\ SameFds /\ SameProcess
        \/ \E o \in there :
             \/ /\ HowOf(o) \in Applied
                /\ KindOf(Named(Step.name)) \in WorksOn(HowOf(o))
                /\ Permitted(o)
                /\ UsesThem({o})
                /\ on' = on \cup {<<o, Named(Step.name)>>}
                /\ rights' = Changed(o)
                /\ UNCHANGED <<setup, pc, kept, other, fd, fds, lost, retries, detached, forks, end>>
             \/ /\ HowOf(o) \in Applied
                /\ KindOf(Named(Step.name)) \notin WorksOn(HowOf(o))
                /\ Ends("error")
             \/ /\ HowOf(o) \in Applied /\ ~Permitted(o)
                /\ Ends("denied")
             \/ /\ HowOf(o) \notin Applied
                /\ Ends("unused")

\* applyopts_single, applyopts_offset, applyopts_flags, applyopts_signal, applyopts_named
\* and the functions that take options by name.
Looked ==
  CASE Step.do = "single" -> {o \in opts : OfPhase(o, Step.phase) /\ HowOf(o) \in Stored}
    [] Step.do = "offset" -> {o \in opts : HowOf(o) = "offset"}
    [] Step.do = "flags" -> {o \in opts : HowOf(o) = "flag" /\ "OPEN" \in GroupsOf(o)}
    [] Step.do = "signal" -> {o \in opts : HowOf(o) = "signal"}
    [] Step.do = "named" -> {o \in opts : OfPhase(o, Step.phase) /\ o \in OnPath}
    [] Step.do = "take" -> opts \cap Step.options
    [] Step.do = "put" -> opts \cap Step.options

TakeOptions ==
  /\ \/ Running("single") \/ Running("offset") \/ Running("flags") \/ Running("signal")
     \/ Running("named") \/ Running("take") \/ Running("put")
  /\ UsesThem(Looked)
  /\ retries' = IF Looked \cap {"retry", "forever"} # {} THEN MaxRetries ELSE retries
  /\ on' = IF Step.do = "put" THEN on \cup (Looked \X {Named(Step.name)}) ELSE on
  /\ Next1
  /\ UNCHANGED <<setup, kept, other, fd, fds, lost, detached, forks, rights, end>>

\* The options of a phase, or all of them, are ignored: none of them is used.
dropopts ==
  /\ \/ Running("drop")
     \/ Running("dropall")
  /\ opts' = IF Step.do = "drop" THEN {o \in opts : PhaseOf(o) # Step.phase} ELSE {}
  /\ Next1 /\ SameFds /\ SameProcess /\ UNCHANGED <<kept, other, done>>

\* moveopts and copyopts
Divide ==
  /\ \/ Running("move") \/ Running("copy")
  /\ LET those == {o \in opts : GroupsOf(o) \cap Step.groups # {}}
     IN /\ other' = Step.name :> those @@ other
        /\ opts' = IF Step.do = "move" THEN opts \ those ELSE opts
  /\ Next1 /\ SameFds /\ SameProcess /\ UNCHANGED <<kept, done>>

Exchange ==
  /\ Running("swap")
  /\ other' = [other EXCEPT ![Step.name] = opts]
  /\ opts' = other[Step.name]
  /\ Next1 /\ SameFds /\ SameProcess /\ UNCHANGED <<kept, done>>

\* leftopts
CheckLeft ==
  /\ Running("leftover")
  /\ \/ /\ opts # {}
        /\ Ends("unused")
     \/ /\ opts = {}
        /\ Next1 /\ SameOptions /\ SameFds /\ SameProcess

Refuses == Running("refuse") /\ Ends("error")

\* _xioopen_setdelayeduser
GiveUpRights ==
  /\ Running("delayeduser")
  /\ rights' = IF rights.delayed THEN [rights EXCEPT !.root = FALSE] ELSE rights
  /\ Next1 /\ SameOptions /\ SameFds
  /\ UNCHANGED <<setup, retries, detached, forks, end>>

Opened ==
  /\ end = "" /\ pc \notin DOMAIN Steps
  /\ Ends("open")

Next ==
  \/ DoCall \/ DoMake \/ DoAccept \/ DoUse \/ DoClose \/ DoKeep \/ DoRestore \/ DoEndLoop
  \/ DoMove \/ DoGo \/ DoMay \/ DoFork
  \/ applyopts \/ TakeOptions \/ dropopts \/ Divide \/ Exchange
  \/ CheckLeft \/ Refuses \/ GiveUpRights \/ Opened

Spec == Init /\ [][Next]_vars
-----------------------------------------------------------------------------
(* Properties *)

\* The addresses whose functions do not look at what is left of the options.
UnixSenders == {"unix-sendto", "abstract-sendto"}
UnixReceivers == {"unix-recv", "abstract-recv"}
Unchecked == UnixSenders \cup UnixReceivers \cup {"pty"}

\* The callers of xioopen_connect that go on with the array of the first attempt
\* after another one, or after a fork; the client connects early, before the rest.
Detached ==
  detached /\ setup.addr \in {"socket-connect", "unix-connect", "abstract-connect",
                            "unix-client", "abstract-client"}

\* An option that is ignored without a word, with the place that does it.
Forgotten(o) ==
  \/ /\ setup.addr \in {"create", "open", "gopen", "tun"}  \* no such file: xio-named.c:145
     /\ PhaseOf(o) = "PREOPEN"
  \/ /\ setup.addr = "pty"
     /\ PhaseOf(o) \in {"PREOPEN", "LATE2"}
  \/ /\ setup.addr \in UnixSenders
     /\ \/ PhaseOf(o) \in {"PRESOCKET", "EARLY", "PREOPEN", "PASTOPEN", "LATE2"}
        \/ o = "ignoreeof"
  \/ /\ setup.addr \in UnixReceivers
     /\ \/ PhaseOf(o) \in {"PRESOCKET", "EARLY", "PASTOPEN", "FD", "LATE", "LATE2"}
        \/ o = "su-d"
  \/ /\ Detached
     /\ \/ PhaseOf(o) \in {"PRESOCKET", "PREOPEN", "PASTOPEN", "PASTACCEPT", "LATE2"}
        \/ PhaseOf(o) = "EARLY" /\ setup.addr \in {"unix-client", "abstract-client"}
        \/ o = "ignoreeof"

(* An address that opens has used every option it was given, whichever     *)
(* attempt succeeds and in whichever process: what the user asked for is   *)
(* left out in silence in the cases of Forgotten only.  They are those of  *)
(* a file that does not exist yet, of functions that do not look at what   *)
(* is left, and of options due after xioopen_connect, when there was       *)
(* another attempt or a fork; options due before and at the socket         *)
(* have to be used in every attempt.                                       *)
AllUsed ==
  end = "open" => \A o \in setup.given : o \in done \/ Forgotten(o)

\* Names of descriptors that are used as a stream, or as half of one.
StreamFds == {fd, "stdin", "wr"}

Listeners == {"tcp-listen", "sctp-listen", "socket-listen", "unix-listen", "abstract-listen",
              "openssl-listen"}

\* After accept, options of the phases of an open descriptor are put on the listening
\* socket: they come too late for the connection.
OnListener(o) ==
  setup.addr \in Listeners /\ (PhaseOf(o) \in {"FD", "CONNECTED"} \/ o = "cloexec")

\* udp-listen makes a socket for every peer, but has options for the first one only.
OnFirstSocket ==
  setup.addr = "udp-listen" /\ (forks > 0 \/ setup.given \cap PeerOptions # {})

\* The proxy clients do not restore the options for another attempt.
OnFirstAttempt ==
  setup.addr \in {"proxy", "socks4", "socks4a"} /\ setup.given \cap {"retry", "forever"} # {}

\* Options of a socket pair go to the end of the program.
OnProgramsEnd(o) == setup.addr \in {"exec", "system"} /\ PhaseOf(o) \in {"FD", "PASTSOCKET"}

(* An option that was put on a descriptor is on the one that socat goes on *)
(* to read or write: not on that of an earlier attempt, of a rejected peer *)
(* or of a listener only.                                                  *)
OnTheStream ==
  end = "open" =>
    \A o \in {p[1] : p \in on} :
      \/ HowOf(o) = "process"
      \/ \E name \in StreamFds : <<o, name>> \in on
      \/ OnListener(o) \/ OnFirstSocket \/ OnFirstAttempt \/ OnProgramsEnd(o)

(* Attempts that fail leave no descriptor behind.  They do when the time   *)
(* to connect is over, in the proxy clients, and in listeners that go on   *)
(* after a peer was rejected, without a child, or without TLS.             *)
NothingLost ==
  lost # {} =>
    \/ "connect-timeout" \in setup.given
    \/ OnFirstAttempt
    \/ setup.addr \in Listeners /\ setup.given \cap PeerOptions # {}
    \/ setup.addr \in Listeners /\ "fork" \in setup.given
    \/ setup.addr = "openssl-listen"

(* No option needs rights that another one has taken away: chroot comes    *)
(* before the user changes.  Not so when the change is delayed; when the   *)
(* connection of an attempt has made chroot and there is another attempt   *)
(* or a child to come; in stdio and unnamed pipes, which apply the options *)
(* of all phases in the order they were given; and in stdio, which makes   *)
(* chroot-e twice.                                                         *)
RightsLast ==
  end = "denied" =>
    \/ {"su-d", "chroot"} \subseteq setup.given
    \/ "chroot" \in setup.given /\ setup.given \cap {"fork", "retry", "forever"} # {}
    \/ setup.addr \in {"stdio", "pipe"} /\ "su" \in setup.given
    \/ setup.addr = "stdio" /\ "chroot-e" \in setup.given

(* When the stream is open and the user was told to change, the rights of  *)
(* root are gone; not so when su was forgotten, and where the delayed      *)
(* change is never made: in functions that do not end in _xio_openlate.    *)
RightsGivenUp ==
  end = "open" /\ setup.given \cap {"su", "su-d", "su-e"} # {} =>
    \/ ~rights.root
    \/ \E o \in setup.given \cap {"su", "su-e"} : Forgotten(o)
    \/ setup.addr \in Unchecked \cup {"pipe"} /\ "su-d" \in setup.given
=============================================================================
