----------------------------- MODULE OpenFiles ------------------------------
(***************************************************************************)
(* How addresses with files, pipes and terminals are opened: xio-named.c,  *)
(* xio-creat.c, xio-gopen.c, xio-file.c, xio-pipe.c, xio-stdio.c,          *)
(* xio-fdnum.c, xio-tun.c, xio-interface.c, xio-pty.c, xio-readline.c.     *)
(***************************************************************************)
EXTENDS OpenSockets

\* A descriptor the process has been given.
Given(name) == MakeAny({name}, Kinds \ {"none"}, "never")

\* What is done when the file exists, and when not.
IfExists(mark, there, absent) ==
  May(mark \o " is absent", {}) \o there \o Go(mark \o " is known")
    \o Mark(mark \o " is absent") \o absent \o Mark(mark \o " is known")
-----------------------------------------------------------------------------
(* xio-named.c *)

_xioopen_named_early ==
  Call("error", {}) \o ApplySingle("INIT") \o Apply("INIT")
    \o Take({"unlink-early"}) \o Apply("EARLY") \o ApplyNamed("EARLY")
    \o IfExists("file", ApplyNamed("PREOPEN"), Drop("PREOPEN"))

_xioopen_open(kinds) ==
  ApplyNamed("PREOPEN") \o ApplyFlags \o Take({"append", "nonblock", "trunc"}) \o Take({"perm"})
    \o MakeAny({"file"}, kinds, "later") \o ApplyNamed("PASTOPEN")
-----------------------------------------------------------------------------

_xioopen_creat == Take({"perm"}) \o Make({"file"}, "file", "later")

xioopen_creat(x) ==
  _xioopen_named_early \o Take({"unlink-close"}) \o _xioopen_creat \o Use("file")
    \o ApplyNamed("PASTOPEN") \o ApplyRange("PASTOPEN", "LATE2")
    \o applyopts_cloexec("fd") \o applyopts_fchown("fd") \o _xio_openlate

\* Something in the file system: a socket is connected to, anything else opened.
xioopen_gopen(x) ==
  _xioopen_named_early
    \o May("no socket", {}) \o _xioopen_unix_client(x) \o ApplyNamed("PASTOPEN") \o Go("opened")
    \o Mark("no socket") \o Take({"unlink-close"})
    \o _xioopen_open({"file", "pipe", "tty"}) \o Use("file")
    \o ApplyNamed("FD") \o Apply("FD") \o applyopts_cloexec("fd")
    \o Mark("opened") \o ApplyRange("PASTSOCKET", "CONNECTED") \o _xio_openlate

xioopen_open(x) ==
  _xioopen_named_early \o Take({"unlink-close"})
    \o _xioopen_open({"file", "pipe", "tty"}) \o Use("file")
    \o ApplyNamed("FD") \o Apply("FD") \o applyopts_cloexec("fd") \o applyopts_fchown("fd")
    \o _xio_openlate

\* Options of pipes go to both ends, the others to the end that is read.
xioopen_fifo_unnamed ==
  ApplySingle("INIT") \o Apply("INIT")
    \o Make({"rd", "wr"}, "pipe", "error") \o Use("rd")
    \o applyopts_cloexec("rd") \o applyopts_cloexec("wr") \o Take({"ignoreeof"})
    \o Copy("writer", {"FIFO"}) \o Apply("ALL") \o ApplySingle("ALL")
    \o With("writer", ApplyTo("wr", "ALL")) \o Leftover

xioopen_fifo_named ==
  ApplySingle("INIT") \o Apply("INIT") \o Take({"unlink-early"}) \o Apply("EARLY")
    \o Call("error", {}) \o Take({"unlink-close", "perm"})
    \o ApplyNamed("EARLY") \o ApplyNamed("PREOPEN") \o Call("error", {})
    \o _xioopen_open({"pipe"}) \o Use("file")
    \o ApplyNamed("FD") \o Apply("FD") \o applyopts_cloexec("fd") \o _xio_openlate

xioopen_fifo(x) ==
  May("named", {}) \o xioopen_fifo_unnamed \o Go("opened")
    \o Mark("named") \o xioopen_fifo_named \o Mark("opened")
-----------------------------------------------------------------------------

xioopen_fd(name) ==
  Given(name) \o Use(name) \o ApplySingle("INIT") \o Apply("INIT")
    \o ApplyRange("INIT", "FD") \o _xio_openlate

xioopen_fdnum(x) == Check \o xioopen_fd("numfd")
xioopen_stdfd(x) == Check \o xioopen_fd("stdin")

\* Two streams: options of the process are applied from a copy, and once more with
\* all those of the reading stream.
xioopen_stdio_bi ==
  Given("stdin") \o Given("stdout") \o Take({"ignoreeof"})
    \o Copy("process", {"PROCESS"})
    \o Copy("second", {"FD", "FIFO", "CHR", "BLK", "FILE", "SOCKET", "TERMIOS", "SOCK_UNIX",
                       "SOCK_IP4", "SOCK_IP6", "IP_UDP", "IP_TCP", "IP_SCTP"})
    \o ApplySingle("INIT") \o With("second", ApplySingle("INIT"))
    \o Apply("INIT") \o With("second", Apply("INIT"))
    \o With("process", Apply("EARLY") \o Apply("PREOPEN"))
    \o Use("stdin") \o Apply("ALL") \o _xio_openlate
    \o Swap("second") \o Use("stdout") \o Apply("ALL") \o _xio_openlate

xioopen_stdio(x) == Check \o xioopen_stdio_bi
-----------------------------------------------------------------------------

xioopen_tun(x) ==
  Check \o Take({"tun-device"}) \o retropt_socket_pf \o _xioopen_named_early
    \o _xioopen_open({"file"}) \o Use("file")
    \o Take({"tun-name", "iff-no-pi"}) \o Call("error", {"file"})
    \o ApplySingle("FD") \o Call("error", {})
    \o Apply("FD") \o applyopts_cloexec("fd") \o applyopts_fchown("fd") \o _xio_openlate

_xioopen_interface ==
  Call("error", {}) \o Take({"type"}) \o retropt_socket_pf
    \o ApplySingle("INIT") \o Apply("INIT") \o Take({"bind"}) \o _xioopen_dgram_sendto(TRUE)

xioopen_interface(x) == Check \o _xioopen_interface \o _xio_openlate

\* The two ends of a pseudo terminal.
PtyPair == Make({"ptyfd", "ttyfd"}, "tty", "error")

\* Nobody has the terminal open: wait until somebody has.
PtyWait(x) == If(Has(x, "wait-slave"), Close({"ttyfd"}) \o Call("error", {}))

\* What is left of the options is not looked at.
xioopen_pty(x) ==
  Check \o ApplySingle("INIT") \o Apply("INIT") \o Take({"unlink-close"})
    \o ApplyNamed("EARLY") \o Take({"openpty"}) \o Take({"wait-slave"})
    \o ApplySingle("INIT") \o ApplyRange("INIT", "EARLY") \o Apply("PREBIGEN")
    \o PtyPair \o Take({"link"}) \o Call("error", {})
    \o ApplyNamed("PASTOPEN") \o ApplyNamed("FD")
    \o applyopts_cloexec("ptyfd") \o ApplyTo("ptyfd", "FD") \o Take({"user-late"})
    \o Use("ptyfd") \o Apply("LATE") \o ApplySingle("LATE")
    \o PtyWait(x)

\* Readline reads from and writes to standard input and output.
xioopen_readline(x) ==
  Check \o Given("stdin") \o Use("stdin") \o ApplySingle("INIT") \o Apply("INIT")
    \o ApplyRange("INIT", "FD") \o ApplyOffset \o Take({"noprompt"}) \o Check \o _xio_openlate
=============================================================================
