---------------------------- MODULE OpenPrograms ----------------------------
(***************************************************************************)
(* Programs that socat starts: xio-progcall.c, xio-exec.c, xio-system.c.   *)
(* The options are divided between socat and the program.  The steps of    *)
(* the program stand before those of socat, which do not depend on them.   *)
(***************************************************************************)
EXTENDS OpenFiles

\* How socat and the program are connected.
UsesPty(x) == HasOneOf(x, {"pty", "openpty"})
UsesPipes(x) == Has(x, "pipes") /\ ~UsesPty(x)
WithFork(x) == ~Has(x, "nofork")

ProgramGroups == {"FORK", "EXEC", "PROCESS"}
Child(steps) == With("child", steps)

setopt_path == Take({"path"})

\* The end of the program's steps.
ProgramStarts == _xioopen_setdelayeduser \o setopt_path \o Leftover

\* Without a fork, the process becomes the program.
NoFork ==
  Move("child", AllGroups) \o Call("error", {})
    \o Child(Take({"stderr"}) \o Apply("LATE") \o Apply("LATE2") \o ProgramStarts)

PtyEnds ==
  Make({"ptyfd", "ttyfd"}, "tty", "error")
    \o Move("child", ProgramGroups \cup {"TERMIOS"})
    \o applyopts_cloexec("ptyfd") \o ApplyTo("ptyfd", "FD") \o ApplyTo("ptyfd", "LATE")
    \o ApplySingle("LATE") \o Use("ptyfd") \o Child(ApplyTo("ttyfd", "FD"))

PtyProgram ==
  Child(Take({"stderr"}) \o ApplyTo("ttyfd", "LATE") \o ApplyTo("ttyfd", "LATE2") \o ProgramStarts)
    \o Close({"ttyfd"})

\* A pipe in each direction, the second with a copy of the options.
PipeEnds ==
  Make({"rd", "rdchild"}, "pipe", "error")
    \o Move("child", ProgramGroups) \o Copy("parent2", AllGroups)
    \o applyopts_cloexec("rd") \o ApplyTo("rd", "FD") \o Child(ApplyTo("rdchild", "FD"))
    \o Make({"wr", "wrchild"}, "pipe", "error")
    \o With("parent2", applyopts_cloexec("wr") \o ApplyTo("wr", "FD"))
    \o Use("rd") \o Apply("FD") \o Apply("LATE") \o ApplySingle("LATE")

PipeProgram ==
  Child(Take({"stderr"}) \o ApplyTo("wrchild", "LATE") \o ApplyTo("rdchild", "LATE")
          \o ApplyTo("wrchild", "LATE2") \o ApplyTo("rdchild", "LATE2") \o ProgramStarts)

\* A pair of sockets: socat's options are put on the program's end.
SocketEnds ==
  retropt_socket_pf \o xiosocketpair({"own", "theirs"}) \o Move("child", ProgramGroups)
    \o Child(ApplyTo("own", "PASTSOCKET")) \o ApplyTo("theirs", "PASTSOCKET")
    \o Child(applyopts_cloexec("own") \o ApplyTo("own", "FD")) \o ApplyTo("theirs", "FD")
    \o Child(ApplyTo("own", "PREBIND") \o ApplyTo("own", "BIND") \o ApplyTo("own", "PASTBIND"))
    \o ApplyTo("theirs", "PREBIND") \o ApplyTo("theirs", "BIND") \o ApplyTo("theirs", "PASTBIND")
    \o Use("own") \o Apply("FD") \o Apply("LATE") \o ApplySingle("LATE")

SocketProgram ==
  Child(Take({"stderr"}) \o ApplyTo("theirs", "LATE") \o ApplyTo("theirs", "LATE2") \o ProgramStarts)
    \o Close({"theirs"})

_xioopen_foxec(x) ==
  ApplySingle("INIT") \o ApplyRange("INIT", "EARLY")
    \o Take({"nofork", "pipes", "pty", "openpty", "fdin"}) \o Apply("PREBIGEN")
    \o (IF ~WithFork(x) THEN NoFork
        ELSE IF UsesPty(x) THEN PtyEnds \o Check \o PtyProgram
        ELSE IF UsesPipes(x) THEN PipeEnds \o Check \o PipeProgram
        ELSE SocketEnds \o Check \o SocketProgram)
    \o If(WithFork(x), ApplySingle("LATE") \o ApplySignal \o Leftover)

xioopen_exec(x) == Check \o Take({"login"}) \o _xioopen_foxec(x)
xioopen_system(x) == _xioopen_foxec(x)
=============================================================================
