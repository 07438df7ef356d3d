---------------------------- MODULE OpenOptions -----------------------------
(***************************************************************************)
(* The options of socat's addresses.  An option belongs to groups: an      *)
(* address takes the options of its own groups.  It has a phase, the       *)
(* moment of the opening at which it is to be used, and a way in which it  *)
(* is applied:                                                             *)
(*   fcntl flock sockopt generic ioctl termios seek owner process          *)
(*           calls that applyopts makes on the descriptor or the process   *)
(*   ext offset masks                                                      *)
(*           values stored in the state of the stream                      *)
(*   flag    a flag of open()                                              *)
(*   signal  a signal passed on to the program that was started            *)
(*   spec    none of these: taken out of the options by name               *)
(* Of options that differ in nothing but the value they set, one stands    *)
(* for all.                                                                *)
(***************************************************************************)
EXTENDS Naturals, Sequences, FiniteSets, SequencesExt, TLC

Opt(groups, phase, how) == [groups |-> groups, phase |-> phase, how |-> how]

Phases ==
  <<"INIT", "EARLY", "PREOPEN", "OPEN", "PASTOPEN", "PRESOCKET", "SOCKET", "PASTSOCKET",
    "PREBIGEN", "BIGEN", "PASTBIGEN", "FD", "PREBIND", "BIND", "PASTBIND", "LISTEN",
    "CONNECT", "ACCEPT", "PASTACCEPT", "CONNECTED", "PREFORK", "FORK", "PASTFORK",
    "LATE", "LATE2", "PREEXEC", "EXEC", "SPEC">>

PhasesFrom(first, last) ==
  SubSeq(Phases, CHOOSE i \in DOMAIN Phases : Phases[i] = first,
                 CHOOSE i \in DOMAIN Phases : Phases[i] = last)

LayerOptions ==
  "lockfile"  :> Opt({"APPL"}, "INIT", "ext") @@
  "escape"    :> Opt({"APPL"}, "INIT", "offset") @@
  "ignoreeof" :> Opt({"APPL"}, "LATE", "ext") @@
  "retry"     :> Opt({"RETRY"}, "INIT", "ext") @@
  "forever"   :> Opt({"RETRY"}, "INIT", "ext")

FdOptions ==
  "append"     :> Opt({"OPEN", "FD"}, "LATE", "fcntl") @@
  "nonblock"   :> Opt({"OPEN", "FD"}, "FD", "fcntl") @@
  "cloexec"    :> Opt({"FD"}, "LATE", "fcntl") @@
  "ftruncate"  :> Opt({"REG"}, "LATE", "seek") @@
  "seek"       :> Opt({"REG", "BLK"}, "LATE", "seek") @@
  "user"       :> Opt({"FD", "NAMED"}, "FD", "owner") @@
  "perm"       :> Opt({"FD", "NAMED"}, "FD", "owner") @@
  "user-late"  :> Opt({"FD"}, "LATE", "owner") @@
  "flock"      :> Opt({"FD"}, "FD", "flock") @@
  "cool-write" :> Opt({"FD"}, "INIT", "offset")

NamedOptions ==
  "perm-early"   :> Opt({"NAMED"}, "PREOPEN", "spec") @@
  "unlink"       :> Opt({"NAMED"}, "PREOPEN", "spec") @@
  "unlink-early" :> Opt({"NAMED"}, "EARLY", "spec") @@
  "unlink-late"  :> Opt({"NAMED"}, "PASTOPEN", "spec") @@
  "unlink-close" :> Opt({"NAMED"}, "LATE", "spec") @@
  "umask"        :> Opt({"NAMED"}, "EARLY", "spec")

FileOptions ==
  "wronly" :> Opt({"OPEN"}, "OPEN", "flag") @@
  "creat"  :> Opt({"OPEN"}, "OPEN", "flag") @@
  "trunc"  :> Opt({"OPEN"}, "LATE", "flag")

Ext2Options == "ext2-sync" :> Opt({"REG"}, "FD", "ioctl")

ProcessOptions ==
  "su-e"     :> Opt({"PROCESS"}, "EARLY", "process") @@
  "su-d"     :> Opt({"PROCESS"}, "INIT", "process") @@
  "chroot-e" :> Opt({"PROCESS"}, "EARLY", "process") @@
  "chroot"   :> Opt({"PROCESS"}, "LATE", "process") @@
  "su"       :> Opt({"PROCESS"}, "LATE2", "process") @@
  "setpgid"  :> Opt({"FORK"}, "LATE", "process")

SocketOptions ==
  "debug"           :> Opt({"SOCKET"}, "PASTSOCKET", "sockopt") @@
  "keepalive"       :> Opt({"SOCKET"}, "FD", "sockopt") @@
  "sndbuf-late"     :> Opt({"SOCKET"}, "LATE", "sockopt") @@
  "type"            :> Opt({"SOCKET"}, "SOCKET", "spec") @@
  "prototype"       :> Opt({"SOCKET"}, "SOCKET", "spec") @@
  "bind"            :> Opt({"SOCKET"}, "BIND", "spec") @@
  "pf"              :> Opt({"SOCKET"}, "PRESOCKET", "spec") @@
  "protocol"        :> Opt({"SOCKET"}, "PRESOCKET", "spec") @@
  "setsockopt"      :> Opt({"SOCKET"}, "PASTSOCKET", "generic") @@
  "connect-timeout" :> Opt({"SOCKET"}, "PASTSOCKET", "offset") @@
  "null-eof"        :> Opt({"SOCKET"}, "INIT", "offset")

ListenOptions ==
  "backlog"      :> Opt({"LISTEN"}, "LISTEN", "spec") @@
  "fork"         :> Opt({"CHILD"}, "PASTACCEPT", "spec") @@
  "max-children" :> Opt({"CHILD"}, "PASTACCEPT", "spec") @@
  "range"        :> Opt({"RANGE"}, "ACCEPT", "spec")

TcpwrapOptions == "tcpwrap" :> Opt({"RANGE"}, "ACCEPT", "spec")
UnixOptions == "tightsocklen" :> Opt({"SOCK_UNIX"}, "INIT", "spec")

IpOptions ==
  "tos"            :> Opt({"SOCK_IP4", "SOCK_IP6"}, "PASTSOCKET", "sockopt") @@
  "add-membership" :> Opt({"SOCK_IP4", "SOCK_IP6"}, "PASTSOCKET", "member") @@
  "res-debug"      :> Opt({"SOCK_IP4", "SOCK_IP6"}, "INIT", "masks")

Ip6Options ==
  "v6only"     :> Opt({"SOCK_IP6"}, "PASTSOCKET", "sockopt") @@
  "join-group" :> Opt({"SOCK_IP6"}, "PASTBIND", "member")

IpAppOptions ==
  "sourceport" :> Opt({"IP_UDP", "IP_TCP", "IP_SCTP"}, "LATE", "spec") @@
  "lowport"    :> Opt({"IP_UDP", "IP_TCP", "IP_SCTP"}, "LATE", "spec")

TcpOptions ==
  "nodelay"     :> Opt({"IP_TCP"}, "PASTSOCKET", "sockopt") @@
  "maxseg-late" :> Opt({"IP_TCP"}, "CONNECTED", "sockopt")

SctpOptions == "sctp-maxseg-late" :> Opt({"IP_SCTP"}, "CONNECTED", "sockopt")
SocksOptions == "socksport" :> Opt({"SOCKS4"}, "LATE", "spec")
ProxyOptions == "proxyport" :> Opt({"HTTP"}, "LATE", "spec")

OpensslOptions ==
  "method" :> Opt({"OPENSSL"}, "SPEC", "spec") @@
  "key"    :> Opt({"OPENSSL"}, "SPEC", "spec") @@
  "egd"    :> Opt({"OPENSSL"}, "SPEC", "spec")

ProgramOptions ==
  "openpty" :> Opt({"PTY"}, "BIGEN", "spec") @@
  "fdin"    :> Opt({"FORK"}, "PASTBIGEN", "spec") @@
  "path"    :> Opt({"EXEC"}, "PREEXEC", "spec") @@
  "pipes"   :> Opt({"FORK"}, "BIGEN", "spec") @@
  "pty"     :> Opt({"FORK"}, "BIGEN", "spec") @@
  "stderr"  :> Opt({"FORK"}, "PASTFORK", "spec") @@
  "nofork"  :> Opt({"FORK"}, "BIGEN", "spec") @@
  "sighup"  :> Opt({"PARENT"}, "LATE", "signal")

ExecOptions == "login" :> Opt({"EXEC"}, "PREEXEC", "spec")

PtyOptions ==
  "link"       :> Opt({"PTY"}, "LATE", "spec") @@
  "wait-slave" :> Opt({"PTY"}, "EARLY", "spec")

TermiosOptions ==
  "ctty"   :> Opt({"TERMIOS"}, "LATE2", "process") @@
  "ocrnl"  :> Opt({"TERMIOS"}, "FD", "termios") @@
  "b9600"  :> Opt({"TERMIOS"}, "FD", "termios")

TerminalOptions ==
  "echo"   :> Opt({"TERMIOS"}, "FD", "termios") @@
  "intr"   :> Opt({"TERMIOS"}, "FD", "termios") @@
  "raw"    :> Opt({"TERMIOS"}, "FD", "termios")

ReadlineOptions ==
  "history"  :> Opt({"READLINE"}, "LATE", "offset") @@
  "noprompt" :> Opt({"READLINE"}, "LATE", "spec")

InterfaceOptions ==
  "tun-device" :> Opt({"INTERFACE"}, "OPEN", "spec") @@
  "tun-name"   :> Opt({"INTERFACE"}, "FD", "spec") @@
  "iff-no-pi"  :> Opt({"INTERFACE"}, "FD", "spec") @@
  "iff-up"     :> Opt({"INTERFACE"}, "FD", "masks")

Options ==
  LayerOptions @@ FdOptions @@ NamedOptions @@ FileOptions @@ Ext2Options @@ ProcessOptions @@
  SocketOptions @@ ListenOptions @@ TcpwrapOptions @@ UnixOptions @@ IpOptions @@ Ip6Options @@
  IpAppOptions @@ TcpOptions @@ SctpOptions @@ SocksOptions @@ ProxyOptions @@ OpensslOptions @@
  ProgramOptions @@ ExecOptions @@ PtyOptions @@ TermiosOptions @@ TerminalOptions @@
  ReadlineOptions @@ InterfaceOptions

Option == DOMAIN Options
GroupsOf(o) == Options[o].groups
PhaseOf(o) == Options[o].phase
HowOf(o) == Options[o].how
AllGroups == UNION {GroupsOf(o) : o \in Option}
-----------------------------------------------------------------------------
(* The kinds of descriptor on which the calls of applyopts succeed.        *)

Kinds == {"none", "socket", "file", "pipe", "tty"}

SeekWorksOn == {"file"}
FcntlWorksOn == Kinds \ {"none"}
IoctlWorksOn == {"file"}
FlockWorksOn == Kinds \ {"none"}
SockoptWorksOn == {"socket"}
GenericWorksOn == {"socket"}
OwnerWorksOn == Kinds \ {"none"}
ProcessWorksOn == Kinds
TermiosWorksOn == {"tty"}

WorksOn(how) ==
  CASE how = "seek" -> SeekWorksOn
    [] how = "fcntl" -> FcntlWorksOn
    [] how = "ioctl" -> IoctlWorksOn
    [] how = "flock" -> FlockWorksOn
    [] how = "sockopt" -> SockoptWorksOn
    [] how = "generic" -> GenericWorksOn
    [] how = "owner" -> OwnerWorksOn
    [] how = "process" -> ProcessWorksOn
    [] how = "termios" -> TermiosWorksOn

\* What applyopts applies, and what it leaves to others.  Every other option of
\* the phase it is called for is an error.
Applied == {"seek", "fcntl", "flock", "ioctl", "sockopt", "generic", "owner", "process", "termios"}
LeftToOthers == {"ext", "signal", "member"}

\* What applyopts_single applies: values and bits in the state of the stream, and
\* groups of receivers that are joined.
StoredValues == {"ext", "offset"}
StoredBits == {"masks"}
JoinedGroups == {"member"}
Stored == StoredValues \cup StoredBits \cup JoinedGroups

\* What applyopts_named applies: every option of a path in the phases it is called for.
OnPath == {"user", "perm", "perm-early", "unlink", "unlink-early", "unlink-late", "umask"}
=============================================================================
