--------------------------- MODULE OpenAddresses ----------------------------
(***************************************************************************)
(* The addresses of socat and the groups of options they take, file by     *)
(* file.  Of the addresses for both versions of IP and for one of them,    *)
(* those for both are in the model.                                        *)
(***************************************************************************)
EXTENDS OpenOptions

Ip == {"FD", "SOCKET", "SOCK_IP4", "SOCK_IP6"}
Server == {"LISTEN", "CHILD", "RANGE"}
AnyFile == {"FD", "FIFO", "CHR", "BLK", "REG"}
Unix == {"FD", "SOCKET", "SOCK_UNIX", "RETRY"}
Program == {"FD", "FORK", "EXEC", "SOCKET", "SOCK_UNIX", "TERMIOS", "FIFO", "PTY", "PARENT"}
Inherited ==
  AnyFile \cup Ip \cup {"TERMIOS", "SOCK_UNIX", "IP_UDP", "IP_TCP", "IP_SCTP"}

TcpAddresses ==
  "tcp-connect" :> Ip \cup {"IP_TCP", "CHILD", "RETRY"} @@
  "tcp-listen"  :> Ip \cup {"IP_TCP", "RETRY"} \cup Server

SctpAddresses ==
  "sctp-connect" :> Ip \cup {"IP_SCTP", "CHILD", "RETRY"} @@
  "sctp-listen"  :> Ip \cup {"IP_SCTP", "RETRY"} \cup Server

UdpAddresses ==
  "udp-connect"  :> Ip \cup {"IP_UDP"} @@
  "udp-listen"   :> Ip \cup {"IP_UDP"} \cup Server @@
  "udp-sendto"   :> Ip \cup {"IP_UDP"} @@
  "udp-recvfrom" :> Ip \cup {"IP_UDP", "CHILD", "RANGE"} @@
  "udp-recv"     :> Ip \cup {"IP_UDP", "RANGE"} @@
  "udp-datagram" :> Ip \cup {"IP_UDP", "RANGE"}

RawAddresses ==
  "ip-sendto"   :> Ip @@
  "ip-datagram" :> Ip \cup {"RANGE"} @@
  "ip-recvfrom" :> Ip \cup {"CHILD", "RANGE"} @@
  "ip-recv"     :> Ip \cup {"RANGE"}

SocketAddresses ==
  "socket-connect"  :> {"FD", "SOCKET", "CHILD", "RETRY"} @@
  "socket-listen"   :> {"FD", "SOCKET", "RETRY"} \cup Server @@
  "socket-sendto"   :> {"FD", "SOCKET"} @@
  "socket-datagram" :> {"FD", "SOCKET", "RANGE"} @@
  "socket-recvfrom" :> {"FD", "SOCKET", "RANGE", "CHILD"} @@
  "socket-recv"     :> {"FD", "SOCKET", "RANGE"}

UnixAddresses ==
  "unix-connect"      :> Unix \cup {"NAMED"} @@
  "unix-listen"       :> Unix \cup {"NAMED", "LISTEN", "CHILD"} @@
  "unix-sendto"       :> Unix \cup {"NAMED"} @@
  "unix-recvfrom"     :> Unix \cup {"NAMED", "CHILD"} @@
  "unix-recv"         :> Unix \cup {"NAMED"} @@
  "unix-client"       :> Unix \cup {"NAMED"} @@
  "abstract-connect"  :> Unix @@
  "abstract-listen"   :> Unix \cup {"LISTEN", "CHILD"} @@
  "abstract-sendto"   :> Unix @@
  "abstract-recvfrom" :> Unix \cup {"CHILD"} @@
  "abstract-recv"     :> Unix @@
  "abstract-client"   :> Unix

ProxyAddresses == "proxy" :> Ip \cup {"IP_TCP", "HTTP", "CHILD", "RETRY"}
SocksAddresses ==
  "socks4"  :> Ip \cup {"IP_TCP", "SOCKS4", "CHILD", "RETRY"} @@
  "socks4a" :> Ip \cup {"IP_TCP", "SOCKS4", "CHILD", "RETRY"}
OpensslAddresses ==
  "openssl"        :> Ip \cup {"IP_TCP", "CHILD", "OPENSSL", "RETRY"} @@
  "openssl-listen" :> Ip \cup {"IP_TCP", "OPENSSL", "RETRY"} \cup Server
ExecAddresses == "exec" :> Program
SystemAddresses == "system" :> Program
CreatAddresses == "create" :> {"FD", "NAMED", "REG"}
OpenFileAddresses == "open" :> AnyFile \cup {"NAMED", "OPEN", "TERMIOS"}
GopenAddresses == "gopen" :> AnyFile \cup {"NAMED", "OPEN", "TERMIOS", "SOCKET", "SOCK_UNIX"}
PipeAddresses == "pipe" :> {"FD", "NAMED", "OPEN", "FIFO"}
PtyAddresses == "pty" :> {"NAMED", "FD", "TERMIOS", "PTY"}
FdAddresses == "fd" :> Inherited
StdioAddresses == "stdio" :> Inherited @@ "stdin" :> Inherited
TunAddresses == "tun" :> {"FD", "CHR", "NAMED", "OPEN", "INTERFACE"}
InterfaceAddresses == "interface" :> {"FD", "SOCKET"}
ReadlineAddresses == "readline" :> {"FD", "TERMIOS", "READLINE"}

addressnames ==
  TcpAddresses @@ SctpAddresses @@ UdpAddresses @@ RawAddresses @@ SocketAddresses @@
  UnixAddresses @@ ProxyAddresses @@ SocksAddresses @@ OpensslAddresses @@ ExecAddresses @@
  SystemAddresses @@ CreatAddresses @@ OpenFileAddresses @@ GopenAddresses @@ PipeAddresses @@
  PtyAddresses @@ FdAddresses @@ StdioAddresses @@ TunAddresses @@ InterfaceAddresses @@
  ReadlineAddresses

Address == DOMAIN addressnames

\* What parseopts lets pass: options of the address, of the process, of the application.
Allowed(addr) ==
  {o \in Option : GroupsOf(o) \cap (addressnames[addr] \cup {"PROCESS", "APPL"}) # {}}
=============================================================================
