---------------------------- MODULE OpenSockets -----------------------------
(***************************************************************************)
(* How addresses with sockets are opened: xio-socket.c, xio-listen.c,      *)
(* xio-ipapp.c, xio-udp.c, xio-rawip.c, xio-unix.c.  One operator stands   *)
(* for one function.                                                       *)
(***************************************************************************)
EXTENDS OpenSteps

Abstract(x) == x.addr \in {"abstract-connect", "abstract-listen", "abstract-sendto",
                           "abstract-recvfrom", "abstract-recv", "abstract-client"}
IsUnix(x) == Abstract(x) \/ x.addr \in {"unix-connect", "unix-listen", "unix-sendto",
                                        "unix-recvfrom", "unix-recv", "unix-client"}

IsClient(x) == x.addr \in {"unix-client", "abstract-client", "gopen"}

\* Whether a socket is to be bound before it connects or sends.
Binds(x) == HasOneOf(x, {"bind", "sourceport"})

retropt_socket_pf == Take({"pf"})
retropt_bind == Take({"bind"})
xio_retropt_tcpwrap == Take({"tcpwrap"})
xiogetaddrinfo == Call("error", {})

\* A range is an address and a mask; names in it are resolved.
xioparserange(x) == Take({"range"}) \o If(Has(x, "range"), Call("error", {}))

\* The options that let a server reject a peer, and what makes use of them.
xiocheckrange == {"range"}
xio_tcpwrap_check == {"tcpwrap"}
PeerOptions == xiocheckrange \cup {"sourceport", "lowport"} \cup xio_tcpwrap_check
xiocheckpeer(x, steps) == If(HasOneOf(x, PeerOptions), steps)

xiosocket(fail) == Take({"type", "prototype"}) \o Get("sock", "socket", fail)
xiosocketpair(names) == Take({"type", "prototype"}) \o Make(names, "socket", "error")
-----------------------------------------------------------------------------
(* xio-socket.c *)

\* bind: to a low port with option lowport, one after the other.
ConnectBind(x, low) ==
  IF low THEN CallAsRoot("later", {"sock"}) ELSE If(Binds(x), Call("later", {"sock"}))

\* A connect-timeout that expires leaves the socket open.  A peer in the file system
\* may have a socket for datagrams: only a client goes on with that.
ConnectPeer(x) ==
  If(Has(x, "connect-timeout"), Call("later", {})) \o Call("later", {"sock"})
    \o If(IsClient(x), May("datagram", {"sock"}))
    \o If(IsUnix(x) /\ ~IsClient(x), Call("error", {"sock"}))

_xioopen_connect(x, low) ==
  xiosocket("later") \o ApplyOffset
    \o Apply("PASTSOCKET") \o Apply("FD") \o applyopts_cloexec("fd")
    \o Apply("PREBIND") \o Apply("BIND") \o ConnectBind(x, low) \o Apply("PASTBIND")
    \o Apply("CONNECT") \o ConnectPeer(x)
    \o applyopts_fchown("fd") \o Apply("CONNECTED") \o Apply("LATE")

xioopen_connect(x) ==
  Take({"fork"}) \o Keep \o Loop(FALSE)
    \o _xioopen_connect(x, FALSE)
    \o If(Has(x, "fork"), Fork("loop", {"sock"}, "anew", {}))
    \o EndLoop

_xioopen_dgram_sendto(binds) ==
  xiosocket("error") \o ApplyOffset \o ApplySingle("PASTSOCKET")
    \o Apply("PASTSOCKET") \o Apply("FD") \o applyopts_cloexec("fd")
    \o Apply("PREBIND") \o Apply("BIND") \o If(binds, Call("error", {"sock"}))
    \o Apply("PASTBIND")
    \o applyopts_fchown("fd") \o Apply("CONNECTED") \o Apply("LATE")

\* The socket of a receiver, bound and with what restricts its peers.
DgramReceiver(x, binds) ==
  ApplySingle("INIT") \o xiosocket("error") \o ApplySingle("PASTSOCKET")
    \o Apply("PASTSOCKET") \o applyopts_cloexec("fd")
    \o Apply("PREBIND") \o Apply("BIND") \o If(binds, Call("error", {"sock"}))
    \o If(IsUnix(x) /\ binds, ApplyNamed("FD")) \o Apply("PASTBIND")
    \o If(IsUnix(x) /\ binds, ApplyNamed("EARLY") \o ApplyNamed("PREOPEN"))
    \o xioparserange(x) \o xio_retropt_tcpwrap

\* Who has sent the packet that waits.
xiogetpacketsrc == Call("error", {})

\* A packet: what is wrong with a poll ends it, a rejected packet is read away.
DgramPacket(x) ==
  Call("error", {"sock"}) \o xiogetpacketsrc \o xiocheckpeer(x, May("packet", {}))

\* The parent waits until the child has taken the packet.
_xioopen_dgram_recvfrom(x, binds) ==
  Take({"fork"}) \o DgramReceiver(x, binds)
    \o Mark("packet") \o DgramPacket(x) \o Apply("FD") \o Apply("CONNECTED")
    \o If(Has(x, "fork"), Fork("packet", {}, "error", {"sock"}))
    \o _xio_openlate

_xioopen_dgram_recv(x, binds) == DgramReceiver(x, binds)

xioopen_socket_connect(x) ==
  Check \o retropt_socket_pf \o Take({"type"})
    \o ApplySingle("INIT") \o Apply("INIT") \o Apply("EARLY")
    \o retropt_bind \o xioopen_connect(x) \o _xio_openlate

_xioopen_socket_sendto(x) ==
  retropt_socket_pf \o Take({"type"}) \o Check \o ApplySingle("INIT") \o Apply("INIT")
    \o retropt_bind \o _xioopen_dgram_sendto(Binds(x))

xioopen_socket_sendto(x) == Check \o _xioopen_socket_sendto(x) \o _xio_openlate

xioopen_socket_recvfrom(x) ==
  Check \o retropt_socket_pf \o Take({"type"}) \o xioparserange(x)
    \o _xioopen_dgram_recvfrom(x, TRUE) \o _xio_openlate

xioopen_socket_recv(x) ==
  Check \o retropt_socket_pf \o Take({"type"}) \o xioparserange(x)
    \o _xioopen_dgram_recv(x, TRUE) \o _xio_openlate

xioopen_socket_datagram(x) ==
  Check \o retropt_socket_pf \o _xioopen_socket_sendto(x) \o xioparserange(x) \o _xio_openlate
-----------------------------------------------------------------------------
(* xio-listen.c *)

\* The listening socket.
ListenSocket(x) ==
  ApplySingle("INIT") \o xiosocket("later")
    \o Apply("PASTSOCKET") \o applyopts_cloexec("fd")
    \o Apply("PREBIND") \o Apply("BIND") \o Call("later", {"sock"})
    \o If(IsUnix(x), ApplyNamed("FD")) \o Apply("PASTBIND")
    \o If(IsUnix(x), ApplyNamed("EARLY") \o ApplyNamed("PREOPEN"))
    \o xioparserange(x) \o xio_retropt_tcpwrap \o Take({"sourceport", "lowport", "backlog"})
    \o Call("error", {})

\* A connection: a rejected peer's is shut down, but not closed; the options of
\* connections go to the listening socket.
ListenAccept(x) ==
  Mark("accept") \o Accept("sock", "ps") \o applyopts_cloexec("ps")
    \o xiocheckpeer(x, May("accept", {}))
    \o Apply("FD") \o Apply("CONNECTED")
    \o If(Has(x, "fork"), Fork("accept", {"ps"}, "later", {"sock"}))
    \o Close({"sock"}) \o Use("ps")

_xioopen_listen(x) ==
  Take({"fork", "max-children"})
    \o If(Has(x, "max-children") /\ ~Has(x, "fork"), <<[do |-> "refuse"]>>)
    \o ListenSocket(x) \o ListenAccept(x) \o _xio_openlate

xioopen_listen(x) == Loop(TRUE) \o _xioopen_listen(x) \o EndLoop

xioopen_socket_listen(x) ==
  Check \o retropt_socket_pf \o Take({"type"})
    \o ApplySingle("INIT") \o Apply("INIT") \o Apply("EARLY")
    \o Keep \o xioopen_listen(x)
-----------------------------------------------------------------------------
(* xio-ipapp.c: TCP, SCTP and connected UDP. *)

_xioopen_ipapp_prepare ==
  retropt_socket_pf \o xiogetaddrinfo \o Apply("EARLY")
    \o retropt_bind \o Take({"sourceport", "lowport"}) \o Keep

\* Mutant of xioopen_ipapp_connect: another attempt has the options that are left.
xioopen_ipapp_connectAsIs(x) ==
  Check \o ApplySingle("INIT") \o Apply("INIT") \o Take({"fork"})
    \o _xioopen_ipapp_prepare \o LoopAsIs
    \o _xioopen_connect(x, Has(x, "lowport"))
    \o If(Has(x, "fork"), Fork("loop", {"sock"}, "again", {}))
    \o EndLoop \o _xio_openlate

xioopen_ipapp_connect(x) ==
  Check \o ApplySingle("INIT") \o Apply("INIT") \o Take({"fork"})
    \o _xioopen_ipapp_prepare \o Loop(TRUE)
    \o _xioopen_connect(x, Has(x, "lowport"))
    \o If(Has(x, "fork"), Fork("loop", {"sock"}, "again", {}))
    \o EndLoop \o _xio_openlate

_xioopen_ipapp_listen_prepare == retropt_socket_pf \o retropt_bind \o xiogetaddrinfo \o Keep

xioopen_ipapp_listen(x) ==
  Check \o ApplySingle("INIT") \o Apply("INIT") \o Apply("EARLY")
    \o _xioopen_ipapp_listen_prepare \o xioopen_listen(x)
-----------------------------------------------------------------------------
(* xio-udp.c *)

\* A bound socket for the next peer.
UdpListenSocket(x) ==
  xiosocket("error") \o Apply("PASTSOCKET") \o applyopts_cloexec("fd")
    \o Apply("PREBIND") \o Apply("BIND") \o Call("error", {}) \o Apply("PASTBIND")

xioopen_ipdgram_listen(x) ==
  Check \o retropt_socket_pf \o ApplySingle("INIT") \o Apply("INIT") \o retropt_bind
    \o Take({"fork"}) \o xioparserange(x) \o xio_retropt_tcpwrap \o Take({"sourceport", "lowport"})
    \o Mark("packet") \o UdpListenSocket(x) \o Call("error", {})
    \o xiocheckpeer(x, May("packet", {"sock"}))
    \o If(Has(x, "fork"), Fork("packet", {"sock"}, "error", {}))
    \o Apply("CONNECT") \o Call("error", {}) \o applyopts_fchown("fd")
    \o Apply("LATE") \o _xio_openlate

_xioopen_udp_sendto(x) ==
  ApplySingle("INIT") \o Apply("INIT") \o xiogetaddrinfo
    \o retropt_bind \o Take({"sourceport", "lowport"})
    \o _xioopen_dgram_sendto(Binds(x) \/ Has(x, "lowport"))

xioopen_udp_sendto(x) == Check \o retropt_socket_pf \o _xioopen_udp_sendto(x) \o _xio_openlate

xioopen_udp_datagram(x) ==
  Check \o retropt_socket_pf \o _xioopen_udp_sendto(x)
    \o xioparserange(x) \o xio_retropt_tcpwrap \o _xio_openlate

xioopen_udp_recvfrom(x) ==
  Check \o retropt_socket_pf \o xiogetaddrinfo \o retropt_bind
    \o Take({"sourceport", "lowport"}) \o _xioopen_dgram_recvfrom(x, TRUE) \o _xio_openlate

xioopen_udp_recv(x) ==
  Check \o retropt_socket_pf \o xiogetaddrinfo \o retropt_bind
    \o xioparserange(x) \o xio_retropt_tcpwrap \o Take({"sourceport", "lowport"})
    \o _xioopen_dgram_recv(x, TRUE) \o _xio_openlate
-----------------------------------------------------------------------------
(* xio-rawip.c *)

_xioopen_rawip_sendto(x) ==
  Check \o retropt_socket_pf \o ApplySingle("INIT") \o Apply("INIT") \o xiogetaddrinfo
    \o retropt_bind \o _xioopen_dgram_sendto(Binds(x))

xioopen_rawip_sendto(x) == Check \o _xioopen_rawip_sendto(x) \o _xio_openlate

xioopen_rawip_datagram(x) ==
  Check \o _xioopen_rawip_sendto(x) \o xioparserange(x) \o xio_retropt_tcpwrap \o _xio_openlate

xioopen_rawip_recvfrom(x) ==
  Check \o retropt_socket_pf \o retropt_bind
    \o _xioopen_dgram_recvfrom(x, Binds(x)) \o _xio_openlate

xioopen_rawip_recv(x) ==
  Check \o retropt_socket_pf \o retropt_bind
    \o _xioopen_dgram_recv(x, Binds(x)) \o _xio_openlate
-----------------------------------------------------------------------------
(* xio-unix.c *)

\* Options of sockets that have a name in the file system.
UnixNamed(x, options) == If(~Abstract(x), Take(options))

\* An old socket is removed before a new one is bound.
UnlinkEarly(x) == If(~Abstract(x) /\ Has(x, "unlink-early"), Call("error", {}))

xioopen_unix_listen(x) ==
  Check \o retropt_socket_pf \o Take({"tightsocklen"})
    \o UnixNamed(x, {"unlink-early", "unlink-close"})
    \o ApplySingle("INIT") \o Apply("INIT") \o Apply("EARLY") \o UnlinkEarly(x)
    \o If(~Abstract(x), ApplyNamed("EARLY")) \o Keep \o xioopen_listen(x)

xioopen_unix_connect(x) ==
  Check \o retropt_socket_pf \o Take({"tightsocklen"})
    \o UnixNamed(x, {"unlink-close"}) \o retropt_bind
    \o ApplySingle("INIT") \o Apply("INIT") \o Apply("EARLY")
    \o xioopen_connect(x) \o _xio_openlate

\* What is left of the options is not looked at.
xioopen_unix_sendto(x) ==
  Check \o Take({"tightsocklen"}) \o retropt_socket_pf
    \o UnixNamed(x, {"unlink-close"}) \o retropt_bind
    \o ApplySingle("INIT") \o Apply("INIT") \o _xioopen_dgram_sendto(Binds(x))

xioopen_unix_recvfrom(x) ==
  Check \o retropt_socket_pf \o Take({"tightsocklen"}) \o retropt_bind
    \o UnixNamed(x, {"unlink-early", "unlink-close"}) \o UnlinkEarly(x)
    \o _xioopen_dgram_recvfrom(x, TRUE)

\* What is left of the options is not looked at.
xioopen_unix_recv(x) ==
  Check \o retropt_socket_pf \o Take({"tightsocklen"}) \o retropt_bind
    \o UnixNamed(x, {"unlink-early"}) \o UnlinkEarly(x) \o UnixNamed(x, {"unlink-close"})
    \o _xioopen_dgram_recv(x, TRUE)

\* A server with datagrams is found out by EPROTOTYPE, with a stream socket; the
\* next one starts from a copy of the options.
_xioopen_unix_client(x) ==
  ApplySingle("INIT") \o Apply("INIT") \o retropt_socket_pf \o Take({"tightsocklen"})
    \o UnixNamed(x, {"unlink-close"}) \o retropt_bind \o Keep
    \o xioopen_connect(x) \o Go("late")
    \o Mark("datagram") \o DropAll \o Restore \o _xioopen_dgram_sendto(Binds(x))
    \o Mark("late") \o _xio_openlate

xioopen_unix_client(x) == Check \o _xioopen_unix_client(x)
=============================================================================
