---------------------------- MODULE OpenProxies -----------------------------
(***************************************************************************)
(* Connections through proxies and with TLS: xio-proxy.c, xio-socks.c,     *)
(* xio-openssl.c.  After the connection comes a dialogue with the peer,    *)
(* which may fail, too.                                                    *)
(***************************************************************************)
EXTENDS OpenSockets

\* A request that cannot be written closes the connection, an answer that is no
\* consent leaves it open.
Request == Call("later", {"sock"})
Answer == Call("later", {})

_xioopen_proxy_prepare == Take({"proxyport"}) \o Call("error", {})
_xioopen_proxy_connect == Request \o Answer

xioopen_proxy_connect(x) ==
  Check \o ApplySingle("INIT") \o Apply("INIT") \o Take({"type", "fork"})
    \o _xioopen_proxy_prepare \o _xioopen_ipapp_prepare
    \o LoopAsIs \o _xioopen_connect(x, Has(x, "lowport"))
    \o Apply("ALL") \o _xio_openlate \o _xioopen_proxy_connect
    \o If(Has(x, "fork"), Fork("loop", {"sock"}, "again", {}))
    \o EndLoop

_xioopen_socks4_prepare == Take({"socksport"}) \o Call("error", {})

\* Socks 4 sends an address, socks 4a the name.
_xioopen_socks4_connect0 == Call("later", {})
\* A server that closes the connection has it closed here, too.
_xioopen_socks4_connect == Request \o Call("later", {"sock"}) \o Answer

xioopen_socks4_connect(x) ==
  Check \o ApplySingle("INIT") \o Apply("INIT") \o Take({"type", "fork"})
    \o _xioopen_socks4_prepare \o _xioopen_ipapp_prepare
    \o LoopAsIs \o _xioopen_socks4_connect0 \o _xioopen_connect(x, Has(x, "lowport"))
    \o Apply("ALL") \o _xio_openlate \o _xioopen_socks4_connect
    \o If(Has(x, "fork"), Fork("loop", {"sock"}, "again", {}))
    \o EndLoop
-----------------------------------------------------------------------------
(* xio-openssl.c *)

\* The context of the library, and what the certificates and ciphers do to it.
OpensslContext == Check
OpensslCertificates == Check

_xioopen_openssl_prepare ==
  Take({"method", "key", "egd"}) \o OpensslContext \o OpensslCertificates

\* A peer without a certificate, or with one that is not accepted.
openssl_handle_peer_certificate(fail, closes) == Call(fail, closes)

\* Mutant of _xioopen_openssl_connect: a connection without a session stays open.
_xioopen_openssl_connectOpen ==
  Call("later", {}) \o openssl_handle_peer_certificate("later", {})

\* Whatever fails in the session, the caller closes the connection.
xioSSL_set_fd == Call("later", {"sock"})
xioSSL_connect == Call("later", {"sock"})

_xioopen_openssl_connect ==
  xioSSL_set_fd \o xioSSL_connect \o openssl_handle_peer_certificate("later", {"sock"})

\* All options are used before the session begins.
OpensslAttempt(x) ==
  _xioopen_connect(x, Has(x, "lowport")) \o _xio_openlate \o _xioopen_openssl_connect
    \o If(Has(x, "fork"), Fork("loop", {"sock"}, "again", {}))

xioopen_openssl_connect(x) ==
  Check \o ApplySingle("INIT") \o Apply("INIT") \o Take({"fork"})
    \o _xioopen_openssl_prepare \o _xioopen_ipapp_prepare
    \o Loop(TRUE) \o OpensslAttempt(x) \o EndLoop

\* Nobody closes the connection of a peer whose handshake failed; one whose
\* certificate is not accepted ends the process.
_xioopen_openssl_listen ==
  Call("error", {}) \o Call("later", {}) \o openssl_handle_peer_certificate("error", {})

xioopen_openssl_listen(x) ==
  Check \o ApplySingle("INIT") \o Apply("INIT") \o Apply("EARLY")
    \o _xioopen_openssl_prepare \o _xioopen_ipapp_listen_prepare
    \o Loop(TRUE) \o _xioopen_listen(x) \o _xioopen_openssl_listen \o EndLoop
=============================================================================
