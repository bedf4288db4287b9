------------------------------ MODULE PosixSocket ------------------------------
(***************************************************************************)
(* posix/anj_socket.c: the transport over UDP sockets of the system.       *)
(*                                                                         *)
(* A function is given as the set of its outcomes: its result and the      *)
(* context afterwards.  The calls of the system are nondeterministic.  fds *)
(* counts the sockets that are open, lost the ones among them that close() *)
(* failed for when the context was freed (history, for NoSocketLost).      *)
(***************************************************************************)
EXTENDS Integers, FiniteSets

CONSTANTS AfSetting,   \* config.af_setting
          Families,    \* ANJ_NET_WITH_IPV4, ANJ_NET_WITH_IPV6
          PathMtus,    \* what IP_MTU reports; -1 is an error
          MaxSockets   \* that the system lets the client open

ASSUME PosixAssumption ==
    /\ AfSetting \in {"unspec", "force4", "force6", "prefer4", "prefer6"}
    /\ Families \subseteq {"inet", "inet6"} /\ Families # {}
    /\ PathMtus \subseteq Int
    /\ MaxSockets \in Nat \ {0}

Invalid == "invalid"
Stale == "stale"     \* a descriptor that the system has released

\* The context before it is created.
NoSocket == [ctx |-> FALSE, fd |-> Invalid, af |-> "none", nonblock |-> FALSE,
             state |-> "closed", fds |-> 0, lost |-> 0]

Out(res, u) == [res |-> res, u |-> u]

\* create_net_ctx(): malloc() may fail.
UdpCreate(u) == {Out("error", u), Out("ok", [u EXCEPT !.ctx = TRUE])}

\* cleanup_ctx_internal(), after a close() that succeeded.
Shut(u) ==
    [u EXCEPT !.fd = Invalid, !.af = "none", !.nonblock = FALSE, !.state = "closed",
              !.fds = IF u.fd = Invalid THEN @ ELSE @ - 1]

\* close() fails: the system keeps the socket, or has released it all the same
\* and fails for what is then no descriptor from now on.
CloseFails(u) ==
    CASE u.fd = Invalid -> {}
      [] u.fd = Stale   -> {u}
      [] OTHER          -> {u, [u EXCEPT !.fd = Stale, !.af = "none", !.nonblock = FALSE,
                                         !.fds = @ - 1]}

\* net_close_internal(): after a failure the descriptor and the state stay.
CloseInternal(u) ==
    {Out("error", f) : f \in CloseFails(u)} \cup
    (IF u.fd = Stale THEN {} ELSE {Out("ok", Shut(u))})

UdpClose(u) == IF u.fd = Invalid THEN {Out("error", u)} ELSE CloseInternal(u)

\* free(): a socket that could not be closed is lost with the context.
Freed(u) ==
    [u EXCEPT !.ctx = FALSE, !.fd = Invalid, !.af = "none", !.nonblock = FALSE,
              !.state = "closed",
              !.lost = IF u.fd \in {Invalid, Stale} THEN @ ELSE @ + 1]

\* cleanup_ctx(): the context is freed whatever close() says.
UdpCleanup(u) == {Out(r.res, Freed(r.u)) : r \in CloseInternal(u)}

Weak(setting) == setting \in {"unspec", "prefer4", "prefer6"}

PreferredFamily(setting) == IF setting = "prefer6" THEN "inet6" ELSE "inet"
OppositeFamily(setting) == IF setting = "prefer6" THEN "inet" ELSE "inet6"

\* set_ai_family(): the family to ask for in the first and in the second call.
AiFamily(setting, first) ==
    IF ~Weak(setting)
      THEN IF ~first THEN "none" ELSE IF setting = "force4" THEN "inet" ELSE "inet6"
      ELSE IF Cardinality(Families) = 2
        THEN IF first THEN PreferredFamily(setting) ELSE OppositeFamily(setting)
        ELSE IF ~first THEN "none"
             ELSE IF "inet6" \in Families THEN "inet6" ELSE "inet"

\* net_addrinfo_resolve(), twice at most: dns has the families of the host.
Resolved(dns) ==
    IF AiFamily(AfSetting, TRUE) \in dns THEN AiFamily(AfSetting, TRUE)
    ELSE IF AiFamily(AfSetting, FALSE) \in dns THEN AiFamily(AfSetting, FALSE)
    ELSE "none"

WithSocket(u, af) ==
    IF u.fd = Invalid THEN [u EXCEPT !.fd = "open", !.af = af, !.fds = @ + 1] ELSE u

\* net_connect_internal(), from create_net_socket() on.
ConnectTo(u, af) ==
    LET s == WithSocket(u, af)
        up == [s EXCEPT !.fd = "connected"]
    IN IF u.fd = Invalid /\ u.fds = MaxSockets THEN {Out("error", u)}
       ELSE (IF u.fd = Invalid THEN {Out("error", u)} ELSE {})      \* socket()
            \cup {Out("error", s)}                                  \* connect()
            \cup (IF s.af # af THEN {}
                  ELSE {Out("inprogress", s),
                        Out("error", up),                           \* fcntl()
                        Out("ok", [up EXCEPT !.nonblock = TRUE])})

ConnectInternal(u, port, dns) ==
    IF port > 65535 \/ Resolved(dns) = "none"
      THEN {Out("error", u)} ELSE ConnectTo(u, Resolved(dns))

\* The end of net_connect().
Connected(r) ==
    CASE r.res = "ok" -> {Out("ok", [r.u EXCEPT !.state = "connected"])}
      [] r.res = "inprogress" -> {r}
      [] OTHER -> {Out(r.res, c.u) : c \in CloseInternal(r.u)}

UdpConnect(u, port, dns) == UNION {Connected(r) : r \in ConnectInternal(u, port, dns)}

\* net_send(): a datagram is sent whole or not at all.
UdpSend(u) ==
    IF u.fd # "connected" THEN {Out("error", u)}
    ELSE {Out(res, u) : res \in {"ok", "inprogress", "emsgsize", "error"}}

Nothing == -1   \* there is no datagram to receive

\* recv() returned as much as the buffer holds.
Fills(datagram, length) == datagram > 0 /\ datagram >= length

\* net_recv() of a datagram into a buffer of some length; one that fills the
\* buffer may have been cut.
UdpRecv(u, datagram, length) ==
    IF u.fd # "connected" THEN {Out("error", u)}
    ELSE {Out("error", u), Out("inprogress", u),
          IF datagram = Nothing THEN Out("again", u)
          ELSE IF Fills(datagram, length) THEN Out("emsgsize", u) ELSE Out("ok", u)}

UdpOverhead(af) == IF af = "inet6" THEN 48 ELSE 28

\* get_fallback_inner_udp_mtu()
FallbackMtu(af) == IF af = "inet6" /\ "inet6" \in Families THEN 1232 ELSE 548

\* get_inner_mtu(), with the MTU of the path if the system knows it.
InnerMtu(u, path) ==
    IF u.fd # Invalid /\ u.af \in Families /\ path >= 0
      THEN (IF path < UdpOverhead(u.af) THEN 0 ELSE path - UdpOverhead(u.af))
      ELSE FallbackMtu(u.af)
================================================================================
