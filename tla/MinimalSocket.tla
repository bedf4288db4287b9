----------------------------- MODULE MinimalSocket -----------------------------
(***************************************************************************)
(* examples/custom-network/minimal/src/net.c: the least a transport of an  *)
(* integrator does, over a UDP socket of the system.  The context is that  *)
(* of PosixSocket; a socket that could not be connected is not closed.     *)
(***************************************************************************)
EXTENDS PosixSocket

\* anj_udp_create_ctx()
MinCreate(u) == UdpCreate(u)

\* anj_udp_connect(): a new socket each time, IPv4 only; fcntl() may fail unseen.
MinConnect(u, port, dns) ==
    LET new == [u EXCEPT !.fd = "open", !.af = "inet", !.nonblock = FALSE, !.fds = @ + 1]
        up == [new EXCEPT !.fd = "connected", !.state = "connected"]
    IN {Out("error", u)} \cup
       (IF port > 65535 \/ "inet" \notin dns THEN {}
        ELSE {Out("error", [u EXCEPT !.fd = Invalid])} \cup
             (IF u.fds = MaxSockets THEN {}
              ELSE {Out("error", new), Out("ok", up), Out("ok", [up EXCEPT !.nonblock = TRUE])}))

\* anj_udp_send()
MinSend(u) == {Out(res, u) : res \in IF u.fd = "connected"
                                     THEN {"ok", "inprogress", "error"} ELSE {"error"}}

\* anj_udp_recv()
MinRecv(u, datagram, length) ==
    {Out("error", u)} \cup
    (IF u.fd # "connected" THEN {}
     ELSE {Out("inprogress", u),
           Out(IF datagram = Nothing THEN "again"
               ELSE IF datagram >= length THEN "emsgsize" ELSE "ok", u)})

\* anj_udp_close(): the result of close() is not looked at, so that the system
\* may have kept the socket.
MinClose(u) == {Out("ok", Shut(u)), Out("ok", [Shut(u) EXCEPT !.fds = u.fds])}

\* anj_udp_cleanup_ctx()
MinCleanup(u) == {Out("ok", [r.u EXCEPT !.ctx = FALSE]) : r \in MinClose(u)}

\* anj_udp_get_inner_mtu()
MinMtu == 548
================================================================================
