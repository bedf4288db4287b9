-------------------------------- MODULE NetStack --------------------------------
(***************************************************************************)
(* srv_conn.c over anj_net_wrapper.h: the connection to a server, and the  *)
(* transports it is built on.                                              *)
(*                                                                         *)
(* The binding is UDP (the POSIX transport or that of the example), DTLS   *)
(* over the POSIX transport, or non-IP, which is external and may do all   *)
(* that anj_net_api.h allows.  A function of a transport is given as the   *)
(* set of its outcomes, each the whole state t of the transports; each     *)
(* action is a call of srv_conn.c, made the way core/, ntp.c and           *)
(* coap_downloader.c make it: connect until it is done, use the            *)
(* connection, and close it after an error or whenever they like.          *)
(***************************************************************************)
EXTENDS DtlsSocket, MinimalSocket, Sequences

CONSTANTS Bindings,    \* the bindings that are built in
          Psks, Ports, \* the configurations of a server
          Datagrams,   \* what may arrive: Nothing, or a size
          BufferSize,  \* of ANJ_IN_MSG_BUFFER_SIZE
          MsgLength    \* of a message that is sent

ASSUME NetAssumption ==
    /\ Bindings \subseteq {"posix", "minimal", "dtls", "non_ip"}
    /\ MsgLength \in Nat \ {0} /\ BufferSize \in Nat
    /\ Datagrams \subseteq Int

VARIABLES binding, psk, port,   \* the configuration
          t,                    \* the transports
          conn,                 \* _anj_server_connection_ctx_t
          phase,                \* what the caller is about
          wire,                 \* the bytes of the message that were taken so far
          got,                  \* of the last datagram that was accepted: all or a part
          last                  \* the last call of a transport and its result

config == <<binding, psk, port>>
vars == <<config, t, conn, phase, wire, got, last>>

Calls == {"none", "connect", "send", "recv", "close", "cleanup", "rx_off"}
Results == {"ok", "again", "emsgsize", "inprogress", "error"}

NoConn == [bytesSent |-> 0, sending |-> FALSE, mtu |-> 0]

\* How an outcome of one transport is one of them all.
LiftU(outs) == {[res |-> r.res, t |-> [t EXCEPT !.u = r.u]] : r \in outs}
LiftD(outs) == {[res |-> r.res, t |-> [t EXCEPT !.u = r.u, !.d = r.d]] : r \in outs}
LiftN(outs) == {[res |-> r[1], t |-> [t EXCEPT !.n = r[2]]] : r \in outs}

NetState(tt) ==
    CASE binding = "dtls"   -> IF tt.d.ctx THEN tt.d.state ELSE "none"
      [] binding = "non_ip" -> tt.n
      [] OTHER              -> IF tt.u.ctx THEN tt.u.state ELSE "none"

NetCreate ==
    CASE binding = "posix"   -> LiftU(UdpCreate(t.u))
      [] binding = "minimal" -> LiftU(MinCreate(t.u))
      [] binding = "dtls"    -> LiftD(DtlsCreate(t.d, t.u, psk))
      [] binding = "non_ip"  -> LiftN({<<"ok", "closed">>, <<"error", "none">>})

NetConnect(tt, dns) ==
    CASE binding = "posix"   -> LiftU(UdpConnect(tt.u, port, dns))
      [] binding = "minimal" -> LiftU(MinConnect(tt.u, port, dns))
      [] binding = "dtls"    -> LiftD(DtlsConnect(tt.d, tt.u, port, dns))
      [] binding = "non_ip"  -> LiftN({<<"ok", "connected">>, <<"error", "closed">>,
                                       <<"inprogress", "closed">>})

\* The number of bytes a send that succeeds may take.
Taken(length) == IF binding = "non_ip" THEN 1..length ELSE {length}

NetSend ==
    CASE binding = "posix"   -> LiftU(UdpSend(t.u))
      [] binding = "minimal" -> LiftU(MinSend(t.u))
      [] binding = "dtls"    -> LiftD(DtlsSend(t.d, t.u))
      [] binding = "non_ip"  -> LiftN({"ok", "inprogress", "emsgsize", "error"} \X {t.n})

NetRecv(datagram) ==
    CASE binding = "posix"   -> LiftU(UdpRecv(t.u, datagram, BufferSize))
      [] binding = "minimal" -> LiftU(MinRecv(t.u, datagram, BufferSize))
      [] binding = "dtls"    -> LiftD(DtlsRecv(t.d, t.u, datagram))
      [] binding = "non_ip"  -> LiftN(Results \X {t.n})

NetClose ==
    CASE binding = "posix"   -> LiftU(UdpClose(t.u))
      [] binding = "minimal" -> LiftU(MinClose(t.u))
      [] binding = "dtls"    -> LiftD(DtlsClose(t.d, t.u))
      [] binding = "non_ip"  -> LiftN({<<"ok", "closed">>, <<"error", "closed">>,
                                       <<"inprogress", t.n>>})

NetCleanup ==
    CASE binding = "posix"   -> LiftU(UdpCleanup(t.u))
      [] binding = "minimal" -> LiftU(MinCleanup(t.u))
      [] binding = "dtls"    -> LiftD(DtlsCleanup(t.d, t.u))
      [] binding = "non_ip"  -> LiftN({<<"ok", "none">>, <<"error", "none">>,
                                       <<"inprogress", t.n>>})

NetRxOff == IF binding = "non_ip" THEN {"ok", "inprogress", "error"} ELSE {"ok"}

\* anj_net_get_inner_mtu(); 0 stands for an error as well.
NetMtu(tt, path) ==
    CASE binding = "posix"   -> InnerMtu(tt.u, path)
      [] binding = "minimal" -> MinMtu
      [] binding = "dtls"    -> DtlsMtu(tt.u, path)
      [] binding = "non_ip"  -> path

--------------------------------------------------------------------------------
Init ==
    /\ binding \in Bindings /\ psk \in Psks /\ port \in Ports
    /\ t = [u |-> NoSocket, d |-> NoDtls, n |-> "none"]
    /\ conn = NoConn
    /\ phase = "down"
    /\ wire = <<>>
    /\ got = "whole"
    /\ last = [call |-> "none", res |-> "ok"]

Called(call, res) == last' = [call |-> call, res |-> res]

Leaving == {"closing", "cleaning"}

\* The caller wants a connection.
Start ==
    /\ phase = "down"
    /\ phase' = "connecting"
    /\ UNCHANGED <<config, t, conn, wire, got, last>>

\* The outcomes of the first half of _anj_srv_conn_connect().
CreateCtx ==
    IF NetState(t) = "none" THEN NetCreate ELSE {[res |-> "ok", t |-> t]}

\* What the result of anj_net_connect() and the MTU come to.
ConnectResult(r, path) ==
    /\ t' = r.t
    /\ Called("connect", r.res)
    /\ CASE r.res = "ok" ->
              /\ conn' = [conn EXCEPT !.mtu = NetMtu(r.t, path)]
              /\ IF NetMtu(r.t, path) > 0 THEN phase' = "up" ELSE phase' \in Leaving
         [] r.res = "inprogress" -> UNCHANGED <<conn, phase>>
         [] OTHER -> UNCHANGED conn /\ phase' \in Leaving

\* _anj_srv_conn_connect()
Connect ==
    /\ phase = "connecting"
    /\ \E c \in CreateCtx :
         IF c.res # "ok"
           THEN /\ phase' = "down"
                /\ Called("connect", c.res)
                /\ UNCHANGED <<t, conn>>
           ELSE \E dns \in SUBSET {"inet", "inet6"}, path \in PathMtus :
                   \E r \in NetConnect(c.t, dns) : ConnectResult(r, path)
    /\ UNCHANGED <<config, wire, got>>

\* Mutant of SwitchingOff: the call is not repeated.
SwitchingOffOnce == FALSE

\* The caller repeats anj_net_queue_mode_rx_off() before anything else.
SwitchingOff == last.call = "rx_off" /\ last.res = "inprogress"

\* n bytes of the message, behind the first ones.
Bytes(from, n) == [i \in 1..n |-> from + i]

\* _anj_srv_conn_send() of a message, or of the rest of one.
Send ==
    /\ phase = "up" /\ ~SwitchingOff
    /\ \E r \in NetSend, n \in Taken(MsgLength - conn.bytesSent) :
         /\ t' = r.t
         /\ Called("send", r.res)
         /\ CASE r.res = "ok" ->
                   /\ wire' = (IF conn.sending THEN wire ELSE <<>>) \o Bytes(conn.bytesSent, n)
                   /\ conn' = IF conn.bytesSent + n = MsgLength
                              THEN [conn EXCEPT !.bytesSent = 0, !.sending = FALSE]
                              ELSE [conn EXCEPT !.bytesSent = @ + n, !.sending = TRUE]
                   /\ UNCHANGED phase
              [] r.res = "inprogress" ->
                   /\ conn' = [conn EXCEPT !.sending = TRUE]
                   /\ wire' = IF conn.sending THEN wire ELSE <<>>
                   /\ UNCHANGED phase
              [] OTHER ->
                   /\ conn' = [conn EXCEPT !.sending = FALSE]
                   /\ phase' \in Leaving
                   /\ UNCHANGED wire
    /\ UNCHANGED <<config, got>>

\* _anj_srv_conn_receive(), between messages; one that is too long is dropped.
Receive ==
    /\ phase = "up" /\ ~conn.sending /\ ~SwitchingOff
    /\ \E datagram \in Datagrams : \E r \in NetRecv(datagram) :
         /\ t' = r.t
         /\ Called("recv", r.res)
         /\ got' = IF r.res = "ok" /\ datagram > BufferSize THEN "part" ELSE "whole"
         /\ IF r.res = "error" THEN phase' \in Leaving ELSE UNCHANGED phase
    /\ UNCHANGED <<config, conn, wire>>

\* _anj_srv_conn_queue_mode_rx_off(), between messages.
RxOff ==
    /\ phase = "up" /\ ~conn.sending
    /\ \E res \in NetRxOff :
         /\ Called("rx_off", res)
         /\ IF res = "error" THEN phase' \in Leaving ELSE UNCHANGED phase
    /\ UNCHANGED <<config, t, conn, wire, got>>

\* The caller gives the connection up.
Leave ==
    /\ phase \in {"connecting", "up"}
    /\ phase' \in Leaving
    /\ UNCHANGED <<config, t, conn, wire, got, last>>

\* Mutant of CloseConn: what was sent of a message is remembered.
CloseConnKeeps == [conn EXCEPT !.sending = FALSE]

\* What _anj_srv_conn_close() begins with.
CloseConn == [conn EXCEPT !.bytesSent = 0, !.sending = FALSE]

\* _anj_srv_conn_close(): a socket that is not connected is only cleaned up.
Close ==
    LET cleanup == phase = "cleaning"
    IN /\ phase \in Leaving
       /\ IF NetState(t) = "none" \/ (NetState(t) = "closed" /\ ~cleanup)
            THEN /\ phase' = "down"
                 /\ conn' = CloseConn
                 /\ UNCHANGED <<t, last>>
            ELSE \E r \in IF cleanup THEN NetCleanup ELSE NetClose :
                    /\ t' = r.t
                    /\ Called(IF cleanup THEN "cleanup" ELSE "close", r.res)
                    /\ phase' = IF r.res = "inprogress" THEN phase ELSE "down"
                    /\ conn' = IF cleanup /\ r.res # "inprogress" THEN NoConn ELSE CloseConn
       /\ UNCHANGED <<config, wire, got>>

Next == Start \/ Connect \/ Send \/ Receive \/ RxOff \/ Leave \/ Close

\* A caller that wants a connection keeps trying; the peer is reachable time
\* and again, and no transport is in progress for ever.
Fairness ==
    /\ WF_vars(Start) /\ WF_vars(Connect) /\ WF_vars(Close)
    /\ SF_vars(Connect /\ phase' = "up")
    /\ SF_vars(Close /\ phase' = "down")

Spec == Init /\ [][Next]_vars /\ Fairness

--------------------------------------------------------------------------------
\* The types of the variables: the contexts of the transports and of srv_conn.c.
TypeOK ==
    /\ binding \in Bindings /\ psk \in Psks /\ port \in Ports
    /\ t.u.fd \in {Invalid, Stale, "open", "connected"} /\ t.u.fds \in Nat
    /\ t.u.state \in {"closed", "connected"} /\ t.d.state \in {"closed", "connected"}
    /\ t.d.sm \in {"initial", "handshaking", "done"} /\ t.d.ssl \in {"none", "setup", "up"}
    /\ t.n \in {"none", "closed", "connected"}
    /\ conn.bytesSent \in 0..(MsgLength - 1) /\ conn.mtu \in Int
    /\ phase \in {"down", "connecting", "up"} \cup Leaving
    /\ phase = "up" => conn.mtu > 0
    /\ Len(wire) <= MsgLength
    /\ last.call \in Calls /\ last.res \in Results

Contract == INSTANCE NetContract WITH sock <- NetState(t), last <- last

\* Every transport, as the connection layer uses it, keeps what anj_net_api.h
\* promises: whatever fails inside of it, its state is the one its results tell.
ContractKept == Contract!Spec

\* A transport that says it is CONNECTED can carry data: its socket is open,
\* connected and does not block, and a DTLS session that is reused after a close
\* still has its keys.  (Not so the POSIX transport after a close() that failed
\* and released the socket, which leaves CONNECTED set.)
ConnectedIsUsable ==
    (/\ NetState(t) = "connected" /\ binding \in {"posix", "dtls"}
     /\ binding = "posix" => t.u.fd # Stale) =>
        /\ t.u.fd = "connected" /\ t.u.nonblock /\ t.u.state = "connected"
        /\ binding = "dtls" => t.d.ssl = "up"

\* The sockets that the context holds, and may still use or close.
Held(u) == IF u.ctx /\ u.fd \in {"open", "connected"} THEN 1 ELSE 0

\* No socket of the system is lost: the context holds the only one there is,
\* across failed connections, failed handshakes and cleanups, but for those that
\* close() failed for when their context was freed.  (The transport of the
\* example loses one whenever connect() fails.)
NoSocketLost == binding # "minimal" => t.u.fds = Held(t.u) + t.u.lost

\* A datagram that is longer than the buffer is not taken for a message: the
\* transports over UDP report ANJ_NET_EMSGSIZE for it.
CutReported == binding \in {"posix", "minimal"} => got = "whole"

\* A transport is in order after every call, however it failed.
TransportInOrder == TypeOK /\ ConnectedIsUsable /\ NoSocketLost /\ CutReported

\* A message of that size fits a path that was reported, or the smallest one.
FitsPath(mtu, u) ==
    \E path \in PathMtus \cup {576, 1280} :
       /\ path >= 0
       /\ mtu + UdpOverhead(u.af) + (IF binding = "dtls" THEN DtlsOverhead ELSE 0) = path

\* A message is reported as sent only when all its bytes were handed over once
\* and in order, whatever was sent of an earlier message that was given up.  The
\* MTU that bounds it leaves room for the headers below.
MessageWhole ==
    [][/\ last'.call = "send" /\ last'.res = "ok" /\ ~conn'.sending /\ wire' # wire
             => wire' = Bytes(0, MsgLength)
       /\ phase = "connecting" /\ phase' = "up" /\ binding \in {"posix", "dtls"}
             => FitsPath(conn'.mtu, t'.u)]_vars

\* anj_net_recv() returns ANJ_NET_EMSGSIZE "if the provided buffer is too small",
\* whatever the transport.
TooLongReported == binding # "non_ip" => got = "whole"

Usable == binding # "minimal" /\ port <= 65535 /\ (binding = "dtls" => LoadPsk(psk))

\* Whatever failed before, a connection to a server that is configured as it
\* should be and can be reached comes up again, unless a close() failed: with a
\* descriptor that was released the transport is of no use until it is cleaned
\* up, and a socket that was lost stays so.  (Not so with the transport of the
\* example, once the sockets it lost are all the system grants.)
ComesUpAgain ==
    Usable => \/ []<>(phase = "up")
              \/ <>[](t.u.fd = Stale)
              \/ <>[](t.u.lost = MaxSockets)

\* What anj_net_is_inprogress asks of the callers: the call is repeated without
\* any other in between.
StrictlyRepeated ==
    [][last.res = "inprogress" /\ last' # last => last'.call = last.call]_vars

\* anj_net_close: "No further communication is allowed using this context" until
\* it is connected again.
ClosedAfterClose == [][last' # last /\ last'.call = "close" /\ last'.res # "inprogress"
                         => NetState(t') # "connected"]_vars
================================================================================
