------------------------------- MODULE DtlsSocket -------------------------------
(***************************************************************************)
(* anj_mbedtls_dtls_socket.c: DTLS over a transport of the UDP binding.    *)
(*                                                                         *)
(* The outcomes are as in PosixSocket, with the context d of this module.  *)
(* Mbed TLS is external: ssl is "none", "setup" or, with keys agreed, "up".*)
(* It asks for a call to be repeated only after the function that it sends *)
(* or receives with did, so that last_send_err and last_recv_err, which    *)
(* are then returned, are never ANJ_NET_OK.                                *)
(***************************************************************************)
EXTENDS PosixSocket

CONSTANTS PskMax,         \* MBEDTLS_PSK_MAX_LEN
          DtlsOverhead    \* ANJ_MBEDTLS_DTLS_MTU_OVERHEAD

ASSUME DtlsAssumption == PskMax \in Nat /\ DtlsOverhead \in Nat

NoDtls == [ctx |-> FALSE, sm |-> "initial", state |-> "closed", ssl |-> "none",
           notified |-> FALSE,
           psk |-> [key |-> [source |-> "empty", size |-> 0],
                    identity |-> [source |-> "empty", size |-> 0]]]

Both(res, d, u) == [res |-> res, d |-> d, u |-> u]

\* anj_dtls_create_ctx()
DtlsCreate(d, u, psk) ==
    {IF r.res = "ok"
       THEN Both("ok", [NoDtls EXCEPT !.ctx = TRUE, !.psk = psk], r.u)
       ELSE Both("error", d, u) : r \in UdpCreate(u)} \cup {Both("error", d, u)}

\* load_psk(): each part is empty, in a buffer, or kept elsewhere, where it may
\* not be found.
Loadable(info) ==
    info.source # "empty" /\ (info.source = "buffer" => info.size <= PskMax)

LoadPsk(psk) == Loadable(psk.key) /\ Loadable(psk.identity)

\* Mutant of ResetConfig: the state machine stays where it is.
ResetConfigKeeps(d) == [d EXCEPT !.ssl = "none"]

\* reset_config_and_ctx
ResetConfig(d) == [d EXCEPT !.ssl = "none", !.sm = "initial"]

\* mbedtls_ssl_handshake() and what is made of its result.
Handshake(d, u) ==
    {Both("error", ResetConfig(d), u)} \cup
    (IF d.ssl # "setup" \/ u.fd # "connected" THEN {}
     ELSE {Both("inprogress", d, u),
           Both("ok", [d EXCEPT !.state = "connected", !.sm = "done", !.ssl = "up"], u)})

\* The configuration of Mbed TLS, once the transport is connected; each of its
\* functions may fail.
Configured(d, u) ==
    {Both("error", ResetConfig(d), u)} \cup
    (IF LoadPsk(d.psk)
       THEN Handshake([d EXCEPT !.ssl = "setup", !.sm = "handshaking"], u) ELSE {})

\* Mutant of Reconnected: the session is enough to be connected.
ReconnectedAnyway(d, r) == Both("ok", [d EXCEPT !.state = "connected"], r.u)

\* The transport of a session that is reused.
Reconnected(d, r) ==
    CASE r.res = "inprogress" -> Both("inprogress", d, r.u)
      [] r.res = "ok" -> Both("ok", [d EXCEPT !.state = "connected"], r.u)
      [] OTHER -> Both("error", d, r.u)

\* anj_dtls_connect()
DtlsConnect(d, u, port, dns) ==
    CASE d.sm = "initial" ->
            UNION {CASE r.res = "inprogress" -> {Both("inprogress", d, r.u)}
                     [] r.res = "ok" -> Configured(d, r.u)
                     [] OTHER -> {Both("error", d, r.u)} : r \in UdpConnect(u, port, dns)}
      [] d.sm = "handshaking" -> Handshake(d, u)
      [] d.sm = "done" ->
            IF d.state = "closed" THEN {Reconnected(d, r) : r \in UdpConnect(u, port, dns)}
            ELSE {Both("ok", d, u)}

\* anj_dtls_send(): mbedtls_ssl_write() sends with UdpSend.  A part of the data
\* that is followed by a call to repeat is an error.
DtlsSend(d, u) ==
    {Both("error", d, u)} \cup
    (IF d.ssl = "up" /\ u.fd = "connected"
       THEN {Both("ok", d, u), Both("inprogress", d, u)} ELSE {})

\* anj_dtls_recv(): mbedtls_ssl_read() gives what fits in the buffer and keeps
\* the rest for the next call.
DtlsRecv(d, u, datagram) ==
    {Both("error", d, u)} \cup
    (IF d.ssl = "up" /\ u.fd = "connected"
       THEN {Both(IF datagram = Nothing THEN "again" ELSE "ok", d, u),
             Both("inprogress", d, u)} ELSE {})

\* anj_dtls_close()
DtlsClose(d, u) ==
    {Both(r.res, [d EXCEPT !.state = "closed"], r.u) : r \in UdpClose(u)}

\* mbedtls_ssl_close_notify(): sent, to be repeated, or failed.
CloseNotify(d, u) ==
    {"error"} \cup (IF d.ssl = "none" THEN {}
                    ELSE IF u.fd = "connected" THEN {"ok", "inprogress"} ELSE {"ok"})

\* The transport and the memory are released.
Released(d, u) ==
    {IF r.res = "inprogress" THEN Both("inprogress", d, r.u) ELSE Both(r.res, NoDtls, r.u) :
        r \in UdpCleanup(u)}

\* anj_dtls_cleanup_ctx()
DtlsCleanup(d, u) ==
    LET begun == [d EXCEPT !.sm = "initial"]
    IN UNION {CASE n = "inprogress" -> {Both("inprogress", begun, u)}
                [] n = "ok" -> Released([begun EXCEPT !.notified = TRUE], u)
                [] n = "error" -> Released(begun, u) :
                    n \in IF d.notified THEN {"ok"} ELSE CloseNotify(d, u)}

\* anj_dtls_get_inner_mtu(): 0 for an error.
DtlsMtu(u, path) ==
    IF InnerMtu(u, path) <= DtlsOverhead THEN 0 ELSE InnerMtu(u, path) - DtlsOverhead
================================================================================
