------------------------------- MODULE NetProofs -------------------------------
(***************************************************************************)
(* The transports under srv_conn.c, for all constants: each of them keeps  *)
(* the contract of anj_net_api.h (a refinement), none loses a socket or    *)
(* says CONNECTED without being usable unless a close() failed, and a      *)
(* message that is reported as sent is whole.                              *)
(*                                                                         *)
(* The lemmas on a transport say what each of its functions makes of a     *)
(* context that is in order; the steps of NetStack then need the state of  *)
(* the socket only, whichever the transport.                               *)
(***************************************************************************)
EXTENDS NetStack, FiniteSetTheorems, SequenceTheorems, TLAPS

States == {"closed", "connected"}
Fds == {Invalid, Stale, "open", "connected"}
Afs == {"none", "inet", "inet6"}
Machine == {"initial", "handshaking", "done"}
Sessions == {"none", "setup", "up"}

PskConfigs == Psks \cup {NoDtls.psk}
SocketStates == States \cup {"none"}

UType == [ctx : BOOLEAN, fd : Fds, af : Afs, nonblock : BOOLEAN, state : States, fds : Nat,
          lost : Nat]

DType == [ctx : BOOLEAN, sm : Machine, state : States, ssl : Sessions, notified : BOOLEAN,
          psk : PskConfigs]

TType == [u : UType, d : DType, n : SocketStates]

\* set_ai_family() gives AF_INET6 only where it is built in, unless it is forced.
BuiltIn(af) == af = "inet6" => "inet6" \in Families \/ AfSetting = "force6"

\* A context of the POSIX transport that is in order: it owns every socket there
\* is but those that were lost, and is CONNECTED only with one that is connected
\* and does not block, or with what a close() that failed has left.
UOk(u) == /\ u.fd # Invalid => u.ctx
          /\ u.fds = u.lost + (IF u.fd \in {Invalid, Stale} THEN 0 ELSE 1)
          /\ u.state = "connected" => u.fd = Stale \/ (u.fd = "connected" /\ u.nonblock)
          /\ u.fd = Stale => u.af = "none"
          /\ BuiltIn(u.af)

\* The same of the example's, which may lose sockets and does not look at fcntl().
MinOk(u) == /\ u.fd # Invalid => u.ctx /\ u.fds > 0
            /\ u.state = "connected" => u.fd = "connected"

\* A context of the DTLS transport over one that is in order: keys are there
\* whenever a session is to be used or used again.
DOk(d, u) == /\ UOk(u)
             /\ d.ctx <=> u.ctx
             /\ d.state = "connected" => d.ctx /\ d.ssl = "up" /\ u.state = "connected"
                                         /\ u.fd # Stale
             /\ d.sm = "done" => d.ssl = "up"
             /\ d.sm = "handshaking" => d.state = "closed" /\ u.state = "connected"

TOk(tt) == /\ binding \in {"posix", "non_ip"} => UOk(tt.u)
           /\ binding = "minimal" => MinOk(tt.u)
           /\ binding = "dtls" => DOk(tt.d, tt.u)

--------------------------------------------------------------------------------
(* The POSIX transport. *)

LEMMA Members ==
    /\ Invalid \in Fds /\ Stale \in Fds /\ "open" \in Fds /\ "connected" \in Fds
    /\ "closed" \in States /\ "connected" \in States
    /\ "none" \in Afs /\ "inet" \in Afs /\ "inet6" \in Afs
    /\ "initial" \in Machine /\ "handshaking" \in Machine /\ "done" \in Machine
    /\ "none" \in Sessions /\ "setup" \in Sessions /\ "up" \in Sessions
    /\ "none" \in SocketStates /\ "closed" \in SocketStates /\ "connected" \in SocketStates
    /\ NoDtls.psk \in PskConfigs /\ Psks \subseteq PskConfigs
  BY DEF Fds, States, Afs, Machine, Sessions, SocketStates, PskConfigs

LEMMA ShutOk ==
    ASSUME NEW u \in UType, UOk(u), u.fd # Stale
    PROVE  /\ Shut(u) \in UType /\ UOk(Shut(u))
           /\ Shut(u).ctx = u.ctx /\ Shut(u).state = "closed" /\ Shut(u).fd = Invalid
  <1> DEFINE left == IF u.fd = Invalid THEN u.fds ELSE u.fds - 1
             c == [u EXCEPT !.fd = Invalid, !.af = "none", !.nonblock = FALSE,
                            !.state = "closed", !.fds = left]
  <1>1. left = u.lost /\ left \in Nat
    BY DEF UOk, UType
  <1>2. Shut(u) = c
    BY DEF Shut
  <1> HIDE DEF left
  <1>3. c \in UType
    BY <1>1, Members, Zenon DEF UType
  <1>4. c.ctx = u.ctx /\ c.state = "closed" /\ c.fd = Invalid
    BY DEF UType
  <1>5. UOk(c)
    BY <1>1 DEF UType, UOk, BuiltIn
  <1> QED
    BY <1>2, <1>3, <1>4, <1>5

\* What is left after a close() that failed is in order too.
LEMMA CloseFailsOk ==
    ASSUME NEW u \in UType, UOk(u), NEW f \in CloseFails(u)
    PROVE  f \in UType /\ UOk(f) /\ f.ctx = u.ctx /\ f.state = u.state
  <1> DEFINE less == u.fds - 1
             s == [u EXCEPT !.fd = Stale, !.af = "none", !.nonblock = FALSE, !.fds = less]
  <1>1. f = u \/ (u.fd \notin {Invalid, Stale} /\ f = s)
    BY DEF CloseFails
  <1>2. CASE f = u
    BY <1>2
  <1>3. CASE u.fd \notin {Invalid, Stale} /\ f = s
    <2>1. less = u.lost /\ less \in Nat
      BY <1>3 DEF UOk, UType
    <2> HIDE DEF less
    <2>2. s \in UType
      BY <2>1, Members, Zenon DEF UType
    <2>3. s.ctx = u.ctx /\ s.state = u.state /\ s.fd = Stale
      BY DEF UType
    <2>4. UOk(s)
      BY <1>3, <2>1 DEF UType, UOk, BuiltIn
    <2> QED
      BY <1>3, <2>2, <2>3, <2>4
  <1> QED
    BY <1>1, <1>2, <1>3

LEMMA CloseInternalOk ==
    ASSUME NEW u \in UType, UOk(u), NEW r \in CloseInternal(u)
    PROVE  /\ r.u \in UType /\ UOk(r.u) /\ r.u.ctx = u.ctx /\ r.res \in {"ok", "error"}
           /\ r.res = "ok" => r.u.state = "closed"
           /\ r.res = "error" => r.u.state = u.state
  <1>1. \/ u.fd # Stale /\ r = Out("ok", Shut(u))
        \/ \E f \in CloseFails(u) : r = Out("error", f)
    BY DEF CloseInternal
  <1>2. CASE u.fd # Stale /\ r = Out("ok", Shut(u))
    BY <1>2, ShutOk DEF Out
  <1>3. CASE \E f \in CloseFails(u) : r = Out("error", f)
    BY <1>3, CloseFailsOk DEF Out
  <1> QED
    BY <1>1, <1>2, <1>3

LEMMA UdpCreateOk ==
    ASSUME NEW u \in UType, UOk(u), ~u.ctx, NEW r \in UdpCreate(u)
    PROVE  /\ r.u \in UType /\ UOk(r.u) /\ r.res \in {"ok", "error"}
           /\ r.res = "ok" => r.u.ctx /\ r.u.state = u.state
           /\ r.res = "error" => r.u = u
  <1> DEFINE c == [u EXCEPT !.ctx = TRUE]
  <1>1. c \in UType /\ UOk(c) /\ c.ctx /\ c.state = u.state
    BY Zenon DEF UType, UOk
  <1>2. r \in {Out("error", u), Out("ok", c)}
    BY DEF UdpCreate
  <1> HIDE DEF c
  <1> QED
    BY <1>1, <1>2 DEF Out

LEMMA ResolvedFamily ==
    ASSUME NEW dns
    PROVE  Resolved(dns) \in Afs /\ BuiltIn(Resolved(dns))
  <1>1. Cardinality(Families) = 2 => "inet6" \in Families
    <2> SUFFICES ASSUME "inet6" \notin Families PROVE Cardinality(Families) # 2
      OBVIOUS
    <2>1. Families = {"inet"}
      BY PosixAssumption, Zenon
    <2> QED
      BY <2>1, FS_Singleton
  <1>2. /\ AiFamily(AfSetting, TRUE) \in Afs /\ BuiltIn(AiFamily(AfSetting, TRUE))
        /\ AiFamily(AfSetting, FALSE) \in Afs /\ BuiltIn(AiFamily(AfSetting, FALSE))
    BY <1>1, PosixAssumption DEF Afs, AiFamily, Weak, PreferredFamily, OppositeFamily, BuiltIn
  <1> QED
    BY <1>2, Zenon DEF Resolved, BuiltIn, Afs

LEMMA ConnectInternalOk ==
    ASSUME NEW u \in UType, UOk(u), u.ctx, NEW p, NEW dns, NEW r \in ConnectInternal(u, p, dns)
    PROVE  /\ r.u \in UType /\ UOk(r.u) /\ r.u.ctx /\ r.u.state = u.state
           /\ r.res \in {"ok", "inprogress", "error"}
           /\ r.res = "ok" => r.u.fd = "connected" /\ r.u.nonblock
  <1> DEFINE af == Resolved(dns)
             s == WithSocket(u, af)
             up == [s EXCEPT !.fd = "connected"]
  <1>1. s \in UType /\ UOk(s) /\ s.ctx /\ s.state = u.state /\ s.fd # Invalid
    <2>1. CASE u.fd = Invalid
      <3> DEFINE more == u.fds + 1
                 n == [u EXCEPT !.fd = "open", !.af = af, !.fds = more]
      <3>1. s = n
        BY <2>1 DEF WithSocket
      <3>2. more = u.lost + 1 /\ more \in Nat
        BY <2>1 DEF UOk, UType
      <3> HIDE DEF more
      <3>3. n \in UType
        BY <3>2, ResolvedFamily, Members, Zenon DEF UType
      <3>4. n.ctx /\ n.state = u.state /\ n.fd # Invalid
        BY DEF UType, Invalid
      <3>5. UOk(n)
        BY <2>1, <3>2, ResolvedFamily DEF UType, UOk, Invalid, Stale
      <3> QED
        BY <3>1, <3>3, <3>4, <3>5
    <2>2. CASE u.fd # Invalid
      BY <2>2 DEF WithSocket
    <2> QED
      BY <2>1, <2>2
  <1> HIDE DEF af, s
  <1> DEFINE nb == [up EXCEPT !.nonblock = TRUE]
  <1>2. \/ r \in {Out("error", u), Out("error", s)}
        \/ af # "none" /\ s.af = af /\ r \in {Out("inprogress", s), Out("error", up), Out("ok", nb)}
    BY DEF ConnectInternal, ConnectTo, af, s
  <1>3. CASE r \in {Out("error", u), Out("error", s)}
    BY <1>1, <1>3 DEF Out
  <1>4. CASE af # "none" /\ s.af = af /\ r \in {Out("inprogress", s), Out("error", up), Out("ok", nb)}
    <2>0. s.fd # Stale
      BY <1>1, <1>4 DEF UOk
    <2>1. up \in UType
      BY <1>1, Members DEF UType
    <2>2. UOk(up) /\ up.ctx /\ up.state = u.state /\ up.fd = "connected"
      BY <1>1, <2>0 DEF UType, UOk, Invalid, Stale
    <2> HIDE DEF up
    <2>3. nb \in UType
      BY <2>1, Zenon DEF UType
    <2>4. UOk(nb) /\ nb.ctx /\ nb.state = u.state /\ nb.nonblock /\ nb.fd = "connected"
      BY <2>1, <2>2 DEF UType, UOk
    <2> HIDE DEF nb
    <2> QED
      BY <1>1, <1>4, <2>1, <2>2, <2>3, <2>4 DEF Out
  <1> QED
    BY <1>2, <1>3, <1>4

LEMMA UdpConnectOk ==
    ASSUME NEW u \in UType, UOk(u), u.ctx, NEW p, NEW dns, NEW r \in UdpConnect(u, p, dns)
    PROVE  /\ r.u \in UType /\ UOk(r.u) /\ r.u.ctx
           /\ r.res \in {"ok", "inprogress", "error"}
           /\ r.res = "ok" => r.u.state = "connected" /\ r.u.fd = "connected"
           /\ r.res = "inprogress" => r.u.state = u.state
           /\ r.res = "error" => r.u.state \in {"closed", u.state}
  <1>1. PICK q \in ConnectInternal(u, p, dns) : r \in Connected(q)
    BY DEF UdpConnect
  <1>2. /\ q.u \in UType /\ UOk(q.u) /\ q.u.ctx /\ q.u.state = u.state
        /\ q.res \in {"ok", "inprogress", "error"}
        /\ q.res = "ok" => q.u.fd = "connected" /\ q.u.nonblock
    BY <1>1, ConnectInternalOk
  <1>3. CASE q.res = "ok"
    <2> DEFINE up == [q.u EXCEPT !.state = "connected"]
    <2>1. r = Out("ok", up)
      BY <1>1, <1>3 DEF Connected
    <2>2. up \in UType
      BY <1>2, Members DEF UType
    <2>3. UOk(up) /\ up.ctx /\ up.state = "connected" /\ up.fd = "connected"
      BY <1>2, <1>3 DEF UOk, UType
    <2> HIDE DEF up
    <2> QED
      BY <2>1, <2>2, <2>3 DEF Out
  <1>4. CASE q.res = "inprogress"
    BY <1>1, <1>2, <1>4 DEF Connected
  <1>5. CASE q.res = "error"
    <2>1. PICK c \in CloseInternal(q.u) : r = Out("error", c.u)
      BY <1>1, <1>5 DEF Connected
    <2>2. /\ c.u \in UType /\ UOk(c.u) /\ c.u.ctx = q.u.ctx
          /\ c.u.state \in {"closed", q.u.state}
      BY <1>2, CloseInternalOk
    <2> QED
      BY <1>2, <2>1, <2>2 DEF Out
  <1> QED
    BY <1>2, <1>3, <1>4, <1>5

LEMMA UdpSendOk ==
    ASSUME NEW u, NEW r \in UdpSend(u)
    PROVE  r.u = u /\ r.res \in {"ok", "inprogress", "emsgsize", "error"}
  BY DEF UdpSend, Out

LEMMA UdpRecvOk ==
    ASSUME NEW u, NEW n, NEW length, NEW r \in UdpRecv(u, n, length)
    PROVE  r.u = u /\ r.res \in Results
  BY DEF UdpRecv, Out, Results

LEMMA UdpCloseOk ==
    ASSUME NEW u \in UType, UOk(u), u.state = "connected", NEW r \in UdpClose(u)
    PROVE  /\ r.u \in UType /\ UOk(r.u) /\ r.u.ctx = u.ctx /\ r.res \in {"ok", "error"}
           /\ r.res = "ok" => r.u.state = "closed"
           /\ r.res = "error" => r.u.state = "connected"
  BY CloseInternalOk DEF UdpClose, UOk, Invalid, Stale

LEMMA UdpCleanupOk ==
    ASSUME NEW u \in UType, UOk(u), NEW r \in UdpCleanup(u)
    PROVE  r.u \in UType /\ UOk(r.u) /\ ~r.u.ctx /\ r.res \in {"ok", "error"}
  <1>1. PICK q \in CloseInternal(u) : r = Out(q.res, Freed(q.u))
    BY DEF UdpCleanup
  <1>2. q.u \in UType /\ UOk(q.u) /\ q.res \in {"ok", "error"}
    BY CloseInternalOk
  <1> DEFINE v == q.u
             gone == IF v.fd \in {Invalid, Stale} THEN v.lost ELSE v.lost + 1
             e == [v EXCEPT !.ctx = FALSE, !.fd = Invalid, !.af = "none", !.nonblock = FALSE,
                            !.state = "closed", !.lost = gone]
  <1>3. Freed(v) = e
    BY DEF Freed
  <1>4. v \in UType /\ UOk(v)
    BY <1>2
  <1> HIDE DEF v
  <1>5. gone = v.fds /\ gone \in Nat
    BY <1>4 DEF UOk, UType
  <1> HIDE DEF gone
  <1>6. e \in UType
    BY <1>4, <1>5, Members, Zenon DEF UType
  <1>7. ~e.ctx
    BY <1>4 DEF UType
  <1>8. UOk(e)
    BY <1>4, <1>5 DEF UOk, UType, BuiltIn, Invalid, Stale
  <1> HIDE DEF e
  <1> QED
    BY <1>1, <1>2, <1>3, <1>6, <1>7, <1>8 DEF Out, v

--------------------------------------------------------------------------------
(* The transport of the example. *)

LEMMA MinCloseOk ==
    ASSUME NEW u \in UType, MinOk(u), NEW r \in MinClose(u)
    PROVE  /\ r.u \in UType /\ MinOk(r.u) /\ r.u.ctx = u.ctx /\ r.u.state = "closed"
           /\ r.u.fd = Invalid /\ r.res = "ok"
  <1>1. PICK left \in Nat :
           r = Out("ok", [u EXCEPT !.fd = Invalid, !.af = "none", !.nonblock = FALSE,
                                   !.state = "closed", !.fds = left])
    <2> DEFINE less == IF u.fd = Invalid THEN u.fds ELSE u.fds - 1
    <2>1. less \in Nat /\ u.fds \in Nat
      BY DEF MinOk, UType
    <2>2. Shut(u) = [u EXCEPT !.fd = Invalid, !.af = "none", !.nonblock = FALSE,
                              !.state = "closed", !.fds = less]
      BY DEF Shut
    <2>3. [Shut(u) EXCEPT !.fds = u.fds]
             = [u EXCEPT !.fd = Invalid, !.af = "none", !.nonblock = FALSE,
                         !.state = "closed", !.fds = u.fds]
      BY <2>2 DEF UType
    <2>4. r \in {Out("ok", Shut(u)), Out("ok", [Shut(u) EXCEPT !.fds = u.fds])}
      BY DEF MinClose
    <2> HIDE DEF less
    <2> QED
      BY <2>1, <2>2, <2>3, <2>4
  <1> DEFINE c == [u EXCEPT !.fd = Invalid, !.af = "none", !.nonblock = FALSE,
                            !.state = "closed", !.fds = left]
  <1>2. c \in UType
    BY Members, Zenon DEF UType
  <1>3. MinOk(c) /\ c.ctx = u.ctx /\ c.state = "closed" /\ c.fd = Invalid
    BY DEF UType, MinOk
  <1> QED
    BY <1>1, <1>2, <1>3 DEF Out

LEMMA MinCreateOk ==
    ASSUME NEW u \in UType, MinOk(u), ~u.ctx, NEW r \in MinCreate(u)
    PROVE  /\ r.u \in UType /\ MinOk(r.u) /\ r.res \in {"ok", "error"}
           /\ r.res = "ok" => r.u.ctx /\ r.u.state = u.state
  <1> DEFINE c == [u EXCEPT !.ctx = TRUE]
  <1>1. c \in UType /\ MinOk(c) /\ c.ctx /\ c.state = u.state
    BY Zenon DEF UType, MinOk
  <1>2. r \in {Out("error", u), Out("ok", c)}
    BY DEF MinCreate, UdpCreate
  <1> HIDE DEF c
  <1> QED
    BY <1>1, <1>2 DEF Out

LEMMA MinConnectOk ==
    ASSUME NEW u \in UType, MinOk(u), u.ctx, u.state = "closed",
           NEW p, NEW dns, NEW r \in MinConnect(u, p, dns)
    PROVE  /\ r.u \in UType /\ MinOk(r.u) /\ r.u.ctx /\ r.res \in {"ok", "error"}
           /\ r.u.state = IF r.res = "ok" THEN "connected" ELSE "closed"
  <1> DEFINE more == u.fds + 1
             none == [u EXCEPT !.fd = Invalid]
             new == [u EXCEPT !.fd = "open", !.af = "inet", !.nonblock = FALSE, !.fds = more]
             up == [new EXCEPT !.fd = "connected", !.state = "connected"]
             nb == [up EXCEPT !.nonblock = TRUE]
  <1>1. more \in Nat /\ more > 0
    BY DEF UType
  <1>2. r \in {Out("error", u), Out("error", none), Out("error", new), Out("ok", up),
               Out("ok", nb)}
    BY DEF MinConnect
  <1> HIDE DEF more
  <1>3. none \in UType /\ MinOk(none) /\ none.ctx /\ none.state = "closed"
    <2>1. none \in UType
      BY Members DEF UType
    <2> QED
      BY <2>1 DEF UType, MinOk
  <1>4. new \in UType /\ MinOk(new) /\ new.ctx /\ new.state = "closed"
    <2>1. new \in UType
      BY <1>1, Members, Zenon DEF UType
    <2> QED
      BY <2>1, <1>1 DEF UType, MinOk
  <1>5. /\ up \in UType /\ MinOk(up) /\ up.ctx /\ up.state = "connected"
        /\ nb \in UType /\ MinOk(nb) /\ nb.ctx /\ nb.state = "connected"
    <2>1. up \in UType /\ nb \in UType
      BY <1>1, Members, Zenon DEF UType
    <2> QED
      BY <2>1, <1>1 DEF UType, MinOk
  <1> HIDE DEF none, new, up, nb
  <1> QED
    BY <1>2, <1>3, <1>4, <1>5 DEF Out

LEMMA MinCleanupOk ==
    ASSUME NEW u \in UType, MinOk(u), NEW r \in MinCleanup(u)
    PROVE  r.u \in UType /\ MinOk(r.u) /\ ~r.u.ctx /\ r.res = "ok"
  <1>1. PICK q \in MinClose(u) : r = Out("ok", [q.u EXCEPT !.ctx = FALSE])
    BY DEF MinCleanup
  <1> DEFINE c == q.u
             e == [c EXCEPT !.ctx = FALSE]
  <1>2. c \in UType /\ MinOk(c) /\ c.fd = Invalid
    BY MinCloseOk
  <1>3. r = Out("ok", e)
    BY <1>1
  <1> HIDE DEF c
  <1>4. e \in UType /\ MinOk(e) /\ ~e.ctx
    BY <1>2, Zenon DEF UType, MinOk
  <1> HIDE DEF e
  <1> QED
    BY <1>3, <1>4 DEF Out

--------------------------------------------------------------------------------
(* DTLS over the POSIX transport. *)

LEMMA NoDtlsOk ==
    /\ NoDtls \in DType
    /\ ~NoDtls.ctx /\ NoDtls.sm = "initial" /\ NoDtls.state = "closed"
  <1>1. NoDtls = [ctx |-> FALSE, sm |-> "initial", state |-> "closed", ssl |-> "none",
                  notified |-> FALSE, psk |-> NoDtls.psk]
    BY DEF NoDtls
  <1> DEFINE k == NoDtls.psk
             n == [ctx |-> FALSE, sm |-> "initial", state |-> "closed", ssl |-> "none",
                   notified |-> FALSE, psk |-> k]
  <1>2. k \in PskConfigs
    BY Members
  <1> HIDE DEF k
  <1>3. n \in DType /\ ~n.ctx /\ n.sm = "initial" /\ n.state = "closed"
    BY <1>2, Members DEF DType
  <1> QED
    BY <1>1, <1>3, Zenon DEF k

LEMMA DtlsCreateOk ==
    ASSUME NEW d \in DType, NEW u \in UType, DOk(d, u), ~d.ctx, NEW key \in Psks,
           NEW r \in DtlsCreate(d, u, key)
    PROVE  /\ r.u \in UType /\ r.d \in DType /\ DOk(r.d, r.u) /\ r.res \in {"ok", "error"}
           /\ r.res = "ok" => r.d.ctx /\ r.d.state = "closed"
  <1> DEFINE c == [NoDtls EXCEPT !.ctx = TRUE, !.psk = key]
  <1>1. c \in DType /\ c.ctx /\ c.sm = "initial" /\ c.state = "closed"
    BY NoDtlsOk, Members, Zenon DEF DType
  <1>2. \/ r = Both("error", d, u)
        \/ \E q \in UdpCreate(u) : q.res = "ok" /\ r = Both("ok", c, q.u)
    BY DEF DtlsCreate
  <1> HIDE DEF c
  <1>3. CASE r = Both("error", d, u)
    BY <1>3 DEF Both
  <1>4. ASSUME NEW q \in UdpCreate(u), q.res = "ok", r = Both("ok", c, q.u)
        PROVE  /\ r.u \in UType /\ r.d \in DType /\ DOk(r.d, r.u) /\ r.res \in {"ok", "error"}
               /\ r.res = "ok" => r.d.ctx /\ r.d.state = "closed"
    <2>1. q.u \in UType /\ UOk(q.u) /\ q.u.ctx
      BY <1>4, UdpCreateOk DEF DOk
    <2> QED
      BY <1>1, <1>4, <2>1 DEF Both, DOk
  <1> QED
    BY <1>2, <1>3, <1>4

LEMMA ResetOk ==
    ASSUME NEW d \in DType, NEW u \in UType, UOk(u), d.ctx <=> u.ctx, d.state = "closed"
    PROVE  /\ ResetConfig(d) \in DType /\ DOk(ResetConfig(d), u)
           /\ ResetConfig(d).ctx = d.ctx /\ ResetConfig(d).state = "closed"
  <1>1. ResetConfig(d) \in DType
    BY Members, Zenon DEF ResetConfig, DType
  <1>2. /\ ResetConfig(d).ctx = d.ctx /\ ResetConfig(d).state = d.state
        /\ ResetConfig(d).sm = "initial"
    BY DEF ResetConfig, DType
  <1> QED
    BY <1>1, <1>2 DEF DOk

\* What a call that connects a context leaves: it is in order, and CONNECTED
\* just if the result is ANJ_NET_OK.
DtlsConnected(r) ==
    /\ r.u \in UType /\ r.d \in DType /\ DOk(r.d, r.u) /\ r.d.ctx
    /\ r.res \in {"ok", "inprogress", "error"}
    /\ r.d.state = IF r.res = "ok" THEN "connected" ELSE "closed"

LEMMA HandshakeOk ==
    ASSUME NEW d \in DType, NEW u \in UType, UOk(u), d.ctx, u.ctx, d.state = "closed",
           u.state = "connected", d.sm # "done", NEW r \in Handshake(d, u)
    PROVE  DtlsConnected(r)
  <1> DEFINE e == ResetConfig(d)
             up == [d EXCEPT !.state = "connected", !.sm = "done", !.ssl = "up"]
  <1>1. \/ r \in {Both("error", e, u), Both("inprogress", d, u)}
        \/ u.fd = "connected" /\ r = Both("ok", up, u)
    BY DEF Handshake
  <1>2. e \in DType /\ DOk(e, u) /\ e.ctx /\ e.state = "closed"
    BY ResetOk
  <1>3. up \in DType
    BY Members, Zenon DEF DType
  <1>4. up.ctx /\ up.state = "connected" /\ up.sm = "done" /\ up.ssl = "up"
    BY DEF DType
  <1> HIDE DEF e, up
  <1>5. /\ DOk(d, u)
        /\ u.fd = "connected" => DOk(up, u)
    BY <1>4 DEF DOk, Stale
  <1>6. CASE r = Both("error", e, u)
    BY <1>6, <1>2 DEF Both, DtlsConnected
  <1>7. CASE r = Both("inprogress", d, u)
    BY <1>7, <1>5 DEF Both, DtlsConnected
  <1>8. CASE u.fd = "connected" /\ r = Both("ok", up, u)
    BY <1>8, <1>3, <1>4, <1>5 DEF Both, DtlsConnected
  <1> QED
    BY <1>1, <1>6, <1>7, <1>8

LEMMA ConfiguredOk ==
    ASSUME NEW d \in DType, NEW u \in UType, UOk(u), d.ctx, u.ctx, d.state = "closed",
           u.state = "connected", NEW r \in Configured(d, u)
    PROVE  DtlsConnected(r)
  <1> DEFINE e == ResetConfig(d)
             h == [d EXCEPT !.ssl = "setup", !.sm = "handshaking"]
  <1>1. r = Both("error", e, u) \/ r \in Handshake(h, u)
    BY DEF Configured
  <1>2. e \in DType /\ DOk(e, u) /\ e.ctx /\ e.state = "closed"
    BY ResetOk
  <1>3. h \in DType
    BY Members, Zenon DEF DType
  <1>4. h.ctx /\ h.state = "closed" /\ h.sm = "handshaking"
    BY DEF DType
  <1> HIDE DEF e, h
  <1>5. CASE r = Both("error", e, u)
    BY <1>5, <1>2 DEF Both, DtlsConnected
  <1>6. CASE r \in Handshake(h, u)
    BY <1>6, <1>3, <1>4, HandshakeOk
  <1> QED
    BY <1>1, <1>5, <1>6

LEMMA DtlsConnectOk ==
    ASSUME NEW d \in DType, NEW u \in UType, DOk(d, u), d.ctx, d.state = "closed",
           NEW p, NEW dns, NEW r \in DtlsConnect(d, u, p, dns)
    PROVE  DtlsConnected(r)
  <1> USE DEF DOk
  <1>1. CASE d.sm = "initial"
    <2>1. PICK q \in UdpConnect(u, p, dns) :
             \/ q.res = "inprogress" /\ r = Both("inprogress", d, q.u)
             \/ q.res = "ok" /\ r \in Configured(d, q.u)
             \/ q.res = "error" /\ r = Both("error", d, q.u)
      <3>1. PICK q \in UdpConnect(u, p, dns) :
               r \in CASE q.res = "inprogress" -> {Both("inprogress", d, q.u)}
                       [] q.res = "ok" -> Configured(d, q.u)
                       [] OTHER -> {Both("error", d, q.u)}
        BY <1>1 DEF DtlsConnect
      <3>2. q.res \in {"ok", "inprogress", "error"}
        BY UdpConnectOk
      <3> QED
        BY <3>1, <3>2
    <2>2. /\ q.u \in UType /\ UOk(q.u) /\ q.u.ctx
          /\ q.res = "ok" => q.u.state = "connected"
      BY UdpConnectOk
    <2>3. CASE q.res = "inprogress" /\ r = Both("inprogress", d, q.u)
      BY <1>1, <2>2, <2>3 DEF Both, DtlsConnected
    <2>4. CASE q.res = "ok" /\ r \in Configured(d, q.u)
      BY <2>2, <2>4, ConfiguredOk
    <2>5. CASE q.res = "error" /\ r = Both("error", d, q.u)
      BY <1>1, <2>2, <2>5 DEF Both, DtlsConnected
    <2> QED
      BY <2>1, <2>3, <2>4, <2>5
  <1>2. CASE d.sm = "handshaking"
    BY <1>2, HandshakeOk DEF DtlsConnect
  <1>3. CASE d.sm = "done"
    <2>1. PICK q \in UdpConnect(u, p, dns) : r = Reconnected(d, q)
      BY <1>3 DEF DtlsConnect
    <2>2. /\ q.u \in UType /\ UOk(q.u) /\ q.u.ctx /\ q.res \in {"ok", "inprogress", "error"}
          /\ q.res = "ok" => q.u.state = "connected" /\ q.u.fd # Stale
      BY UdpConnectOk DEF Stale
    <2> DEFINE up == [d EXCEPT !.state = "connected"]
    <2>3. /\ q.res = "inprogress" => r = Both("inprogress", d, q.u)
          /\ q.res = "ok" => r = Both("ok", up, q.u)
          /\ q.res = "error" => r = Both("error", d, q.u)
      BY <2>1 DEF Reconnected
    <2>4. /\ up \in DType /\ up.ctx /\ up.state = "connected" /\ up.sm = "done"
          /\ up.ssl = "up"
      BY <1>3, Members DEF DType
    <2> HIDE DEF up
    <2>5. CASE q.res = "ok"
      BY <2>2, <2>3, <2>4, <2>5 DEF Both, DtlsConnected
    <2>6. CASE q.res # "ok"
      BY <1>3, <2>2, <2>3, <2>6 DEF Both, DtlsConnected
    <2> QED
      BY <2>5, <2>6
  <1> QED
    BY <1>1, <1>2, <1>3 DEF DType, Machine

LEMMA DtlsSendOk ==
    ASSUME NEW d, NEW u, NEW r \in DtlsSend(d, u)
    PROVE  r.d = d /\ r.u = u /\ r.res \in {"ok", "inprogress", "error"}
  BY DEF DtlsSend, Both

LEMMA DtlsRecvOk ==
    ASSUME NEW d, NEW u, NEW datagram, NEW r \in DtlsRecv(d, u, datagram)
    PROVE  r.d = d /\ r.u = u /\ r.res \in Results
  BY DEF DtlsRecv, Both, Results

LEMMA DtlsCloseOk ==
    ASSUME NEW d \in DType, NEW u \in UType, DOk(d, u), d.state = "connected",
           NEW r \in DtlsClose(d, u)
    PROVE  /\ r.u \in UType /\ r.d \in DType /\ DOk(r.d, r.u)
           /\ r.d.ctx /\ r.d.state = "closed" /\ r.res \in {"ok", "error"}
  <1> DEFINE c == [d EXCEPT !.state = "closed"]
  <1>1. PICK q \in UdpClose(u) : r = Both(q.res, c, q.u)
    BY DEF DtlsClose
  <1>2. q.u \in UType /\ UOk(q.u) /\ q.u.ctx = u.ctx /\ q.res \in {"ok", "error"}
    BY UdpCloseOk DEF DOk
  <1>3. c \in DType
    BY Members DEF DType
  <1>4. c.ctx = d.ctx /\ c.state = "closed" /\ c.sm = d.sm /\ c.ssl = d.ssl
    BY DEF DType
  <1> HIDE DEF c
  <1> QED
    BY <1>1, <1>2, <1>3, <1>4 DEF Both, DOk

LEMMA DtlsCleanupOk ==
    ASSUME NEW d \in DType, NEW u \in UType, DOk(d, u), NEW r \in DtlsCleanup(d, u)
    PROVE  /\ r.u \in UType /\ r.d \in DType /\ DOk(r.d, r.u)
           /\ r.res \in {"ok", "inprogress", "error"}
           /\ r.res # "inprogress" => ~r.d.ctx
           /\ r.res = "inprogress" => r.d.ctx = d.ctx /\ r.d.state = d.state
  <1> DEFINE begun == [d EXCEPT !.sm = "initial"]
             told == [begun EXCEPT !.notified = TRUE]
  <1>1. \/ r = Both("inprogress", begun, u)
        \/ r \in Released(told, u)
        \/ r \in Released(begun, u)
    BY DEF DtlsCleanup, CloseNotify
  <1>2. /\ begun \in DType /\ begun.ctx = d.ctx /\ begun.state = d.state
        /\ begun.sm = "initial" /\ begun.ssl = d.ssl
    BY Members DEF DType
  <1> HIDE DEF begun, told
  <1>3. CASE r = Both("inprogress", begun, u)
    BY <1>2, <1>3 DEF Both, DOk
  <1>4. ASSUME NEW e, r \in Released(e, u)
        PROVE  /\ r.u \in UType /\ r.d = NoDtls /\ DOk(r.d, r.u) /\ r.res \in {"ok", "error"}
    <2>1. PICK q \in UdpCleanup(u) :
             r = IF q.res = "inprogress" THEN Both("inprogress", e, q.u)
                 ELSE Both(q.res, NoDtls, q.u)
      BY <1>4 DEF Released
    <2>2. q.u \in UType /\ UOk(q.u) /\ ~q.u.ctx /\ q.res \in {"ok", "error"}
      BY UdpCleanupOk DEF DOk
    <2>3. r = Both(q.res, NoDtls, q.u)
      BY <2>1, <2>2
    <2>4. q.u.ctx = FALSE /\ NoDtls.ctx = FALSE
      BY <2>2, NoDtlsOk DEF UType, DType
    <2> QED
      BY <2>2, <2>3, <2>4, NoDtlsOk DEF Both, DOk
  <1> QED
    BY <1>1, <1>3, <1>4, NoDtlsOk

--------------------------------------------------------------------------------
(* All of them: what the calls of srv_conn.c come to, whichever the transport. *)

TransportOk(tt) == tt \in TType /\ TOk(tt)

LEMMA LiftUOk ==
    ASSUME t \in TType, NEW outs, NEW r \in LiftU(outs)
    PROVE  \E q \in outs : /\ r.res = q.res
                           /\ q.u \in UType => r.t \in TType /\ r.t.u = q.u
                           /\ q.u = t.u => r.t = t
  <1>1. PICK q \in outs : r = [res |-> q.res, t |-> [t EXCEPT !.u = q.u]]
    BY DEF LiftU
  <1> QED
    BY <1>1 DEF TType

LEMMA LiftDOk ==
    ASSUME t \in TType, NEW outs, NEW r \in LiftD(outs)
    PROVE  \E q \in outs : /\ r.res = q.res
                           /\ q.u \in UType /\ q.d \in DType =>
                                 r.t \in TType /\ r.t.u = q.u /\ r.t.d = q.d
                           /\ q.u = t.u /\ q.d = t.d => r.t = t
  <1>1. PICK q \in outs : r = [res |-> q.res, t |-> [t EXCEPT !.u = q.u, !.d = q.d]]
    BY Zenon DEF LiftD
  <1> QED
    BY <1>1, Zenon DEF TType

LEMMA LiftNOk ==
    ASSUME t \in TType, NEW outs, NEW r \in LiftN(outs)
    PROVE  \E q \in outs : /\ r.res = q[1]
                           /\ q[2] \in SocketStates =>
                                 r.t \in TType /\ r.t.n = q[2] /\ r.t.u = t.u
                           /\ q[2] = t.n => r.t = t
  <1>1. PICK q \in outs : r = [res |-> q[1], t |-> [t EXCEPT !.n = q[2]]]
    BY DEF LiftN
  <1> QED
    BY <1>1 DEF TType

LEMMA BindingCases ==
    ASSUME binding \in Bindings
    PROVE  binding \in {"posix", "minimal", "dtls", "non_ip"}
  BY NetAssumption

LEMMA CreateOk ==
    ASSUME binding \in Bindings, psk \in Psks, TransportOk(t), NetState(t) = "none",
           NEW r \in NetCreate
    PROVE  /\ TransportOk(r.t) /\ r.res \in {"ok", "error"}
           /\ r.res = "ok" => NetState(r.t) = "closed"
  <1> USE DEF TransportOk
  <1>0. t.u \in UType /\ t.d \in DType
    BY DEF TType
  <1>1. CASE binding = "posix"
    <2>1. r \in LiftU(UdpCreate(t.u)) /\ UOk(t.u) /\ ~t.u.ctx
      BY <1>1, <1>0 DEF NetCreate, NetState, TOk, UType, States
    <2>2. t.u.state = "closed"
      BY <2>1, <1>0 DEF UOk, Invalid, Stale, UType, States
    <2>3. PICK q \in UdpCreate(t.u) : /\ r.res = q.res
                                      /\ q.u \in UType => r.t \in TType /\ r.t.u = q.u
      BY <2>1, LiftUOk
    <2>4. /\ q.u \in UType /\ UOk(q.u) /\ q.res \in {"ok", "error"}
          /\ q.res = "ok" => q.u.ctx /\ q.u.state = t.u.state
      BY <2>1, <1>0, UdpCreateOk
    <2> QED
      BY <1>1, <2>2, <2>3, <2>4 DEF TOk, NetState
  <1>2. CASE binding = "minimal"
    <2>1. r \in LiftU(MinCreate(t.u)) /\ MinOk(t.u) /\ ~t.u.ctx
      BY <1>2, <1>0 DEF NetCreate, NetState, TOk, UType, States
    <2>2. t.u.state = "closed"
      BY <2>1, <1>0 DEF MinOk, Invalid, UType, States
    <2>3. PICK q \in MinCreate(t.u) : /\ r.res = q.res
                                      /\ q.u \in UType => r.t \in TType /\ r.t.u = q.u
      BY <2>1, LiftUOk
    <2>4. /\ q.u \in UType /\ MinOk(q.u) /\ q.res \in {"ok", "error"}
          /\ q.res = "ok" => q.u.ctx /\ q.u.state = t.u.state
      BY <2>1, <1>0, MinCreateOk
    <2> QED
      BY <1>2, <2>2, <2>3, <2>4 DEF TOk, NetState
  <1>3. CASE binding = "dtls"
    <2>1. r \in LiftD(DtlsCreate(t.d, t.u, psk)) /\ DOk(t.d, t.u) /\ ~t.d.ctx
      BY <1>3, <1>0 DEF NetCreate, NetState, TOk, DType, States
    <2>2. PICK q \in DtlsCreate(t.d, t.u, psk) :
             /\ r.res = q.res
             /\ q.u \in UType /\ q.d \in DType => r.t \in TType /\ r.t.u = q.u /\ r.t.d = q.d
      BY <2>1, LiftDOk
    <2>3. /\ q.u \in UType /\ q.d \in DType /\ DOk(q.d, q.u) /\ q.res \in {"ok", "error"}
          /\ q.res = "ok" => q.d.ctx /\ q.d.state = "closed"
      BY <2>1, <1>0, DtlsCreateOk
    <2> QED
      BY <1>3, <2>2, <2>3 DEF TOk, NetState
  <1>4. CASE binding = "non_ip"
    <2>1. r \in LiftN({<<"ok", "closed">>, <<"error", "none">>})
      BY <1>4 DEF NetCreate
    <2>2. PICK q \in {<<"ok", "closed">>, <<"error", "none">>} :
             /\ r.res = q[1]
             /\ q[2] \in SocketStates => r.t \in TType /\ r.t.n = q[2] /\ r.t.u = t.u
      BY <2>1, LiftNOk
    <2> QED
      BY <1>4, <2>2, Members DEF TOk, NetState
  <1> QED
    BY <1>1, <1>2, <1>3, <1>4, BindingCases

LEMMA ConnectOk ==
    ASSUME binding \in Bindings, TransportOk(t),
           NEW tt, TransportOk(tt), NetState(tt) \in States,
           binding # "posix" => NetState(tt) = "closed",
           NEW dns, NEW r \in NetConnect(tt, dns)
    PROVE  /\ TransportOk(r.t) /\ r.res \in {"ok", "inprogress", "error"}
           /\ r.res = "ok" => NetState(r.t) = "connected"
           /\ r.res = "inprogress" => NetState(r.t) = NetState(tt)
           /\ r.res = "error" => NetState(r.t) \in {"closed", NetState(tt)}
  <1> USE DEF TransportOk
  <1>0. tt.u \in UType /\ tt.d \in DType
    BY DEF TType
  <1>1. CASE binding = "posix"
    <2>1. r \in LiftU(UdpConnect(tt.u, port, dns)) /\ UOk(tt.u)
      BY <1>1 DEF NetConnect, TOk
    <2>2. tt.u.ctx /\ NetState(tt) = tt.u.state
      BY <1>1 DEF NetState, States
    <2>3. PICK q \in UdpConnect(tt.u, port, dns) :
             r.res = q.res /\ (q.u \in UType => r.t \in TType /\ r.t.u = q.u)
      BY <2>1, LiftUOk
    <2>4. /\ q.u \in UType /\ UOk(q.u) /\ q.u.ctx /\ q.res \in {"ok", "inprogress", "error"}
          /\ q.res = "ok" => q.u.state = "connected"
          /\ q.res = "inprogress" => q.u.state = tt.u.state
          /\ q.res = "error" => q.u.state \in {"closed", tt.u.state}
      BY <1>0, <2>1, <2>2, UdpConnectOk
    <2> QED
      BY <1>1, <2>2, <2>3, <2>4 DEF TOk, NetState
  <1>2. CASE binding = "minimal"
    <2>1. r \in LiftU(MinConnect(tt.u, port, dns)) /\ MinOk(tt.u)
      BY <1>2 DEF NetConnect, TOk
    <2>2. tt.u.ctx /\ tt.u.state = "closed"
      BY <1>2 DEF NetState
    <2>3. PICK q \in MinConnect(tt.u, port, dns) :
             r.res = q.res /\ (q.u \in UType => r.t \in TType /\ r.t.u = q.u)
      BY <2>1, LiftUOk
    <2>4. /\ q.u \in UType /\ MinOk(q.u) /\ q.u.ctx /\ q.res \in {"ok", "error"}
          /\ q.u.state = IF q.res = "ok" THEN "connected" ELSE "closed"
      BY <1>0, <2>1, <2>2, MinConnectOk
    <2> QED
      BY <1>2, <2>3, <2>4 DEF TOk, NetState
  <1>3. CASE binding = "dtls"
    <2>1. r \in LiftD(DtlsConnect(tt.d, tt.u, port, dns)) /\ DOk(tt.d, tt.u)
      BY <1>3 DEF NetConnect, TOk
    <2>2. tt.d.ctx /\ tt.d.state = "closed"
      BY <1>3 DEF NetState
    <2>3. PICK q \in DtlsConnect(tt.d, tt.u, port, dns) :
             /\ r.res = q.res
             /\ q.u \in UType /\ q.d \in DType => r.t \in TType /\ r.t.u = q.u /\ r.t.d = q.d
      BY <2>1, LiftDOk
    <2>4. DtlsConnected(q)
      BY <1>0, <2>1, <2>2, DtlsConnectOk
    <2> QED
      BY <1>3, <2>3, <2>4 DEF TOk, NetState, DtlsConnected
  <1>4. CASE binding = "non_ip"
    <2> DEFINE outs == {<<"ok", "connected">>, <<"error", "closed">>, <<"inprogress", "closed">>}
    <2>1. r \in LiftN(outs)
      BY <1>4 DEF NetConnect
    <2>2. PICK q \in outs :
             /\ r.res = q[1]
             /\ q[2] \in SocketStates => r.t \in TType /\ r.t.n = q[2] /\ r.t.u = t.u
      BY <2>1, LiftNOk
    <2> QED
      BY <1>4, <2>2, Members DEF TOk, NetState
  <1> QED
    BY <1>1, <1>2, <1>3, <1>4, BindingCases

LEMMA SendOk ==
    ASSUME binding \in Bindings, t \in TType, NEW r \in NetSend
    PROVE  r.t = t /\ r.res \in {"ok", "inprogress", "emsgsize", "error"}
  <1>1. CASE binding = "posix"
    BY <1>1, LiftUOk, UdpSendOk DEF NetSend
  <1>2. CASE binding = "minimal"
    <2>1. \A q \in MinSend(t.u) : q.u = t.u /\ q.res \in {"ok", "inprogress", "error"}
      BY DEF MinSend, Out
    <2> QED
      BY <1>2, <2>1, LiftUOk DEF NetSend
  <1>3. CASE binding = "dtls"
    BY <1>3, LiftDOk, DtlsSendOk DEF NetSend
  <1>4. CASE binding = "non_ip"
    <2> DEFINE outs == {"ok", "inprogress", "emsgsize", "error"} \X {t.n}
    <2>1. PICK q \in outs : r.res = q[1] /\ (q[2] = t.n => r.t = t)
      BY <1>4, LiftNOk DEF NetSend
    <2> QED
      BY <2>1
  <1> QED
    BY <1>1, <1>2, <1>3, <1>4, BindingCases

LEMMA RecvOk ==
    ASSUME binding \in Bindings, t \in TType, NEW datagram \in Datagrams,
           NEW r \in NetRecv(datagram)
    PROVE  /\ r.t = t /\ r.res \in Results
           /\ binding \in {"posix", "minimal"} /\ r.res = "ok" => ~(datagram > BufferSize)
  <1>1. CASE binding = "posix"
    <2>1. datagram > BufferSize => datagram # Nothing /\ Fills(datagram, BufferSize)
      BY NetAssumption DEF Nothing, Fills
    <2>2. \A q \in UdpRecv(t.u, datagram, BufferSize) :
             q.u = t.u /\ q.res \in Results /\ (q.res = "ok" => ~(datagram > BufferSize))
      BY <2>1 DEF UdpRecv, Out, Results
    <2> QED
      BY <1>1, <2>2, LiftUOk DEF NetRecv
  <1>2. CASE binding = "minimal"
    <2>1. datagram > BufferSize => datagram # Nothing /\ datagram >= BufferSize
      BY NetAssumption DEF Nothing
    <2>2. \A q \in MinRecv(t.u, datagram, BufferSize) :
             q.u = t.u /\ q.res \in Results /\ (q.res = "ok" => ~(datagram > BufferSize))
      BY <2>1 DEF MinRecv, Out, Results
    <2> QED
      BY <1>2, <2>2, LiftUOk DEF NetRecv
  <1>3. CASE binding = "dtls"
    BY <1>3, LiftDOk, DtlsRecvOk DEF NetRecv
  <1>4. CASE binding = "non_ip"
    <2>1. PICK q \in Results \X {t.n} : r.res = q[1] /\ (q[2] = t.n => r.t = t)
      BY <1>4, LiftNOk DEF NetRecv
    <2> QED
      BY <1>4, <2>1
  <1> QED
    BY <1>1, <1>2, <1>3, <1>4, BindingCases

LEMMA CloseOk ==
    ASSUME binding \in Bindings, TransportOk(t), NetState(t) = "connected", NEW r \in NetClose
    PROVE  /\ TransportOk(r.t) /\ r.res \in {"ok", "error", "inprogress"}
           /\ r.res = "inprogress" => NetState(r.t) = NetState(t)
           /\ r.res = "ok" => NetState(r.t) = "closed"
           /\ r.res = "error" => NetState(r.t) \in {"closed", NetState(t)}
           /\ binding # "posix" /\ r.res # "inprogress" => NetState(r.t) = "closed"
  <1> USE DEF TransportOk
  <1>0. t.u \in UType /\ t.d \in DType /\ t.n \in SocketStates
    BY DEF TType
  <1>1. CASE binding = "posix"
    <2>1. t.u.ctx /\ t.u.state = "connected" /\ UOk(t.u)
      BY <1>1 DEF NetState, TOk
    <2>2. PICK q \in UdpClose(t.u) :
             r.res = q.res /\ (q.u \in UType => r.t \in TType /\ r.t.u = q.u)
      BY <1>1, LiftUOk DEF NetClose
    <2>3. /\ q.u \in UType /\ UOk(q.u) /\ q.u.ctx /\ q.res \in {"ok", "error"}
          /\ q.res = "ok" => q.u.state = "closed"
          /\ q.res = "error" => q.u.state = t.u.state
      BY <1>0, <2>1, UdpCloseOk
    <2> QED
      BY <1>1, <2>2, <2>3 DEF TOk, NetState
  <1>2. CASE binding = "minimal"
    <2>1. t.u.ctx /\ MinOk(t.u)
      BY <1>2 DEF NetState, TOk
    <2>2. PICK q \in MinClose(t.u) :
             r.res = q.res /\ (q.u \in UType => r.t \in TType /\ r.t.u = q.u)
      BY <1>2, LiftUOk DEF NetClose
    <2>3. q.u \in UType /\ MinOk(q.u) /\ q.u.ctx /\ q.u.state = "closed" /\ q.res = "ok"
      BY <1>0, <2>1, MinCloseOk
    <2> QED
      BY <1>2, <2>2, <2>3 DEF TOk, NetState
  <1>3. CASE binding = "dtls"
    <2>1. t.d.ctx /\ t.d.state = "connected" /\ DOk(t.d, t.u)
      BY <1>3 DEF NetState, TOk
    <2>2. PICK q \in DtlsClose(t.d, t.u) :
             /\ r.res = q.res
             /\ q.u \in UType /\ q.d \in DType => r.t \in TType /\ r.t.u = q.u /\ r.t.d = q.d
      BY <1>3, LiftDOk DEF NetClose
    <2>3. /\ q.u \in UType /\ q.d \in DType /\ DOk(q.d, q.u)
          /\ q.d.ctx /\ q.d.state = "closed" /\ q.res \in {"ok", "error"}
      BY <1>0, <2>1, DtlsCloseOk
    <2> QED
      BY <1>3, <2>2, <2>3 DEF TOk, NetState
  <1>4. CASE binding = "non_ip"
    <2>1. PICK q \in {<<"ok", "closed">>, <<"error", "closed">>, <<"inprogress", t.n>>} :
             /\ r.res = q[1]
             /\ q[2] \in SocketStates => r.t \in TType /\ r.t.n = q[2] /\ r.t.u = t.u
      BY <1>4, LiftNOk DEF NetClose
    <2> QED
      BY <1>0, <1>4, <2>1, Members DEF TOk, NetState
  <1> QED
    BY <1>1, <1>2, <1>3, <1>4, BindingCases

LEMMA CleanupOk ==
    ASSUME binding \in Bindings, TransportOk(t), NetState(t) # "none", NEW r \in NetCleanup
    PROVE  /\ TransportOk(r.t) /\ r.res \in {"ok", "error", "inprogress"}
           /\ r.res = "inprogress" => NetState(r.t) = NetState(t)
           /\ r.res # "inprogress" => NetState(r.t) = "none"
  <1> USE DEF TransportOk
  <1>0. t.u \in UType /\ t.d \in DType /\ t.n \in SocketStates
    BY DEF TType
  <1>1. CASE binding = "posix"
    <2>1. UOk(t.u)
      BY <1>1 DEF TOk
    <2>2. PICK q \in UdpCleanup(t.u) :
             r.res = q.res /\ (q.u \in UType => r.t \in TType /\ r.t.u = q.u)
      BY <1>1, LiftUOk DEF NetCleanup
    <2>3. q.u \in UType /\ UOk(q.u) /\ ~q.u.ctx /\ q.res \in {"ok", "error"}
      BY <1>0, <2>1, UdpCleanupOk
    <2> QED
      BY <1>1, <2>2, <2>3 DEF TOk, NetState
  <1>2. CASE binding = "minimal"
    <2>1. MinOk(t.u)
      BY <1>2 DEF TOk
    <2>2. PICK q \in MinCleanup(t.u) :
             r.res = q.res /\ (q.u \in UType => r.t \in TType /\ r.t.u = q.u)
      BY <1>2, LiftUOk DEF NetCleanup
    <2>3. q.u \in UType /\ MinOk(q.u) /\ ~q.u.ctx /\ q.res = "ok"
      BY <1>0, <2>1, MinCleanupOk
    <2> QED
      BY <1>2, <2>2, <2>3 DEF TOk, NetState
  <1>3. CASE binding = "dtls"
    <2>1. DOk(t.d, t.u) /\ t.d.ctx
      BY <1>3 DEF TOk, NetState
    <2>2. PICK q \in DtlsCleanup(t.d, t.u) :
             /\ r.res = q.res
             /\ q.u \in UType /\ q.d \in DType => r.t \in TType /\ r.t.u = q.u /\ r.t.d = q.d
      BY <1>3, LiftDOk DEF NetCleanup
    <2>3. /\ q.u \in UType /\ q.d \in DType /\ DOk(q.d, q.u)
          /\ q.res \in {"ok", "inprogress", "error"}
          /\ q.res # "inprogress" => ~q.d.ctx
          /\ q.res = "inprogress" => q.d.ctx = t.d.ctx /\ q.d.state = t.d.state
      BY <1>0, <2>1, DtlsCleanupOk, Zenon
    <2> QED
      BY <1>3, <2>1, <2>2, <2>3, Zenon DEF TOk, NetState
  <1>4. CASE binding = "non_ip"
    <2>1. PICK q \in {<<"ok", "none">>, <<"error", "none">>, <<"inprogress", t.n>>} :
             /\ r.res = q[1]
             /\ q[2] \in SocketStates => r.t \in TType /\ r.t.n = q[2] /\ r.t.u = t.u
      BY <1>4, LiftNOk DEF NetCleanup
    <2> QED
      BY <1>0, <1>4, <2>1, Members DEF TOk, NetState
  <1> QED
    BY <1>1, <1>2, <1>3, <1>4, BindingCases

\* The MTU of a connection is a number, and leaves room for the headers.
LEMMA MtuOk ==
    ASSUME binding \in Bindings, NEW tt, TransportOk(tt), NEW path \in PathMtus
    PROVE  /\ NetMtu(tt, path) \in Int
           /\ /\ AfSetting = "force6" => "inet6" \in Families
              /\ binding \in {"posix", "dtls"} /\ NetMtu(tt, path) > 0
              => FitsPath(NetMtu(tt, path), tt.u)
  <1> USE DEF TransportOk
  <1>1. path \in Int /\ DtlsOverhead \in Nat
    BY PosixAssumption, DtlsAssumption
  <1> DEFINE inner == InnerMtu(tt.u, path)
  <1>2. inner \in Nat /\ MinMtu \in Int
    BY <1>1 DEF InnerMtu, UdpOverhead, FallbackMtu, MinMtu
  <1>3. ASSUME AfSetting = "force6" => "inet6" \in Families, binding \in {"posix", "dtls"},
               inner > 0
        PROVE  \E way \in PathMtus \cup {576, 1280} :
                  way >= 0 /\ inner + UdpOverhead(tt.u.af) = way
    <2>1. BuiltIn(tt.u.af)
      BY <1>3 DEF TOk, DOk, UOk
    <2>2. tt.u.af = "inet6" => "inet6" \in Families
      BY <1>3, <2>1 DEF BuiltIn
    <2>3. CASE tt.u.fd # Invalid /\ tt.u.af \in Families /\ path >= 0
      BY <1>1, <1>3, <2>3 DEF InnerMtu, UdpOverhead
    <2>4. CASE ~(tt.u.fd # Invalid /\ tt.u.af \in Families /\ path >= 0)
      BY <2>2, <2>4 DEF InnerMtu, FallbackMtu, UdpOverhead
    <2> QED
      BY <2>3, <2>4
  <1> HIDE DEF inner
  <1>4. /\ binding = "posix" => NetMtu(tt, path) = inner
        /\ binding = "dtls" =>
              NetMtu(tt, path) = IF inner <= DtlsOverhead THEN 0 ELSE inner - DtlsOverhead
    BY DEF NetMtu, DtlsMtu, inner
  <1>5. NetMtu(tt, path) \in Int
    BY <1>1, <1>2, <1>4, BindingCases DEF NetMtu
  <1>6. ASSUME AfSetting = "force6" => "inet6" \in Families, binding \in {"posix", "dtls"},
               NetMtu(tt, path) > 0
        PROVE  FitsPath(NetMtu(tt, path), tt.u)
    <2>1. inner > 0
      BY <1>1, <1>2, <1>4, <1>6
    <2>2. PICK way \in PathMtus \cup {576, 1280} :
             way >= 0 /\ inner + UdpOverhead(tt.u.af) = way
      BY <1>3, <1>6, <2>1
    <2>3. NetMtu(tt, path) + UdpOverhead(tt.u.af)
             + (IF binding = "dtls" THEN DtlsOverhead ELSE 0) = way
      BY <1>1, <1>2, <1>4, <1>6, <2>2 DEF UdpOverhead
    <2> QED
      BY <2>2, <2>3 DEF FitsPath
  <1> QED
    BY <1>5, <1>6

--------------------------------------------------------------------------------
(* The inductive invariant. *)

ConnType == [bytesSent : 0..(MsgLength - 1), sending : BOOLEAN, mtu : Int]

NetTypes ==
    /\ binding \in Bindings /\ psk \in Psks /\ port \in Ports
    /\ TransportOk(t)
    /\ conn \in ConnType
    /\ phase \in {"down", "connecting", "up"} \cup Leaving
    /\ wire \in Seq(Nat) /\ Len(wire) <= MsgLength
    /\ last \in [call : Calls, res : Results]

\* A caller that sends or receives has a connection; one that is about to get one
\* does not, unless a close() has failed, and has nothing left of a message.
PhaseInv ==
    /\ phase = "up" => NetState(t) = "connected" /\ conn.mtu > 0
    /\ phase \in {"down", "connecting"} => ~conn.sending
    /\ phase \in {"down", "connecting"} /\ binding # "posix" => NetState(t) # "connected"
    /\ phase \in {"down", "connecting", "up"} /\ ~conn.sending => conn.bytesSent = 0
    /\ phase = "up" /\ conn.sending => wire = Bytes(0, conn.bytesSent)

\* The call that is in progress is the one that the caller goes on with.
ProgressInv ==
    last.res = "inprogress" =>
       /\ phase \in {"down", "connecting"} => last.call = "connect"
       /\ phase = "up" => last.call \in {"recv", "send", "rx_off"}
       /\ phase = "up" /\ last.call = "send" => conn.sending
       /\ phase = "closing" => last.call # "cleanup"
       /\ phase \in Leaving /\ NetState(t) = "closed" => last.call \in {"connect", "cleanup"}
       /\ NetState(t) # "none"

NetInv == NetTypes /\ PhaseInv /\ ProgressInv /\ CutReported

--------------------------------------------------------------------------------
(* The steps: each keeps the invariant, is one of the contract, and is one    *)
(* that MessageWhole allows.                                                  *)

ContractStep == [Contract!Next]_(Contract!vars)

WholeStep ==
    /\ last'.call = "send" /\ last'.res = "ok" /\ ~conn'.sending /\ wire' # wire
          => wire' = Bytes(0, MsgLength)
    /\ (AfSetting = "force6" => "inet6" \in Families) =>
       (phase = "connecting" /\ phase' = "up" /\ binding \in {"posix", "dtls"}
          => FitsPath(conn'.mtu, t'.u))

StepOk == NetInv' /\ ContractStep /\ WholeStep

LEMMA SamePlace ==
    ASSUME UNCHANGED config, NEW tt, t' = tt
    PROVE  /\ NetState(t)' = NetState(tt)
           /\ TransportOk(tt) => TransportOk(t)'
  <1>1. binding' = binding
    BY DEF config
  <1>2. NetState(t)' = NetState(tt)
    BY <1>1 DEF NetState
  <1>3. TransportOk(tt) => TransportOk(t)'
    BY <1>1 DEF TransportOk, TOk
  <1> QED
    BY <1>2, <1>3

LEMMA SameTransport ==
    ASSUME UNCHANGED config, t' = t
    PROVE  /\ NetState(t)' = NetState(t)
           /\ TransportOk(t) => TransportOk(t)'
  BY DEF config, NetState, TransportOk, TOk

LEMMA StartOk ==
    ASSUME NetInv, Start
    PROVE  StepOk
  <1> USE DEF NetInv, Start
  <1>1. NetState(t)' = NetState(t) /\ TransportOk(t)'
    BY SameTransport DEF NetTypes
  <1>2. NetTypes'
    BY <1>1 DEF NetTypes, config
  <1>3. PhaseInv' /\ ProgressInv' /\ CutReported'
    BY <1>1 DEF PhaseInv, ProgressInv, CutReported, config, Leaving
  <1>4. ContractStep /\ WholeStep
    BY <1>1 DEF ContractStep, WholeStep, Contract!vars
  <1> QED
    BY <1>2, <1>3, <1>4 DEF StepOk

LEMMA LeaveOk ==
    ASSUME NetInv, Leave
    PROVE  StepOk
  <1> USE DEF NetInv, Leave
  <1>1. NetState(t)' = NetState(t) /\ TransportOk(t)'
    BY SameTransport DEF NetTypes
  <1>2. NetTypes'
    BY <1>1 DEF NetTypes, config
  <1>3. PhaseInv' /\ ProgressInv' /\ CutReported'
    BY <1>1 DEF PhaseInv, ProgressInv, CutReported, config, Leaving
  <1>4. ContractStep /\ WholeStep
    BY <1>1 DEF ContractStep, WholeStep, Contract!vars, Leaving
  <1> QED
    BY <1>2, <1>3, <1>4 DEF StepOk

LEMMA ContractCall ==
    ASSUME NEW call \in Calls, NEW res \in Results, Contract!Allowed(call, res),
           NetState(t)' \in Contract!After(call, res), Called(call, res)
    PROVE  ContractStep
  BY DEF ContractStep, Contract!Next, Contract!Call, Called

LEMMA NetStates ==
    ASSUME TransportOk(t)
    PROVE  NetState(t) \in {"none", "closed", "connected"}
  <1>1. t.u \in UType /\ t.d \in DType /\ t.n \in SocketStates
    BY DEF TransportOk, TType
  <1>2. t.u.state \in States /\ t.d.state \in States
    BY <1>1 DEF UType, DType
  <1> QED
    BY <1>1, <1>2 DEF NetState, States, SocketStates

LEMMA ReceiveOk ==
    ASSUME NetInv, Receive
    PROVE  StepOk
  <1> USE DEF NetInv
  <1>0. PICK datagram \in Datagrams : \E r \in NetRecv(datagram) :
           /\ t' = r.t /\ Called("recv", r.res)
           /\ got' = IF r.res = "ok" /\ datagram > BufferSize THEN "part" ELSE "whole"
           /\ IF r.res = "error" THEN phase' \in Leaving ELSE UNCHANGED phase
    BY DEF Receive
  <1>1. PICK r \in NetRecv(datagram) :
           /\ t' = r.t /\ Called("recv", r.res)
           /\ got' = IF r.res = "ok" /\ datagram > BufferSize THEN "part" ELSE "whole"
           /\ IF r.res = "error" THEN phase' \in Leaving ELSE UNCHANGED phase
    BY <1>0
  <1>2. /\ phase = "up" /\ ~conn.sending /\ ~SwitchingOff
        /\ UNCHANGED <<config, conn, wire>>
    BY DEF Receive
  <1>3. /\ t' = t /\ r.res \in Results
        /\ binding \in {"posix", "minimal"} /\ r.res = "ok" => ~(datagram > BufferSize)
    BY <1>1, RecvOk DEF NetTypes, TransportOk
  <1>4. NetState(t)' = NetState(t) /\ TransportOk(t)'
    BY <1>2, <1>3, SameTransport DEF NetTypes
  <1>5. last' = [call |-> "recv", res |-> r.res] /\ "recv" \in Calls
    BY <1>1 DEF Called, Calls
  <1>6. NetTypes'
    BY <1>1, <1>2, <1>3, <1>4, <1>5 DEF NetTypes, config
  <1>7. PhaseInv' /\ ProgressInv'
    BY <1>1, <1>2, <1>4, <1>5 DEF PhaseInv, ProgressInv, Leaving
  <1>8. CutReported'
    BY <1>1, <1>2, <1>3 DEF CutReported, config
  <1>9. NetState(t) = "connected"
    BY <1>2 DEF PhaseInv
  <1>10. ContractStep
    <2>1. Contract!Allowed("recv", r.res)
      BY <1>2, <1>9 DEF Contract!Allowed, ProgressInv, SwitchingOff
    <2>2. NetState(t)' \in Contract!After("recv", r.res)
      BY <1>4 DEF Contract!After
    <2> QED
      BY <1>1, <1>3, <1>5, <2>1, <2>2, ContractCall
  <1>11. WholeStep
    BY <1>2, <1>5 DEF WholeStep
  <1> QED
    BY <1>6, <1>7, <1>8, <1>10, <1>11 DEF StepOk

LEMMA RxOffOk ==
    ASSUME NetInv, RxOff
    PROVE  StepOk
  <1> USE DEF NetInv
  <1>1. PICK res \in NetRxOff :
           /\ Called("rx_off", res)
           /\ IF res = "error" THEN phase' \in Leaving ELSE UNCHANGED phase
    BY DEF RxOff
  <1>2. /\ phase = "up" /\ ~conn.sending
        /\ UNCHANGED <<config, t, conn, wire, got>>
    BY DEF RxOff
  <1>3. res \in {"ok", "inprogress", "error"} /\ res \in Results /\ "rx_off" \in Calls
    BY DEF NetRxOff, Results, Calls
  <1>4. NetState(t)' = NetState(t) /\ TransportOk(t)'
    BY <1>2, SameTransport DEF NetTypes
  <1>5. last' = [call |-> "rx_off", res |-> res]
    BY <1>1 DEF Called
  <1>6. NetTypes'
    BY <1>1, <1>2, <1>3, <1>4, <1>5 DEF NetTypes, config
  <1>7. PhaseInv' /\ ProgressInv' /\ CutReported'
    BY <1>1, <1>2, <1>4, <1>5 DEF PhaseInv, ProgressInv, CutReported, config, Leaving
  <1>8. NetState(t) = "connected"
    BY <1>2 DEF PhaseInv
  <1>9. ContractStep
    <2>1. Contract!Allowed("rx_off", res)
      BY <1>2, <1>3, <1>8 DEF Contract!Allowed, ProgressInv
    <2>2. NetState(t)' \in Contract!After("rx_off", res)
      BY <1>4 DEF Contract!After
    <2> QED
      BY <1>1, <1>3, <2>1, <2>2, ContractCall
  <1>10. WholeStep
    BY <1>2, <1>5 DEF WholeStep
  <1> QED
    BY <1>6, <1>7, <1>9, <1>10 DEF StepOk

\* anj_net_connect() was called on a socket that is there.
LEMMA ConnectResultOk ==
    ASSUME NetInv, phase = "connecting", UNCHANGED <<config, wire, got>>,
           NEW r, TransportOk(r.t), r.res \in {"ok", "inprogress", "error"},
           r.res = "ok" => NetState(r.t) = "connected",
           r.res = "inprogress" => NetState(r.t) = Contract!Created,
           r.res = "error" => NetState(r.t) \in {"closed", NetState(t)},
           NEW path \in PathMtus, ConnectResult(r, path)
    PROVE  StepOk
  <1> USE DEF NetInv
  <1> DEFINE mtu == NetMtu(r.t, path)
  <1>1. /\ mtu \in Int
        /\ /\ AfSetting = "force6" => "inet6" \in Families
           /\ binding \in {"posix", "dtls"} /\ mtu > 0
           => FitsPath(mtu, r.t.u)
    BY MtuOk DEF NetTypes
  <1>2. t' = r.t /\ last' = [call |-> "connect", res |-> r.res]
    BY DEF ConnectResult, Called
  <1>3. \/ r.res = "ok" /\ conn' = [conn EXCEPT !.mtu = mtu] /\ mtu > 0 /\ phase' = "up"
        \/ r.res = "ok" /\ conn' = [conn EXCEPT !.mtu = mtu] /\ ~(mtu > 0) /\ phase' \in Leaving
        \/ r.res = "inprogress" /\ UNCHANGED <<conn, phase>>
        \/ r.res = "error" /\ UNCHANGED conn /\ phase' \in Leaving
    BY DEF ConnectResult
  <1> HIDE DEF mtu
  <1>4. NetState(t)' = NetState(r.t) /\ TransportOk(t)'
    BY <1>2, SamePlace
  <1>5. "connect" \in Calls /\ r.res \in Results
    BY DEF Calls, Results
  <1>6. /\ conn' \in ConnType
        /\ conn'.sending = conn.sending /\ conn'.bytesSent = conn.bytesSent
        /\ r.res = "ok" => conn'.mtu = mtu
    BY <1>1, <1>3 DEF NetTypes, ConnType
  <1>7. phase' \in {"down", "connecting", "up"} \cup Leaving
    BY <1>3
  <1>8. NetTypes'
    BY <1>2, <1>4, <1>5, <1>6, <1>7 DEF NetTypes, config
  <1>9. PhaseInv'
    BY <1>3, <1>4, <1>6, NetStates DEF PhaseInv, Leaving, config, Contract!Created
  <1>10. ProgressInv' /\ CutReported'
    BY <1>2, <1>3, <1>4 DEF ProgressInv, CutReported, config, Leaving, Contract!Created
  <1>12. ContractStep
    <2>1. Contract!Allowed("connect", r.res)
      BY DEF Contract!Allowed, ProgressInv
    <2>2. NetState(t)' \in Contract!After("connect", r.res)
      <3>1. CASE r.res = "ok"
        BY <1>4, <3>1 DEF Contract!After
      <3>2. CASE r.res = "inprogress"
        BY <1>4, <3>2 DEF Contract!After
      <3>3. CASE r.res = "error"
        BY <1>4, <3>3 DEF Contract!After
      <3> QED
        BY <3>1, <3>2, <3>3
    <2> QED
      BY <1>2, <1>5, <2>1, <2>2, ContractCall DEF Called
  <1>13. WholeStep
    BY <1>1, <1>2, <1>3, <1>6 DEF WholeStep, Leaving
  <1> QED
    BY <1>8, <1>9, <1>10, <1>12, <1>13 DEF StepOk

LEMMA ConnectStepOk ==
    ASSUME NetInv, Connect
    PROVE  StepOk
  <1> USE DEF NetInv
  <1>1. phase = "connecting" /\ UNCHANGED <<config, wire, got>>
    BY DEF Connect
  <1>2. PICK c \in CreateCtx :
           IF c.res # "ok"
             THEN phase' = "down" /\ Called("connect", c.res) /\ UNCHANGED <<t, conn>>
             ELSE \E dns \in SUBSET {"inet", "inet6"}, path \in PathMtus :
                     \E r \in NetConnect(c.t, dns) : ConnectResult(r, path)
    BY DEF Connect
  <1>3. /\ NetState(t) \in {"none", "closed", "connected"}
        /\ binding # "posix" => NetState(t) # "connected"
    BY <1>1, NetStates DEF NetTypes, PhaseInv
  <1>4. /\ TransportOk(c.t) /\ c.res \in {"ok", "error"}
        /\ c.res = "ok" => NetState(c.t) = Contract!Created
        /\ c.res = "error" => NetState(t) = "none"
    <2>1. CASE NetState(t) = "none"
      BY <2>1, CreateOk DEF CreateCtx, NetTypes, Contract!Created
    <2>2. CASE NetState(t) # "none"
      <3>1. c = [res |-> "ok", t |-> t]
        BY <2>2 DEF CreateCtx
      <3> QED
        BY <2>2, <3>1 DEF NetTypes, Contract!Created
    <2> QED
      BY <1>3, <2>1, <2>2
  <1>5. CASE c.res = "ok"
    <2>1. PICK dns \in SUBSET {"inet", "inet6"}, path \in PathMtus :
             \E r \in NetConnect(c.t, dns) : ConnectResult(r, path)
      BY <1>2, <1>5
    <2>2. PICK r \in NetConnect(c.t, dns) : ConnectResult(r, path)
      BY <2>1
    <2>3. /\ TransportOk(r.t) /\ r.res \in {"ok", "inprogress", "error"}
          /\ r.res = "ok" => NetState(r.t) = "connected"
          /\ r.res = "inprogress" => NetState(r.t) = Contract!Created
          /\ r.res = "error" => NetState(r.t) \in {"closed", Contract!Created}
      <3>1. /\ NetState(c.t) = Contract!Created /\ Contract!Created \in States
            /\ binding # "posix" => Contract!Created = "closed"
        BY <1>3, <1>4, <1>5 DEF Contract!Created, States
      <3> QED
        BY <1>4, <1>5, <3>1, ConnectOk DEF NetTypes
    <2>4. r.res = "error" => NetState(r.t) \in {"closed", NetState(t)}
      BY <2>3 DEF Contract!Created
    <2> QED
      BY <1>1, <2>2, <2>3, <2>4, ConnectResultOk
  <1>6. CASE c.res = "error"
    <2>1. /\ phase' = "down" /\ UNCHANGED <<t, conn>>
          /\ last' = [call |-> "connect", res |-> "error"]
      BY <1>2, <1>6 DEF Called
    <2>2. NetState(t)' = "none" /\ NetState(t) = "none" /\ TransportOk(t)'
      BY <1>1, <1>4, <1>6, <2>1, SameTransport DEF NetTypes
    <2>3. "connect" \in Calls /\ "error" \in Results
      BY DEF Calls, Results
    <2>4. NetTypes'
      BY <1>1, <2>1, <2>2, <2>3 DEF NetTypes, config
    <2>5. PhaseInv' /\ ProgressInv' /\ CutReported'
      BY <1>1, <2>1, <2>2 DEF PhaseInv, ProgressInv, CutReported, config
    <2>6. ContractStep
      <3>1. Contract!Allowed("connect", "error")
        BY <1>1 DEF Contract!Allowed, ProgressInv
      <3>2. NetState(t)' \in Contract!After("connect", "error")
        BY <2>2 DEF Contract!After
      <3> QED
        BY <2>1, <2>3, <3>1, <3>2, ContractCall DEF Called
    <2>7. WholeStep
      BY <1>1, <2>1 DEF WholeStep
    <2> QED
      BY <2>4, <2>5, <2>6, <2>7 DEF StepOk
  <1> QED
    BY <1>4, <1>5, <1>6

LEMMA CloseConnOk ==
    ASSUME conn \in ConnType
    PROVE  /\ CloseConn \in ConnType /\ ~CloseConn.sending /\ CloseConn.bytesSent = 0
           /\ NoConn \in ConnType /\ ~NoConn.sending /\ NoConn.bytesSent = 0
  <1>1. 0 \in 0..(MsgLength - 1)
    BY NetAssumption
  <1> DEFINE range == 0..(MsgLength - 1)
             c == [conn EXCEPT !.bytesSent = 0, !.sending = FALSE]
             n == [bytesSent |-> 0, sending |-> FALSE, mtu |-> 0]
  <1>2. conn \in [bytesSent : range, sending : BOOLEAN, mtu : Int] /\ 0 \in range
    BY <1>1 DEF ConnType
  <1> HIDE DEF range
  <1>3. /\ c \in [bytesSent : range, sending : BOOLEAN, mtu : Int]
        /\ ~c.sending /\ c.bytesSent = 0
    BY <1>2, Zenon
  <1>4. n \in [bytesSent : range, sending : BOOLEAN, mtu : Int] /\ ~n.sending /\ n.bytesSent = 0
    BY <1>2
  <1> QED
    BY <1>3, <1>4 DEF range, CloseConn, NoConn, ConnType

LEMMA CloseStepOk ==
    ASSUME NetInv, Close
    PROVE  StepOk
  <1> USE DEF NetInv
  <1>1. phase \in Leaving /\ UNCHANGED <<config, wire, got>>
    BY DEF Close
  <1>2. /\ CloseConn \in ConnType /\ ~CloseConn.sending /\ CloseConn.bytesSent = 0
        /\ NoConn \in ConnType /\ ~NoConn.sending /\ NoConn.bytesSent = 0
    BY CloseConnOk DEF NetTypes
  <1>3. NetState(t) \in {"none", "closed", "connected"}
    BY NetStates DEF NetTypes
  <1>4. CASE NetState(t) = "none" \/ (NetState(t) = "closed" /\ phase # "cleaning")
    <2>1. phase' = "down" /\ conn' = CloseConn /\ UNCHANGED <<t, last>>
      BY <1>4 DEF Close
    <2>2. NetState(t)' = NetState(t) /\ TransportOk(t)'
      BY <1>1, <2>1, SameTransport DEF NetTypes
    <2>3. NetTypes'
      BY <1>1, <1>2, <2>1, <2>2 DEF NetTypes, config
    <2>4. PhaseInv' /\ CutReported'
      BY <1>1, <1>2, <1>4, <2>1, <2>2 DEF PhaseInv, CutReported, config
    <2>5. ProgressInv'
      BY <1>1, <1>4, <2>1, <2>2 DEF ProgressInv, Leaving
    <2>6. ContractStep /\ WholeStep
      BY <1>1, <2>1, <2>2 DEF ContractStep, WholeStep, Contract!vars, Leaving
    <2> QED
      BY <2>3, <2>4, <2>5, <2>6 DEF StepOk
  <1>5. CASE ~(NetState(t) = "none" \/ (NetState(t) = "closed" /\ phase # "cleaning"))
    <2> DEFINE cleanup == phase = "cleaning"
               call == IF cleanup THEN "cleanup" ELSE "close"
    <2>1. PICK r \in IF cleanup THEN NetCleanup ELSE NetClose :
             /\ t' = r.t
             /\ Called(call, r.res)
             /\ phase' = IF r.res = "inprogress" THEN phase ELSE "down"
             /\ conn' = IF cleanup /\ r.res # "inprogress" THEN NoConn ELSE CloseConn
      BY <1>5 DEF Close
    <2>2. /\ TransportOk(r.t) /\ r.res \in {"ok", "error", "inprogress"}
          /\ r.res = "inprogress" => NetState(r.t) = NetState(t)
          /\ cleanup /\ r.res # "inprogress" => NetState(r.t) = "none"
          /\ ~cleanup /\ r.res = "ok" => NetState(r.t) = "closed"
          /\ ~cleanup /\ r.res = "error" => NetState(r.t) \in {"closed", NetState(t)}
          /\ ~cleanup /\ r.res # "inprogress" /\ binding # "posix" => NetState(r.t) = "closed"
      <3>1. CASE cleanup
        BY <1>5, <2>1, <3>1, CleanupOk DEF NetTypes
      <3>2. CASE ~cleanup
        BY <1>3, <1>5, <2>1, <3>2, CloseOk DEF NetTypes
      <3> QED
        BY <3>1, <3>2
    <2>3. NetState(t)' = NetState(r.t) /\ TransportOk(t)'
      BY <1>1, <2>1, <2>2, SamePlace
    <2>4. r.res \in Results /\ call \in Calls /\ last' = [call |-> call, res |-> r.res]
      BY <2>1, <2>2 DEF Results, Calls, Called
    <2>5. conn' \in ConnType /\ ~conn'.sending /\ conn'.bytesSent = 0
      BY <1>2, <2>1
    <2>6. NetTypes'
      BY <1>1, <2>1, <2>3, <2>4, <2>5 DEF NetTypes, config
    <2>7. PhaseInv' /\ CutReported'
      BY <1>1, <2>1, <2>2, <2>3, <2>5 DEF PhaseInv, CutReported, config, Leaving
    <2>8. ProgressInv'
      BY <1>1, <1>3, <1>5, <2>1, <2>2, <2>3, <2>4 DEF ProgressInv, Leaving
    <2>9. ContractStep
      <3>1. Contract!Allowed(call, r.res)
        BY <1>1, <1>5, <2>2 DEF Contract!Allowed, ProgressInv, Leaving
      <3>2. NetState(t)' \in Contract!After(call, r.res)
        BY <2>2, <2>3 DEF Contract!After
      <3> QED
        BY <2>1, <2>4, <3>1, <3>2, ContractCall
    <2>10. WholeStep
      BY <1>1, <2>4 DEF WholeStep, Leaving
    <2> QED
      BY <2>6, <2>7, <2>8, <2>9, <2>10 DEF StepOk
  <1> QED
    BY <1>4, <1>5

LEMMA BytesOk ==
    ASSUME NEW from \in Nat, NEW n \in Nat
    PROVE  Bytes(from, n) \in Seq(Nat) /\ Len(Bytes(from, n)) = n
  <1>1. Bytes(from, n) \in [1..n -> Nat]
    BY DEF Bytes
  <1>2. Bytes(from, n) \in Seq(Nat)
    BY <1>1, SeqDef
  <1>3. DOMAIN Bytes(from, n) = 1..n
    BY <1>1
  <1> QED
    BY <1>2, <1>3, LenProperties

\* What was sent of a message and what follows are the message so far.
LEMMA BytesFollow ==
    ASSUME NEW b \in Nat, NEW n \in Nat
    PROVE  Bytes(0, b) \o Bytes(b, n) = Bytes(0, b + n)
  <1> DEFINE x == Bytes(0, b)
             y == Bytes(b, n)
             z == Bytes(0, b + n)
  <1>1. /\ x \in Seq(Nat) /\ Len(x) = b
        /\ y \in Seq(Nat) /\ Len(y) = n
        /\ z \in Seq(Nat) /\ Len(z) = b + n
    BY BytesOk
  <1>2. /\ \A i \in 1..b : x[i] = i
        /\ \A i \in 1..n : y[i] = b + i
        /\ \A i \in 1..(b + n) : z[i] = i
    BY DEF Bytes
  <1> HIDE DEF x, y, z
  <1>3. /\ x \o y \in Seq(Nat) /\ Len(x \o y) = b + n
        /\ \A i \in 1..(b + n) : (x \o y)[i] = IF i <= b THEN x[i] ELSE y[i - b]
    BY <1>1, ConcatProperties, Zenon
  <1>4. ASSUME NEW i \in 1..(b + n)
        PROVE  (x \o y)[i] = z[i]
    <2>1. CASE i <= b
      BY <1>2, <1>3, <2>1
    <2>2. CASE ~(i <= b)
      <3>1. i - b \in 1..n /\ ~(i <= b) /\ b + (i - b) = i
        BY <2>2
      <3>2. (x \o y)[i] = y[i - b]
        BY <1>3, <3>1
      <3>3. y[i - b] = b + (i - b)
        BY <1>2, <3>1
      <3> QED
        BY <1>2, <3>1, <3>2, <3>3
    <2> QED
      BY <2>1, <2>2, Zenon
  <1>5. x \o y = z
    BY <1>1, <1>3, <1>4, SeqEqual, Zenon
  <1> QED
    BY <1>5 DEF x, y, z

\* The rest of a message is not empty, and no more than the rest is taken.
LEMMA TakenOk ==
    ASSUME NetInv, phase = "up", NEW n \in Taken(MsgLength - conn.bytesSent)
    PROVE  /\ conn.bytesSent \in 0..(MsgLength - 1) /\ conn.sending \in BOOLEAN
           /\ n \in 1..(MsgLength - conn.bytesSent)
  <1>1. conn.bytesSent \in 0..(MsgLength - 1) /\ conn.sending \in BOOLEAN
    BY DEF NetInv, NetTypes, ConnType
  <1> QED
    BY <1>1, NetAssumption DEF Taken

LEMMA SentSoFar ==
    ASSUME NetInv, phase = "up"
    PROVE  /\ (IF conn.sending THEN wire ELSE <<>>) = Bytes(0, conn.bytesSent)
           /\ (IF conn.sending THEN wire ELSE <<>>) \in Seq(Nat)
           /\ Len(IF conn.sending THEN wire ELSE <<>>) <= MsgLength
  <1> USE DEF NetInv
  <1>1. CASE conn.sending
    BY <1>1 DEF PhaseInv, NetTypes
  <1>2. CASE ~conn.sending
    <2>1. conn.bytesSent = 0
      BY <1>2 DEF PhaseInv
    <2>2. Bytes(0, 0) = <<>>
      <3>1. Bytes(0, 0) \in Seq(Nat) /\ Len(Bytes(0, 0)) = 0
        BY BytesOk
      <3> QED
        BY <3>1, EmptySeq
    <2>3. <<>> \in Seq(Nat) /\ Len(<<>>) = 0
      BY EmptySeq
    <2> QED
      BY <1>2, <2>1, <2>2, <2>3, NetAssumption
  <1> QED
    BY <1>1, <1>2

LEMMA SendStepOk ==
    ASSUME NetInv, Send
    PROVE  StepOk
  <1> USE DEF NetInv
  <1> DEFINE sofar == IF conn.sending THEN wire ELSE <<>>
             b == conn.bytesSent
  <1>1. phase = "up" /\ ~SwitchingOff /\ UNCHANGED <<config, got>>
    BY DEF Send
  <1>2. PICK r \in NetSend, n \in Taken(MsgLength - b) :
           /\ t' = r.t
           /\ Called("send", r.res)
           /\ CASE r.res = "ok" ->
                     /\ wire' = sofar \o Bytes(b, n)
                     /\ conn' = IF b + n = MsgLength
                                THEN [conn EXCEPT !.bytesSent = 0, !.sending = FALSE]
                                ELSE [conn EXCEPT !.bytesSent = @ + n, !.sending = TRUE]
                     /\ UNCHANGED phase
                [] r.res = "inprogress" ->
                     /\ conn' = [conn EXCEPT !.sending = TRUE]
                     /\ wire' = sofar
                     /\ UNCHANGED phase
                [] OTHER ->
                     /\ conn' = [conn EXCEPT !.sending = FALSE]
                     /\ phase' \in Leaving
                     /\ UNCHANGED wire
    BY Zenon DEF Send
  <1>3. /\ b \in 0..(MsgLength - 1) /\ conn.sending \in BOOLEAN /\ n \in 1..(MsgLength - b)
        /\ MsgLength \in Nat
    BY <1>1, TakenOk, NetAssumption
  <1>4. sofar = Bytes(0, b) /\ sofar \in Seq(Nat) /\ Len(sofar) <= MsgLength
    BY <1>1, SentSoFar
  <1> HIDE DEF sofar
  <1>5. t' = t /\ r.res \in {"ok", "inprogress", "emsgsize", "error"}
    BY <1>2, SendOk DEF NetTypes, TransportOk
  <1>6. NetState(t)' = NetState(t) /\ TransportOk(t)' /\ NetState(t) = "connected"
    BY <1>1, <1>5, SameTransport DEF NetTypes, PhaseInv
  <1>7. last' = [call |-> "send", res |-> r.res] /\ "send" \in Calls /\ r.res \in Results
    BY <1>2, <1>5 DEF Called, Calls, Results
  <1>8. conn \in ConnType /\ conn.mtu > 0
    BY <1>1 DEF NetTypes, PhaseInv
  <1>9. CutReported'
    BY <1>1 DEF CutReported, config
  <1>10. ContractStep
    <2>1. Contract!Allowed("send", r.res)
      BY <1>1, <1>5, <1>6 DEF Contract!Allowed, ProgressInv, SwitchingOff
    <2>2. NetState(t)' \in Contract!After("send", r.res)
      BY <1>6 DEF Contract!After
    <2> QED
      BY <1>2, <1>7, <2>1, <2>2, ContractCall
  <1>11. CASE r.res = "ok"
    <2>0. b \in Nat /\ n \in Nat /\ b + n \in Nat /\ b + n \in 1..MsgLength
      BY <1>3
    <2> HIDE DEF b
    <2>1. sofar \o Bytes(b, n) = Bytes(0, b + n)
      BY <2>0, <1>4, BytesFollow, Zenon
    <2>2. /\ b + n \in 1..MsgLength
          /\ Bytes(0, b + n) \in Seq(Nat) /\ Len(Bytes(0, b + n)) = b + n
      BY <2>0, BytesOk, Zenon
    <2> USE DEF b
    <2>3. wire' = Bytes(0, b + n) /\ phase' = "up"
      BY <1>1, <1>2, <1>11, <2>1
    <2>4. CASE b + n = MsgLength
      <3>1. conn' = [conn EXCEPT !.bytesSent = 0, !.sending = FALSE]
        BY <1>2, <1>11, <2>4
      <3>2. conn' = CloseConn /\ conn'.mtu = conn.mtu
        BY <1>8, <3>1 DEF CloseConn, ConnType
      <3>3. conn' \in ConnType /\ conn'.bytesSent = 0 /\ ~conn'.sending /\ conn'.mtu > 0
        BY <1>8, <3>2, CloseConnOk
      <3>4. NetTypes'
        BY <1>1, <1>6, <1>7, <2>2, <2>3, <3>3 DEF NetTypes, config
      <3>5. PhaseInv' /\ ProgressInv'
        BY <1>6, <1>7, <1>11, <2>3, <3>3 DEF PhaseInv, ProgressInv, Leaving
      <3>6. WholeStep
        BY <1>1, <2>3, <2>4 DEF WholeStep
      <3> QED
        BY <1>9, <1>10, <3>4, <3>5, <3>6 DEF StepOk
    <2>5. CASE b + n # MsgLength
      <3> DEFINE sent == b + n
      <3>1. sent \in 0..(MsgLength - 1)
        BY <2>2, <2>5, <1>3
      <3>2. conn' = [conn EXCEPT !.bytesSent = sent, !.sending = TRUE]
        BY <1>2, <1>11, <2>5
      <3>3. wire' = Bytes(0, sent) /\ wire' \in Seq(Nat) /\ Len(wire') <= MsgLength
        BY <1>3, <2>2, <2>3
      <3> HIDE DEF sent
      <3>4. conn' \in ConnType /\ conn'.bytesSent = sent /\ conn'.sending /\ conn'.mtu > 0
        BY <1>8, <3>1, <3>2, Zenon DEF ConnType
      <3>5. NetTypes'
        BY <1>1, <1>6, <1>7, <2>3, <3>3, <3>4 DEF NetTypes, config
      <3>6. PhaseInv' /\ ProgressInv'
        BY <1>6, <1>7, <1>11, <2>3, <3>3, <3>4 DEF PhaseInv, ProgressInv, Leaving
      <3>7. WholeStep
        BY <1>1, <2>3, <3>4 DEF WholeStep
      <3> QED
        BY <1>9, <1>10, <3>5, <3>6, <3>7 DEF StepOk
    <2> QED
      BY <2>4, <2>5
  <1>12. CASE r.res = "inprogress"
    <2>1. conn' = [conn EXCEPT !.sending = TRUE] /\ wire' = sofar /\ phase' = "up"
      BY <1>1, <1>2, <1>12
    <2>2. conn' \in ConnType /\ conn'.bytesSent = b /\ conn'.sending /\ conn'.mtu > 0
      BY <1>8, <2>1, Zenon DEF ConnType
    <2>3. NetTypes'
      BY <1>1, <1>4, <1>6, <1>7, <2>1, <2>2 DEF NetTypes, config
    <2>4. PhaseInv' /\ ProgressInv'
      BY <1>4, <1>6, <1>7, <2>1, <2>2 DEF PhaseInv, ProgressInv, Leaving
    <2>5. WholeStep
      BY <1>1, <2>1, <2>2 DEF WholeStep
    <2> QED
      BY <1>9, <1>10, <2>3, <2>4, <2>5 DEF StepOk
  <1>13. CASE r.res \in {"emsgsize", "error"}
    <2>1. conn' = [conn EXCEPT !.sending = FALSE] /\ phase' \in Leaving /\ wire' = wire
      BY <1>2, <1>13
    <2>2. conn' \in ConnType
      BY <1>8, <2>1, Zenon DEF ConnType
    <2>3. NetTypes'
      BY <1>1, <1>6, <1>7, <2>1, <2>2 DEF NetTypes, config
    <2>4. PhaseInv' /\ ProgressInv'
      BY <1>7, <1>13, <2>1 DEF PhaseInv, ProgressInv, Leaving
    <2>5. WholeStep
      BY <1>1, <2>1 DEF WholeStep, Leaving
    <2> QED
      BY <1>9, <1>10, <2>3, <2>4, <2>5 DEF StepOk
  <1> QED
    BY <1>5, <1>11, <1>12, <1>13

--------------------------------------------------------------------------------
(* The theorems. *)

LEMMA InitOk == Init => NetInv
  <1> SUFFICES ASSUME Init PROVE NetInv
    OBVIOUS
  <1> USE DEF Init
  <1>1. NoSocket \in UType /\ UOk(NoSocket) /\ MinOk(NoSocket) /\ ~NoSocket.ctx
    <2>1. NoSocket \in UType
      BY Members DEF NoSocket, UType
    <2>2. UOk(NoSocket) /\ MinOk(NoSocket) /\ ~NoSocket.ctx
      BY DEF NoSocket, UOk, MinOk, BuiltIn
    <2> QED
      BY <2>1, <2>2
  <1>2. t.u = NoSocket /\ t.d = NoDtls /\ t.n = "none"
    OBVIOUS
  <1>3. DOk(NoDtls, NoSocket)
    BY <1>1, NoDtlsOk DEF DOk
  <1>4. TransportOk(t)
    <2>1. t \in TType
      BY <1>1, NoDtlsOk, Members DEF TType
    <2> QED
      BY <1>1, <1>2, <1>3, <2>1 DEF TransportOk, TOk
  <1>5. NetState(t) = "none"
    BY <1>1, <1>2, NoDtlsOk DEF NetState
  <1>6. conn \in ConnType /\ ~conn.sending /\ conn.bytesSent = 0
    <2>1. 0 \in 0..(MsgLength - 1)
      BY NetAssumption
    <2> DEFINE range == 0..(MsgLength - 1)
    <2> HIDE DEF range
    <2>2. NoConn \in [bytesSent : range, sending : BOOLEAN, mtu : Int]
      BY <2>1 DEF NoConn, range
    <2> QED
      BY <2>2 DEF ConnType, NoConn, range
  <1>7. wire \in Seq(Nat) /\ Len(wire) <= MsgLength
    BY NetAssumption, EmptySeq
  <1>8. last \in [call : Calls, res : Results]
    BY DEF Calls, Results
  <1>9. NetTypes
    BY <1>4, <1>6, <1>7, <1>8 DEF NetTypes
  <1> QED
    BY <1>5, <1>6, <1>9 DEF NetInv, PhaseInv, ProgressInv, CutReported

LEMMA StepsOk ==
    ASSUME NetInv, [Next]_vars
    PROVE  NetInv' /\ ContractStep /\ [WholeStep]_vars
  <1>1. CASE UNCHANGED vars
    <2>1. UNCHANGED <<config, t, conn, phase, wire, got, last>> /\ UNCHANGED binding
      BY <1>1 DEF vars, config
    <2>2. NetState(t)' = NetState(t) /\ TransportOk(t)'
      BY <2>1, SameTransport DEF NetInv, NetTypes
    <2>3. NetInv'
      BY <2>1, <2>2
         DEF NetInv, NetTypes, PhaseInv, ProgressInv, CutReported, config
    <2>4. ContractStep
      BY <2>1, <2>2 DEF ContractStep, Contract!vars
    <2> QED
      BY <1>1, <2>3, <2>4
  <1>2. CASE Next
    <2>1. StepOk
      BY <1>2, StartOk, ConnectStepOk, SendStepOk, ReceiveOk, RxOffOk, LeaveOk, CloseStepOk
         DEF Next
    <2> QED
      BY <2>1 DEF StepOk
  <1> QED
    BY <1>1, <1>2

LEMMA InvOrder == NetInv => TransportInOrder
  <1> SUFFICES ASSUME NetInv PROVE TransportInOrder
    OBVIOUS
  <1>1. t.u \in UType /\ t.d \in DType /\ t.n \in SocketStates /\ TOk(t)
    BY DEF NetInv, NetTypes, TransportOk, TType
  <1>2. /\ t.u.fd \in Fds /\ t.u.fds \in Nat /\ t.u.state \in States
        /\ t.d.state \in States /\ t.d.sm \in Machine /\ t.d.ssl \in Sessions
    BY <1>1 DEF UType, DType
  <1>3. /\ t.u.fd \in {Invalid, Stale, "open", "connected"} /\ t.u.fds \in Nat
        /\ t.u.state \in {"closed", "connected"} /\ t.d.state \in {"closed", "connected"}
        /\ t.d.sm \in {"initial", "handshaking", "done"} /\ t.d.ssl \in {"none", "setup", "up"}
        /\ t.n \in {"none", "closed", "connected"}
    BY <1>1, <1>2 DEF Fds, States, Machine, Sessions, SocketStates
  <1>4. /\ conn.bytesSent \in 0..(MsgLength - 1) /\ conn.mtu \in Int
        /\ last.call \in Calls /\ last.res \in Results
    BY DEF NetInv, NetTypes, ConnType
  <1>5. TypeOK
    BY <1>3, <1>4 DEF TypeOK, NetInv, NetTypes, PhaseInv
  <1>6. ConnectedIsUsable
    BY <1>1 DEF ConnectedIsUsable, NetState, TOk, DOk, UOk
  <1>7. NoSocketLost
    <2>1. CASE binding \in {"posix", "dtls", "non_ip"}
      <3>1. UOk(t.u)
        BY <1>1, <2>1 DEF TOk, DOk
      <3>2. t.u.fd \in Fds /\ t.u.fds \in Nat /\ t.u.lost \in Nat
        BY <1>1 DEF UType
      <3>3. Held(t.u) = IF t.u.fd \in {Invalid, Stale} THEN 0 ELSE 1
        BY <3>1, <3>2 DEF Held, UOk, Fds, Invalid, Stale
      <3> QED
        BY <3>1, <3>2, <3>3 DEF NoSocketLost, UOk
    <2>2. CASE binding = "minimal"
      BY <2>2 DEF NoSocketLost
    <2> QED
      BY <2>1, <2>2, BindingCases DEF NetInv, NetTypes
  <1> QED
    BY <1>5, <1>6, <1>7 DEF TransportInOrder, NetInv

\* Whatever the transports, the sizes, the families and the paths are, and however
\* the calls of the system and of Mbed TLS fail, no transport says CONNECTED
\* without a socket (and keys) to use and none of the library's loses a socket,
\* but for what a close() that failed leaves behind, and no datagram that was cut
\* is taken for a message.
THEOREM TransportAlwaysInOrder == Spec => []TransportInOrder
  <1>1. Init => NetInv
    BY InitOk
  <1>2. NetInv /\ [Next]_vars => NetInv'
    BY StepsOk
  <1>3. NetInv => TransportInOrder
    BY InvOrder
  <1> QED
    BY <1>1, <1>2, <1>3, PTL DEF Spec

\* The transports under srv_conn.c implement the contract of anj_net_api.h, as
\* NetContract states it (it asks less of the callers than the header): their
\* initial state is one of it, and each of their steps is a call that it allows
\* there, with the outcome it promises, or leaves socket and last call alone.
THEOREM ContractAlwaysKept == Spec => ContractKept
  <1>1. Init => NetInv
    BY InitOk
  <1>2. Init => Contract!Init
    <2>1. ASSUME Init PROVE NetState(t) = "none"
      BY <2>1 DEF Init, NetState, NoSocket, NoDtls
    <2> QED
      BY <2>1 DEF Init, Contract!Init
  <1>3. NetInv /\ [Next]_vars => NetInv' /\ [Contract!Next]_(Contract!vars)
    BY StepsOk DEF ContractStep
  <1> QED
    BY <1>1, <1>2, <1>3, PTL DEF Spec, ContractKept, Contract!Spec

\* A message that srv_conn.c reports as sent went out whole and in order, and the
\* MTU of a connection leaves room for the headers, for messages of any length and
\* any paths, as long as AF_INET6 is forced only where it is built in.
THEOREM MessageAlwaysWhole ==
    ASSUME AfSetting = "force6" => "inet6" \in Families
    PROVE  Spec => MessageWhole
  <1>1. Init => NetInv
    BY InitOk
  <1>2. NetInv /\ [Next]_vars => NetInv' /\ [WholeStep]_vars
    BY StepsOk
  <1>3. [WholeStep]_vars =>
           [/\ last'.call = "send" /\ last'.res = "ok" /\ ~conn'.sending /\ wire' # wire
                  => wire' = Bytes(0, MsgLength)
            /\ phase = "connecting" /\ phase' = "up" /\ binding \in {"posix", "dtls"}
                  => FitsPath(conn'.mtu, t'.u)]_vars
    BY DEF WholeStep
  <1> QED
    BY <1>1, <1>2, <1>3, PTL DEF Spec, MessageWhole
===============================================================================
