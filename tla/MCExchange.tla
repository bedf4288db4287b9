------------------------------ MODULE MCExchange ------------------------------
(***************************************************************************)
(* The exchange, as TLC checks it: the client's requests of every kind,    *)
(* with one request of the server; four of the server that one message     *)
(* answers; and four that go on in blocks, with notifications of several   *)
(* blocks.                                                                 *)
(***************************************************************************)
EXTENDS Exchange

MCTraffic ==
    {[client |-> {"plain", "upload", "get", "non_con", "con_notify"},
      server |-> {"ping", "refused", "execute"}, blocks |-> 3, requests |-> 1],
     [client |-> {},
      server |-> {"execute", "write_one"}, blocks |-> 2, requests |-> 4],
     [client |-> {"notify_many"},
      server |-> {"write", "read", "both"}, blocks |-> 2, requests |-> 4]}
=============================================================================
