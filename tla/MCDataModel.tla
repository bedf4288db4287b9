------------------------------ MODULE MCDataModel ------------------------------
(***************************************************************************)
(* Provisioning with six small workloads: writes to Objects with one       *)
(* instance, an Object whose instances come and go, without and with a     *)
(* sensor that is polled meanwhile, reads of every kind, and a bootstrap   *)
(* with the keys in buffers and in the key storage.                        *)
(***************************************************************************)
EXTENDS Provisioning

MCRetryDefaults == (17 :> 5) @@ (18 :> 60) @@ (19 :> 1) @@ (20 :> 1)

MCAccounts == << [iid |-> NoId, uri |-> <<"coap:", "bs">>, bs |-> TRUE, ssid |-> 1,
                  mode |-> 3, holdOff |-> 0, key |-> << >>] >>

Text(data) == [data |-> data, offset |-> 0, hint |-> Len(data)]

Rec(path, type, value) == [path |-> path, type |-> type, value |-> value]

Req(op, ssid, path, payload) ==
    [op |-> op, ssid |-> ssid, path |-> path, payload |-> payload, refused |-> FALSE,
     deny |-> {}]

\* the same request, on Objects that refuse to begin a transaction
Denied(r, oids) == [r EXCEPT !.deny = oids]

Lifetime(t) == Rec(<<1, 0, 1>>, "int", t)
Period(rid, t) == Rec(<<1, 0, rid>>, "int", t)
Binding(data) == Rec(<<1, 0, 7>>, "string", Text(data))
Data(riid, data) == Rec(<<19, 0, 0, riid>>, "any", Text(data))
AppType(iid, data) == Rec(<<3303, iid, 5750>>, "string", Text(data))
Unknown == Rec(<<1, 0, 99>>, "int", 1)
Malformed == Rec(<< >>, "malformed", 0)
Path(p) == Rec(p, "none", 0)

Writes ==
    {Req("Update", 1, <<1, 0>>, <<Lifetime(2), Unknown, Binding(<<"U", "S">>)>>),
     Req("Update", 1, <<1, 0>>, <<Lifetime(3), Period(2, 2), Period(3, 1)>>),
     Req("Update", 1, <<1, 0>>, <<Binding(<<"U", "U">>)>>),
     Req("Replace", 1, <<1, 0>>, <<Lifetime(2), Binding(<<"U">>)>>),
     Req("Replace", 1, <<1, 0, 7>>, <<Binding(<<"S">>)>>),
     Req("Replace", 1, <<1, 0, 0>>, <<Rec(<<1, 0, 0>>, "int", 2)>>),
     Req("Replace", 1, <<19, 0, 0>>, <<Data(2, <<"B", "A">>), Data(1, <<"A">>)>>),
     Req("Replace", 1, <<19, 0, 0, 2>>, <<Data(2, <<"A">>)>>),
     Req("Replace", 1, <<19, 0>>, <<Data(0, <<"B">>)>>),
     Req("Update", 1, <<19, 0>>, <<Data(1, <<"A", "B">>), Data(0, <<"B", "B", "B">>)>>),
     Req("Update", 1, <<19, 0>>, <<Data(1, <<"B">>), Malformed>>),
     Req("Delete", 1, <<19, 0, 0, 1>>, << >>),
     Req("WriteComp", 1, << >>, <<Data(0, <<"A">>), Lifetime(1)>>),
     Req("WriteComp", 1, << >>, <<Lifetime(2), Rec(<<0, 0, 10>>, "int", 2)>>),
     Req("Delete", 1, <<0, 0>>, << >>),
     Req("Replace", 1, <<1, 0>>, << >>),
     Denied(Req("WriteComp", 1, << >>, <<Lifetime(2), Data(0, <<"A">>)>>), {19}),
     Denied(Req("Replace", 1, <<19, 0>>, <<Data(0, <<"B">>)>>), {19}),
     [Req("Update", 1, <<1, 0>>, <<Lifetime(1)>>) EXCEPT !.refused = TRUE]}

Polled ==
    {Req("Create", 1, <<3303>>, << >>),
     Req("Delete", 1, <<3303, 1>>, << >>),
     Req("Update", 1, <<3303, 2>>, <<AppType(2, <<"x">>)>>),
     Req("Execute", 1, <<3303, 2, 5605>>, << >>)}

Instances ==
    Polled \cup
    {Req("Create", 1, <<3303>>, <<AppType(0, <<"x", "y">>)>>),
     Req("Create", 1, <<3303>>, <<AppType(NoId, <<"y">>)>>),
     Req("Create", 1, <<3303>>, <<AppType(2, <<"x">>)>>),
     Req("Create", 1, <<3303>>, <<Rec(<<3303, 1>>, "none", 0)>>),
     Req("Create", 1, <<1>>, << >>),
     Req("Delete", 1, <<3303, 2>>, << >>),
     Denied(Req("Delete", 1, <<3303, 2>>, << >>), {3303}),
     Denied(Req("Create", 1, <<3303>>, << >>), {3303}),
     Denied(Req("Delete", 0, << >>, << >>), {3303}),
     Req("Execute", 1, <<3303, 1, 5605>>, <<Rec(<< >>, "none", 0)>>),
     Req("Execute", 1, <<3303, 2, 5700>>, << >>)}

Reads ==
    {Req("Read", 1, p, << >>) : p \in {<<19>>, <<3, 0>>, <<3, 0, 0>>, <<3, 0, 4>>, <<19, 0, 0>>,
                                       <<19, 0, 0, 1>>, <<0>>}}
    \cup {Req("Discover", 1, p, << >>) : p \in {<<19>>, <<3, 0>>, <<3, 0, 11>>, <<19, 0, 0>>,
                                                <<19, 0, 0, 0>>, <<19, 1>>, <<9>>}}
    \cup {Req("Discover", 0, p, << >>) : p \in {<< >>, <<0>>, <<19>>, <<3, 0>>}}
    \cup {Req("ReadComp", 1, << >>, <<Path(<<3, 0, 0>>), Path(<<19, 0, 0>>), Path(<<0, 0>>)>>),
          Req("ReadComp", 1, << >>, <<Path(<<19>>), Path(<<19, 0, 0, 0>>), Path(<<3, 0, 11>>)>>),
          Req("ReadComp", 1, << >>, <<Path(<<19, 0, 0>>), Path(<<19>>)>>),
          Req("ReadComp", 1, << >>, <<Path(<<0>>)>>),
          Req("ReadComp", 1, << >>, <<Path(<<3, 0, 0>>), Path(<< >>)>>),
          Req("Delete", 1, <<19, 0, 0, 0>>, << >>),
          Req("Update", 1, <<19, 0>>, <<Data(1, <<"A">>)>>)}

Observed == {Req("Read", 1, <<19, 0, 0>>, <<Path(<<19, 0, 0>>)>>),
             Req("Read", 1, <<3, 0, 4>>, <<Path(<<3, 0, 4>>)>>),
             Req("ReadComp", 1, << >>, <<Path(<<19, 0, 0>>), Path(<<3, 0, 0>>)>>)}

Account(iid, uri, key) ==
    <<Rec(<<0, iid, 0>>, "string", Text(uri)), Rec(<<0, iid, 10>>, "int", 1),
      Rec(<<0, iid, 5>>, "bytes", Text(key)), Rec(<<0, iid, 2>>, "int", 0)>>

Server(ssid) == <<Rec(<<1, 0, 0>>, "int", ssid), Binding(<<"U">>)>>

Bootstrap ==
    {Req("Replace", 0, <<0, 1>>, Account(1, <<"coap:", "h">>, <<"k", "y">>)),
     Req("Replace", 0, <<0, 1>>, Account(1, <<"http:", "h">>, <<"k", "y">>)),
     Req("Replace", 0, <<1, 0>>, Server(1)),
     Req("Replace", 0, <<1, 0>>, Server(0)),
     Req("Replace", 0, <<1, 0>>, << >>)}
    \cup {Req("Delete", 0, p, << >>) : p \in {<< >>, <<0>>, <<0, 0>>, <<1, 0>>, <<3>>}}
    \cup {Req("Read", 0, p, << >>) : p \in {<<1>>, <<0>>, <<1, 0, 0>>}}
    \cup {Req("Discover", 0, << >>, << >>)}

External ==
    {Req("Replace", 0, <<0, 1>>, Account(1, <<"coap:", "h">>, <<"k">>)),
     Req("Replace", 0, <<0, 1>>, Account(1, <<"coap:", "h">>, <<"z">>)),
     Req("Replace", 0, <<1, 0>>, Server(1)),
     Req("Delete", 0, <<0>>, << >>)}

MCWorkloads ==
    << [objs |-> <<0, 1, 19>>, requests |-> Writes, observed |-> {}, polls |-> FALSE,
        dynamic |-> FALSE, external |-> FALSE, server |-> TRUE],
       [objs |-> <<0, 1, 3303>>, requests |-> Instances, observed |-> {}, polls |-> FALSE,
        dynamic |-> FALSE, external |-> FALSE, server |-> TRUE],
       [objs |-> <<0, 3303>>, requests |-> Polled, observed |-> {}, polls |-> TRUE,
        dynamic |-> FALSE, external |-> FALSE, server |-> TRUE],
       [objs |-> <<0, 3, 19>>, requests |-> Reads, observed |-> Observed, polls |-> FALSE,
        dynamic |-> TRUE, external |-> FALSE, server |-> TRUE],
       [objs |-> <<0, 1, 3>>, requests |-> Bootstrap, observed |-> {}, polls |-> FALSE,
        dynamic |-> FALSE, external |-> FALSE, server |-> FALSE],
       [objs |-> <<0, 1, 3>>, requests |-> External, observed |-> {}, polls |-> FALSE,
        dynamic |-> FALSE, external |-> TRUE, server |-> FALSE] >>
=============================================================================
