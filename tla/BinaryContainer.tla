---------------------------- MODULE BinaryContainer ----------------------------
(***************************************************************************)
(* The Binary App Data Container of the multi-instance-resource tutorial:  *)
(* one instance, one Resource of three Resource Instances, a table of      *)
(* their identifiers beside an array of their data.                        *)
(***************************************************************************)
EXTENDS DmDefs

CONSTANT DataSize       \* DATA_RES_INST_MAX_SIZE, in tokens

RidData == 0

NResInsts == 3

NoSave == << >>

ContainerInit ==
    [riids |-> <<0, NoId, NoId>>,
     data  |-> <<[buff |-> BufferOf(<<"X">>, DataSize), size |-> 1],
                 EmptyBytes(DataSize), EmptyBytes(DataSize)>>,
     saved |-> NoSave]

\* get_inst_ctx: 0 is NULL, which the handlers assert against
EntryOf(o, riid) ==
    IF riid \in Range(o.riids)
    THEN CHOOSE i \in DOMAIN o.riids : o.riids[i] = riid /\ \A j \in 1 .. i - 1 : o.riids[j] # riid
    ELSE 0

ResRead(o, riid) ==
    LET d == o.data[EntryOf(o, riid)] IN Ok(SubSeq(d.buff, 1, d.size))

ResWrite(o, riid, value) ==
    LET i == EntryOf(o, riid)
        written == WriteBytesChunked(value, o.data[i])
    IN  [v |-> [o EXCEPT !.data[i] = written.v], ret |-> written.ret]

TransactionBegin(o) == [o EXCEPT !.saved = [riids |-> o.riids, data |-> o.data]]

TransactionEnd(o, success) ==
    IF success THEN [o EXCEPT !.saved = NoSave]
    ELSE [riids |-> o.saved.riids, data |-> o.saved.data, saved |-> NoSave]

InstReset(o) == [o EXCEPT !.riids = [i \in DOMAIN @ |-> NoId]]

\* what lies behind the place moves up; the data that was there stays, with size 0
ResInstCreate(o, riid) ==
    LET at == CHOOSE i \in DOMAIN o.riids :
                  /\ o.riids[i] >= riid
                  /\ \A j \in 1 .. i - 1 : o.riids[j] < riid
        Shifted(table) == [i \in DOMAIN table |-> IF i > at THEN table[i - 1] ELSE table[i]]
    IN  [o EXCEPT !.riids = [Shifted(@) EXCEPT ![at] = riid],
                  !.data  = [Shifted(@) EXCEPT ![at].size = 0]]

\* the data of the last entry is left where it is
ResInstDelete(o, riid) ==
    LET at == IF EntryOf(o, riid) = 0 THEN NResInsts ELSE EntryOf(o, riid)
        Closed(table) == [i \in DOMAIN table |->
                             IF i >= at /\ i < NResInsts THEN table[i + 1] ELSE table[i]]
    IN  [o EXCEPT !.riids = [Closed(@) EXCEPT ![NResInsts] = NoId], !.data = Closed(@)]
=============================================================================
