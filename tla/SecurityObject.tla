----------------------------- MODULE SecurityObject -----------------------------
(***************************************************************************)
(* The default Security Object: at most two accounts, one of which may be  *)
(* the Bootstrap Server's.  The table of instances the data model walks is *)
(* kept sorted; the slots that hold the accounts are not.  The three keys  *)
(* of an account are kept in buffers of the account or, in a build with    *)
(* external crypto storage, in records of that storage (CryptoStorage).    *)
(*                                                                         *)
(* The state is [insts, slots, saved, fresh, external], the last one being *)
(* ANJ_WITH_EXTERNAL_CRYPTO_STORAGE; the handlers work on it together with *)
(* the storage, as [o, c].                                                 *)
(***************************************************************************)
EXTENDS CryptoStorage

CONSTANTS
    UriSize,        \* ANJ_SERVER_URI_MAX_SIZE, in tokens
    KeySize         \* the size of a key buffer, in tokens

NInstances == 2

RidUri == 0
RidBootstrapServer == 1
RidMode == 2
RidKeys == {3, 4, 5}
RidSsid == 10
RidHoldOff == 11

RES == [rid \in {RidUri, RidBootstrapServer, RidMode, RidSsid, RidHoldOff} \cup RidKeys |->
            [kind |-> "RW",
             type |-> CASE rid = RidUri -> "string"
                        [] rid = RidBootstrapServer -> "bool"
                        [] rid \in RidKeys -> "bytes"
                        [] OTHER -> "int"]]

EmptyKey == [source |-> "empty", id |-> NoName] @@ EmptyBytes(KeySize)

\* a zeroed structure with its identifier
InitializeInstance(iid) ==
    [iid |-> iid, uri |-> EmptyBuffer(UriSize), bs |-> FALSE, mode |-> 0,
     keys |-> [rid \in RidKeys |-> EmptyKey], ssid |-> 0, holdOff |-> 0]

NoSave == << >>

SecurityInit(external) ==
    [insts |-> [i \in 1 .. NInstances |-> NoId],
     slots |-> [i \in 1 .. NInstances |-> InitializeInstance(NoId)],
     saved |-> NoSave, fresh |-> NoId, external |-> external]

\* the scheme is one token
ValidUriScheme(uri) == uri[1] \in {"coap:", "coaps:"}

ValidSecurityMode(mode) == mode \in 0 .. 4

ValidateInstance(s) ==
    /\ ValidUriScheme(s.uri)
    /\ ValidSecurityMode(s.mode)
    /\ s.ssid # NoId
    /\ s.ssid # 0 \/ s.bs

\* find_sec_inst: 0 is NULL
FindSlot(o, iid) ==
    IF \E i \in DOMAIN o.slots : o.slots[i].iid = iid
    THEN CHOOSE i \in DOMAIN o.slots :
             o.slots[i].iid = iid /\ \A j \in 1 .. i - 1 : o.slots[j].iid # iid
    ELSE 0

FindFreeIid(o) ==
    CHOOSE iid \in 0 .. NInstances :
        /\ FindSlot(o, iid) = 0
        /\ \A lower \in 0 .. iid - 1 : FindSlot(o, lower) # 0

----------------------------------------------------------------------------
(* Handlers of the data model. *)

\* a record is created for a key that has none, then the chunk is appended;
\* the internal buffer is written in place
WriteSecurityInfo(oc, i, rid, value) ==
    LET key == oc.o.slots[i].keys[rid]
        new == CreateNewRecord(oc.c)
        own == IF key.source = "empty"
               THEN [v |-> [o |-> [oc.o EXCEPT !.slots[i].keys[rid] =
                                     [@ EXCEPT !.source = "external", !.id = new.v.id]],
                            c |-> new.v.c],
                     ret |-> new.ret]
               ELSE Ok(oc)
        Store(v) == LET s == StoreData(v.c, v.o.slots[i].keys[rid].id, value.data,
                                       IsLastChunk(value))
                    IN  [v |-> [v EXCEPT !.c = s.v], ret |-> s.ret]
        bytes == WriteBytesChunked(value, key)
    IN  IF oc.o.external
        THEN Then(own, Store)
        ELSE [v   |-> [oc EXCEPT !.o.slots[i].keys[rid] =
                                     [bytes.v EXCEPT !.source = "buffer"]],
              ret |-> bytes.ret]

ResWrite(oc, iid, rid, value) ==
    LET i   == FindSlot(oc.o, iid)
        uri == WriteStringChunked(value, oc.o.slots[i].uri)
        Refused == Err(oc, "BAD_REQUEST")
    IN  CASE rid = RidUri ->
                [v |-> [oc EXCEPT !.o.slots[i].uri = uri.v], ret |-> uri.ret]
          [] rid = RidBootstrapServer -> Ok([oc EXCEPT !.o.slots[i].bs = value])
          [] rid = RidMode ->
                IF ValidSecurityMode(value) THEN Ok([oc EXCEPT !.o.slots[i].mode = value])
                                            ELSE Refused
          [] rid \in RidKeys -> WriteSecurityInfo(oc, i, rid, value)
          [] rid = RidSsid ->
                IF value \in 1 .. U16Max - 1 THEN Ok([oc EXCEPT !.o.slots[i].ssid = value])
                                             ELSE Refused
          [] rid = RidHoldOff ->
                IF value \in 0 .. U32Max THEN Ok([oc EXCEPT !.o.slots[i].holdOff = value])
                                         ELSE Refused

\* a key is never read through the data model
ResRead(o, iid, rid) ==
    LET s == o.slots[FindSlot(o, iid)]
    IN  CASE rid = RidUri -> Ok(StringOf(s.uri))
          [] rid = RidBootstrapServer -> Ok(s.bs)
          [] rid = RidMode -> Ok(s.mode)
          [] rid = RidSsid -> Ok(s.ssid)
          [] rid = RidHoldOff -> Ok(s.holdOff)
          [] OTHER -> Err(0, "METHOD_NOT_ALLOWED")

\* insert_new_instance
Retable(o, current, new) == [o EXCEPT !.insts = SortIds(ReplaceId(@, current, new))]

InstCreate(oc, iid) ==
    LET i == FindSlot(oc.o, NoId)
    IN  Ok([oc EXCEPT !.o = [Retable(@, NoId, iid) EXCEPT
                                !.slots[i] = InitializeInstance(iid), !.fresh = iid]])

\* maybe_delete_external_data, for the three keys
DeleteExternalData(oc, i) ==
    LET Drop(x, rid) ==
            IF x.o.slots[i].keys[rid].source # "external" THEN x
            ELSE [o |-> [x.o EXCEPT !.slots[i].keys[rid].source = "empty"],
                  c |-> DeleteRecord(x.c, x.o.slots[i].keys[rid].id)]
    IN  IF oc.o.external THEN FoldLeft(Drop, oc, <<3, 4, 5>>) ELSE oc

InstDelete(oc, iid) ==
    LET i == FindSlot(oc.o, iid)
        gone == DeleteExternalData(oc, i)
    IN  Ok([gone EXCEPT !.o = [Retable(@, iid, NoId) EXCEPT !.slots[i].iid = NoId]])

InstReset(oc, iid) ==
    Ok([oc EXCEPT !.o.slots[FindSlot(oc.o, iid)] = InitializeInstance(iid)])

TransactionBegin(o) ==
    [o EXCEPT !.saved = [insts |-> o.insts, slots |-> o.slots], !.fresh = NoId]

TransactionValidate(o) ==
    IF \A i \in DOMAIN o.slots : o.slots[i].iid # NoId => ValidateInstance(o.slots[i])
    THEN "OK" ELSE "BAD_REQUEST"

\* the records of the instance this transaction created go before its backup
\* comes back; what was saved is of no use afterwards
TransactionEnd(oc, success) ==
    LET Clean(x, i) ==
            IF x.o.slots[i].iid \in {NoId} \/ x.o.slots[i].iid # x.o.fresh
            THEN x ELSE DeleteExternalData(x, i)
        cleaned == FoldLeft(Clean, oc, [i \in 1 .. NInstances |-> i])
    IN  IF success THEN [oc EXCEPT !.o.saved = NoSave, !.o.fresh = NoId]
        ELSE [cleaned EXCEPT !.o = [@ EXCEPT !.insts = oc.o.saved.insts, !.slots = oc.o.saved.slots,
                                             !.saved = NoSave, !.fresh = NoId]]

----------------------------------------------------------------------------
(* What the application calls. *)

\* init: [iid or NoId, uri, bs, ssid, mode, holdOff, key], the key being the
\* identity and the secret, given in a buffer
AddInstance(o, init) ==
    LET i == FindSlot(o, NoId)
        made == [InitializeInstance(NoId) EXCEPT
                    !.uri = BufferOf(init.uri, UriSize), !.bs = init.bs,
                    !.ssid = IF init.bs THEN 0 ELSE init.ssid,
                    !.mode = init.mode, !.holdOff = init.holdOff,
                    !.keys = [rid \in RidKeys |->
                                IF rid = 4 \/ Len(init.key) > KeySize THEN EmptyKey
                                ELSE [source |-> "buffer", id |-> NoName,
                                      buff |-> BufferOf(init.key, KeySize),
                                      size |-> Len(init.key)]]]
        iid == IF init.iid = NoId THEN FindFreeIid(o) ELSE init.iid
    IN  CASE \/ i = 0
             \/ \E j \in DOMAIN o.slots : init.ssid # 0 /\ o.slots[j].ssid = init.ssid
             \/ init.iid # NoId /\ init.iid \in Range(o.insts) -> Err(o, "REFUSED")
          [] Len(init.uri) > UriSize - 1 \/ Len(init.key) > KeySize ->
                Err([o EXCEPT !.slots[i] = InitializeInstance(NoId)], "REFUSED")
          [] ~ ValidateInstance(made) ->
                Err([o EXCEPT !.slots[i] = [made EXCEPT !.ssid = NoId]], "REFUSED")
          [] OTHER ->
                Ok(Retable([o EXCEPT !.slots[i] = [made EXCEPT !.iid = iid]], NoId, iid))

----------------------------------------------------------------------------
(* The persistent image: for every entry i of the table that is in use the *)
(* identifier of the entry and the account in slot i; a key that is empty, *)
(* a buffer's content, or a record's name.                                 *)

KeyImage(c, key) ==
    CASE key.source = "empty" -> [source |-> 0, data |-> << >>]
      [] key.source = "buffer" -> [source |-> 1, data |-> SubSeq(key.buff, 1, key.size)]
      [] OTHER -> [source |-> 2, data |-> c.names[key.id]]

\* storing also writes the entry's identifier into the slot
Store(o, c) ==
    LET used == {i \in 1 .. NInstances : o.insts[i] # NoId}
        lost == \E i \in used, rid \in RidKeys :
                    /\ o.slots[i].keys[rid].source = "external"
                    /\ GetPersistenceInfo(c, o.slots[i].keys[rid].id).ret # "OK"
    IN  IF used = {} \/ lost
        THEN Err([o |-> o, image |-> << >>], "REFUSED")
        ELSE Ok([o |-> [o EXCEPT !.slots = [i \in DOMAIN @ |->
                                    IF i \in used THEN [@[i] EXCEPT !.iid = o.insts[i]]
                                                  ELSE @[i]]],
                 image |-> [k \in 1 .. Cardinality(used) |->
                     LET i == CHOOSE n \in used : Cardinality({m \in used : m <= n}) = k
                     IN  [iid |-> o.insts[i], uri |-> StringOf(o.slots[i].uri),
                          bs |-> o.slots[i].bs, mode |-> o.slots[i].mode,
                          ssid |-> o.slots[i].ssid, holdOff |-> o.slots[i].holdOff,
                          keys |-> [rid \in RidKeys |->
                                        KeyImage(c, o.slots[i].keys[rid])]]]])

\* Mutant of KeyFromImage: a key in a buffer keeps the length it had.
KeyFromImageLength(x, i, rid, saved) ==
    LET resolved == ResolvePersistenceInfo(x.c, saved.data)
    IN  CASE saved.source = 0 -> Ok(x)
          [] saved.source = 1 ->
                Ok([x EXCEPT !.o.slots[i].keys[rid].source = "buffer",
                             !.o.slots[i].keys[rid].buff = Overwrite(@, 0, saved.data)])
          [] OTHER -> [v   |-> [o |-> [x.o EXCEPT !.slots[i].keys[rid] =
                                          [@ EXCEPT !.source = "external", !.id = resolved.v.id]],
                                c |-> resolved.v.c],
                       ret |-> resolved.ret]

KeyFromImage(x, i, rid, saved) ==
    LET resolved == ResolvePersistenceInfo(x.c, saved.data)
    IN  CASE saved.source = 0 -> Ok(x)
          [] saved.source = 1 ->
                Ok([x EXCEPT !.o.slots[i].keys[rid] =
                        [source |-> "buffer", id |-> NoName,
                         buff |-> Overwrite(@.buff, 0, saved.data), size |-> Len(saved.data)]])
          [] OTHER -> [v   |-> [o |-> [x.o EXCEPT !.slots[i].keys[rid] =
                                          [@ EXCEPT !.source = "external", !.id = resolved.v.id]],
                                c |-> resolved.v.c],
                       ret |-> resolved.ret]

\* an entry that ends before key m
CutEntry(entry, m) == [entry EXCEPT !.keys = [rid \in {r \in RidKeys : r < m} |-> @[rid]]]

\* entry by entry into a freshly initialised Object; the first one that cannot
\* be read, resolved or validated frees both, and what was resolved before it
\* stays in the table of the storage
Restore(oc, image) ==
    LET Filled(x, i) == [x EXCEPT !.o.insts[i] = image[i].iid,
                                  !.o.slots[i] = [@ EXCEPT
                                      !.iid = image[i].iid, !.bs = image[i].bs,
                                      !.mode = image[i].mode, !.ssid = image[i].ssid,
                                      !.holdOff = image[i].holdOff,
                                      !.uri = BufferOf(image[i].uri, UriSize)]]
        Key(x, i, rid) == IF rid \in DOMAIN image[i].keys
                          THEN KeyFromImage(x, i, rid, image[i].keys[rid])
                          ELSE Err(x, "REFUSED")
        Keys(x, i) == FoldLeft(LAMBDA k, rid : Then(k, LAMBDA y : Key(y, i, rid)),
                               Ok(x), <<3, 4, 5>>)
        Checked(r, i) == IF r.ret = "OK" /\ ~ ValidateInstance(r.v.o.slots[i])
                         THEN Err(r.v, "REFUSED") ELSE r
        Entry(r, i) == IF r.ret = "OK" THEN Checked(Keys(Filled(r.v, i), i), i) ELSE r
        upTo[i \in 0 .. Len(image)] == IF i = 0 THEN Ok(oc) ELSE Entry(upTo[i - 1], i)
        Freed(r) == IF r.ret = "OK" THEN r
                    ELSE Err([r.v EXCEPT !.o.insts = [i \in DOMAIN @ |-> NoId],
                                         !.o.slots = [i \in DOMAIN @ |-> [@[i] EXCEPT !.iid = NoId]]],
                             "REFUSED")
    IN  Freed(upTo[Len(image)])
=============================================================================
