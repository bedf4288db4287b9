--------------------------------- MODULE DmCore ---------------------------------
(***************************************************************************)
(* The operations of the data model that change Objects: opening and       *)
(* closing an operation with its transactions, Write (Replace, Partial     *)
(* Update, Composite), Create, Delete, Execute.                            *)
(*                                                                         *)
(* e.dm is the context of the current operation:                           *)
(*   objs       the installed Objects, in the order of their identifiers   *)
(*   busy, op, bs, tx, inTx   op_in_progress, the operation, whether a     *)
(*              Bootstrap Server asked for it, is_transactional, and the   *)
(*              Objects in_transaction                                     *)
(*   deny       the Objects that refuse this operation's transaction       *)
(*   path, attempted, given   the base path of a write, whether the        *)
(*              instance of a Create has been made, whether its identifier *)
(*              came from the server                                       *)
(*   ptr        entity_ptrs: Object, index into its table of instances,    *)
(*              Resource, Resource Instance; 0 or NoId stands for NULL     *)
(***************************************************************************)
EXTENDS DmObjects

NoPtr == [oid |-> NoId, inst |-> 0, rid |-> NoId, riid |-> NoId]

WriteOps == {"Replace", "Update", "WriteComp", "Create"}

Announce(e, path, change) ==
    IF e.dm.bs THEN e ELSE [e EXCEPT !.news = @ \cup {<<path, change>>}]

Failed(e, code) == Err(e, code)

InstIdx(e, oid, iid) ==
    LET table == InstTable(e.objs, oid)
    IN  CHOOSE i \in DOMAIN table : table[i] = iid /\ \A j \in 1 .. i - 1 : table[j] # iid

IidOf(e, ptr) == InstTable(e.objs, ptr.oid)[ptr.inst]

\* the pointers for a path below an Object that is installed; nothing when an
\* entity on the way is missing
GetObjPtrs(e, oid, path) ==
    LET iid == path[LevelIid]
        rid == path[LevelRid]
        riid == path[LevelRiid]
    IN  CASE ~ PathHas(path, LevelIid) -> Ok([NoPtr EXCEPT !.oid = oid])
          [] ~ HasId(InstTable(e.objs, oid), iid) -> Err(NoPtr, "NOT_FOUND")
          [] ~ PathHas(path, LevelRid) ->
                Ok([NoPtr EXCEPT !.oid = oid, !.inst = InstIdx(e, oid, iid)])
          [] rid \notin DOMAIN RES[oid] -> Err(NoPtr, "NOT_FOUND")
          [] ~ PathHas(path, LevelRiid) ->
                Ok([oid |-> oid, inst |-> InstIdx(e, oid, iid), rid |-> rid, riid |-> NoId])
          [] \/ ~ IsMulti(RES[oid][rid].kind)
             \/ ~ HasId(RiidTable(e.objs, oid), riid) -> Err(NoPtr, "NOT_FOUND")
          [] OTHER ->
                Ok([oid |-> oid, inst |-> InstIdx(e, oid, iid), rid |-> rid, riid |-> riid])

GetEntityPtrs(e, path) ==
    IF HasId(e.dm.objs, path[LevelOid]) THEN GetObjPtrs(e, path[LevelOid], path)
                                        ELSE Err(NoPtr, "NOT_FOUND")

\* entity_ptrs are left alone when the lookup fails
Point(e, found) ==
    IF found.ret = "OK" THEN Ok([e EXCEPT !.dm.ptr = found.v]) ELSE Err(e, found.ret)

\* Mutant of EnsureTransactionBegin: the handler's error is dropped.
EnsureTransactionBeginAnyway(e, oid) ==
    CASE ~ HasId(e.dm.objs, oid) -> Failed(e, "NOT_FOUND")
      [] oid \in e.dm.inTx -> Ok(e)
      [] OTHER -> Ok(CallBegin([e EXCEPT !.dm.inTx = @ \cup {oid}], oid).v)

\* the Object is in the transaction also when its handler refuses
EnsureTransactionBegin(e, oid) ==
    CASE ~ HasId(e.dm.objs, oid) -> Failed(e, "NOT_FOUND")
      [] oid \in e.dm.inTx -> Ok(e)
      [] OTHER -> CallBegin([e EXCEPT !.dm.inTx = @ \cup {oid}], oid)

----------------------------------------------------------------------------
(* Delete and create. *)

DeleteInstance(e) ==
    LET oid == e.dm.ptr.oid
        iid == IidOf(e, e.dm.ptr)
    IN  IF "inst_delete" \notin Handlers(oid) THEN Failed(e, "METHOD_NOT_ALLOWED")
        ELSE Then(CallInstDelete(e, oid, iid),
                  LAMBDA x : Ok(Announce(x, <<oid, iid>>, "deleted")))

\* Mutant of DeleteResInstance: nothing is announced.
DeleteResInstanceSilently(e) ==
    IF "res_inst_delete" \notin Handlers(e.dm.ptr.oid) THEN Failed(e, "METHOD_NOT_ALLOWED")
    ELSE Ok([e EXCEPT !.objs[e.dm.ptr.oid] = Bin!ResInstDelete(@, e.dm.ptr.riid)])

DeleteResInstance(e) ==
    LET p == e.dm.ptr
        path == <<p.oid, IidOf(e, p), p.rid, p.riid>>
    IN  IF "res_inst_delete" \notin Handlers(p.oid) THEN Failed(e, "METHOD_NOT_ALLOWED")
        ELSE Ok(Announce([e EXCEPT !.objs[p.oid] = Bin!ResInstDelete(@, p.riid)],
                         path, "deleted"))

\* the flag of the account, read through the data model; no OSCORE Object is installed
IsBootstrapInstance(e, oid, iid) ==
    oid = OidSecurity /\ CallResRead(e, oid, iid, Sec!RidBootstrapServer, NoId).v

\* every instance there is, in turn; the account of the Bootstrap Server is
\* passed over, and refused when the path names an instance
DeleteAllOf(e, oid, path) ==
    LET named == PathHas(path, LevelIid)
        Deleted(r) == IF named /\ r.ret = "OK" THEN [r EXCEPT !.ret = "DONE"] ELSE r
        Visit(x, iid, bootstrap) ==
            CASE (named /\ path[LevelIid] # iid) \/ bootstrap ->
                    IF named /\ bootstrap THEN Failed(x, "BAD_REQUEST") ELSE Ok(x)
              [] OTHER -> Deleted(DeleteInstance(x))
        Next1(r, iid) ==
            IF r.ret # "OK" THEN r
            ELSE Visit([r.v EXCEPT !.dm.ptr.inst = InstIdx(r.v, oid, iid)], iid,
                       IsBootstrapInstance(r.v, oid, iid))
        All(begun, table) ==
            LET upTo[i \in 0 .. CountIds(table)] ==
                    IF i = 0 THEN Ok(begun) ELSE Next1(upTo[i - 1], table[i])
            IN  upTo[CountIds(table)]
    IN  Then(CallBegin([e EXCEPT !.dm.inTx = @ \cup {oid}], oid),
             LAMBDA x : All([x EXCEPT !.dm.ptr.oid = oid], InstTable(e.objs, oid)))

\* the Device Object is passed over, and refused when the path names it
BootstrapDelete(e, path) ==
    LET all == ~ PathHas(path, LevelOid)
        Visit(r, oid) ==
            IF r.ret # "OK" \/ oid = OidDevice \/ (~ all /\ path[LevelOid] # oid) THEN r
            ELSE DeleteAllOf(r.v, oid, path)
        upTo[i \in 0 .. Len(e.dm.objs)] == IF i = 0 THEN Ok(e) ELSE Visit(upTo[i - 1], e.dm.objs[i])
        Visited(r) == IF r.ret = "DONE" THEN Ok(r.v) ELSE r
    IN  IF PathHas(path, LevelRid) \/ (~ all /\ path[LevelOid] = OidDevice)
        THEN Failed(e, "BAD_REQUEST")
        ELSE Visited(upTo[Len(e.dm.objs)])

ProcessDelete(e, path) ==
    LET tx == [e EXCEPT !.dm.tx = TRUE]
    IN  CASE ~ e.dm.bs /\ (PathIs(path, LevelOid) \/ PathIs(path, LevelRid)) ->
                Failed(e, "BAD_REQUEST")
          [] e.dm.bs -> BootstrapDelete(tx, path)
          [] OTHER ->
                Then(Then(EnsureTransactionBegin(tx, path[LevelOid]),
                          LAMBDA x : Point(x, GetObjPtrs(x, path[LevelOid], path))),
                     LAMBDA x : IF PathIs(path, LevelIid) THEN DeleteInstance(x)
                                                          ELSE DeleteResInstance(x))

Full(e, oid) == CountIds(InstTable(e.objs, oid)) >= Len(InstTable(e.objs, oid))

\* the first index whose entry holds another identifier
FreeIid(e, oid) ==
    LET table == InstTable(e.objs, oid)
        free  == {i \in 0 .. Len(table) : i >= Len(table) \/ table[i + 1] # i}
    IN  CHOOSE i \in free : \A j \in free : i <= j

BeginCreate(e, path) ==
    LET oid == path[LevelOid]
        x == [e EXCEPT !.dm.tx = TRUE, !.dm.path = path, !.dm.attempted = FALSE]
        Check(y) == IF Full(y, oid) THEN Failed(y, "METHOD_NOT_ALLOWED") ELSE Ok(y)
    IN  Then(Then(EnsureTransactionBegin(x, oid),
                  LAMBDA y : Point(y, GetObjPtrs(y, oid, path))),
             Check)

CreateObjectInstance(e, wanted) ==
    LET oid == e.dm.ptr.oid
        iid == IF wanted = NoId THEN FreeIid(e, oid) ELSE wanted
        x == [e EXCEPT !.dm.given = wanted # NoId]
        Made(y) == Announce([y EXCEPT !.dm.ptr.inst = InstIdx(y, oid, iid),
                                      !.dm.path = <<oid, iid>> \o SubSeq(@, 3, Len(@)),
                                      !.dm.attempted = TRUE],
                            <<oid, iid>>, "added")
    IN  CASE Full(e, oid) -> Failed(e, "METHOD_NOT_ALLOWED")
          [] wanted # NoId /\ wanted \in Range(InstTable(e.objs, oid)) ->
                Failed(x, "BAD_REQUEST")
          [] "inst_create" \notin Handlers(oid) -> Failed(x, "METHOD_NOT_ALLOWED")
          [] OTHER -> Then(CallInstCreate(x, oid, iid), LAMBDA y : Ok(Made(y)))

----------------------------------------------------------------------------
(* Write. *)

\* only a Bootstrap Server writes to an instance that is not there
MaybeCreateInstance(e) ==
    IF ~ e.dm.bs THEN Failed(e, "NOT_FOUND")
    ELSE Then(CreateObjectInstance([e EXCEPT !.dm.attempted = FALSE], e.dm.path[LevelIid]),
              LAMBDA x : Point(x, GetObjPtrs(x, x.dm.ptr.oid, e.dm.path)))

\* an instance is reset; every instance of a Resource that has instances is deleted
ClearTarget(e, path) ==
    LET p == e.dm.ptr
        table == RiidTable(e.objs, p.oid)
        Drop(r, i) == Then(r, LAMBDA x : DeleteResInstance(
                                 [x EXCEPT !.dm.ptr.riid = RiidTable(x.objs, p.oid)[1]]))
    IN  CASE PathIs(path, LevelIid) ->
                IF "inst_reset" \in Handlers(p.oid) THEN CallInstReset(e, p.oid, IidOf(e, p))
                                                    ELSE Failed(e, "METHOD_NOT_ALLOWED")
          [] PathIs(path, LevelRid) /\ IsMulti(RES[p.oid][p.rid].kind) ->
                FoldLeft(Drop, Ok(e), [i \in 1 .. CountIds(table) |-> i])
          [] OTHER -> Ok(e)

BeginReplace(e, path) ==
    LET oid == path[LevelOid]
        Find(x) == LET found == Point(x, GetObjPtrs(x, oid, path))
                   IN  IF found.ret = "NOT_FOUND"
                       THEN MaybeCreateInstance([x EXCEPT !.dm.ptr.oid = oid]) ELSE found
    IN  Then(Then(EnsureTransactionBegin(e, oid), Find), LAMBDA x : ClearTarget(x, path))

BeginWrite(e, path) ==
    LET x == [e EXCEPT !.dm.tx = TRUE, !.dm.path = path]
    IN  IF e.dm.op = "Replace" THEN BeginReplace(x, path)
        ELSE Then(EnsureTransactionBegin(x, path[LevelOid]),
                  LAMBDA y : Point(y, GetObjPtrs(y, path[LevelOid], path)))

VerifyResource(e, record) ==
    LET res == RES[e.dm.ptr.oid][e.dm.ptr.rid]
    IN  CASE ~ IsWritable(res.kind, e.dm.bs) -> "METHOD_NOT_ALLOWED"
          [] record.type \notin {res.type, "null"} -> "BAD_REQUEST"
          [] IsMulti(res.kind) # PathHas(record.path, LevelRiid) -> "METHOD_NOT_ALLOWED"
          [] OTHER -> "OK"

\* the Resource Instance a record names is found, or made, or deleted by a null
HandleResInstances(e, record) ==
    LET riid == record.path[LevelRiid]
        p == e.dm.ptr
        table == RiidTable(e.objs, p.oid)
        x == [e EXCEPT !.dm.ptr.riid = riid]
    IN  CASE record.type = "null" ->
                IF HasId(table, riid) THEN DeleteResInstance(x) ELSE Ok(x)
          [] \E i \in 1 .. CountIds(table) : table[i] = riid -> Ok(x)
          [] CountIds(table) = Len(table) -> Failed(x, "MEMORY")
          [] "res_inst_create" \notin Handlers(p.oid) -> Failed(x, "METHOD_NOT_ALLOWED")
          [] OTHER -> Ok(Announce([x EXCEPT !.objs[p.oid] = Bin!ResInstCreate(@, riid)],
                                  <<p.oid, IidOf(e, p), p.rid, riid>>, "added"))

UpdateResVal(e, value) ==
    LET p == e.dm.ptr
    IN  IF "res_write" \in Handlers(p.oid)
        THEN CallResWrite(e, p.oid, IidOf(e, p), p.rid, p.riid, value)
        ELSE Failed(e, "METHOD_NOT_ALLOWED")

\* below an Object or an instance a Resource that is not supported is no error
WriteEntry(e, record) ==
    LET path == record.path
        wide == ~ PathHas(e.dm.path, LevelRid)
        begun == IF e.dm.op # "WriteComp" THEN Ok(e)
                 ELSE Then(EnsureTransactionBegin(e, path[LevelOid]),
                           LAMBDA x : Ok([x EXCEPT !.dm.ptr.oid = path[LevelOid]]))
        Instances(x) == IF IsMulti(RES[x.dm.ptr.oid][x.dm.ptr.rid].kind)
                        THEN HandleResInstances(x, record) ELSE Ok(x)
        Written(r) == CASE r.ret = "OK" -> Ok(Announce(r.v, path, "changed"))
                        [] r.ret \in {"NOT_FOUND", "NOT_IMPLEMENTED"} /\ wide -> Ok(r.v)
                        [] OTHER -> r
        Checked(x, verdict) ==
            IF verdict # "OK" THEN Failed(x, verdict)
            ELSE Then(Instances(x), LAMBDA y : Written(UpdateResVal(y, record.value)))
        Resource(x, res) ==
            CASE res.ret = "OK" ->
                    Then(Point(x, res), LAMBDA y : Checked(y, VerifyResource(y, record)))
              [] res.ret # "OK" /\ wide ->
                    Point(x, GetObjPtrs(x, x.dm.ptr.oid, SubSeq(path, 1, LevelIid)))
              [] OTHER -> Failed(x, res.ret)
        After(r) == IF r.ret = "OK"
                    THEN Resource(r.v, GetObjPtrs(r.v, r.v.dm.ptr.oid, SubSeq(path, 1, LevelRid)))
                    ELSE r
    IN  IF \/ ~ PathHas(path, LevelRid)
           \/ PathOutsideBase(path, e.dm.path)
           \/ e.dm.op = "WriteComp" /\ record.type = "null" /\ ~ PathHas(path, LevelRiid)
        THEN Failed(e, "BAD_REQUEST")
        ELSE After(begun)

----------------------------------------------------------------------------
(* Execute, and the end of an operation. *)

BeginExecute(e, path) ==
    Then(Point(e, GetEntityPtrs(e, path)),
         LAMBDA x : IF RES[x.dm.ptr.oid][x.dm.ptr.rid].kind = "E" THEN Ok(x)
                    ELSE Failed(x, "METHOD_NOT_ALLOWED"))

Execute(e) == CallResExecute(e, e.dm.ptr.oid, IidOf(e, e.dm.ptr), e.dm.ptr.rid)

\* Mutant of OperationValidate: the last Object's opinion counts.
OperationValidateLast(e) ==
    LET asked == SelectSeq(e.dm.objs, LAMBDA oid : oid \in e.dm.inTx \/ oid = OidBinary)
    IN  IF asked = << >> \/ CallValidate(e, asked[Len(asked)]) = "OK" THEN Ok(e)
        ELSE Failed(e, "BAD_REQUEST")

\* the Objects in the transaction, until one refuses
OperationValidate(e) ==
    IF \A oid \in e.dm.inTx : CallValidate(e, oid) = "OK" THEN Ok(e)
    ELSE Failed(e, "BAD_REQUEST")

OperationEnd(e, success) ==
    LET End(x, oid) == IF oid \in x.dm.inTx THEN CallEnd(x, oid, success) ELSE x
        ended == IF e.dm.tx THEN FoldLeft(End, e, e.dm.objs) ELSE e
    IN  [ended EXCEPT !.dm.inTx = IF e.dm.tx THEN {} ELSE @, !.dm.busy = FALSE]
=============================================================================
