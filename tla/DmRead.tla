--------------------------------- MODULE DmRead ---------------------------------
(***************************************************************************)
(* The operations that walk the data model record by record, resumed for   *)
(* every block of the answer: Read, Read-Composite, Register and Update,   *)
(* Discover and Bootstrap-Discover.  dm.count is the number of records to  *)
(* come, counted when the operation begins; the cursor must then find      *)
(* exactly as many:                                                        *)
(*   level, obj, inst, res, rinst   the cursor's level and its indices     *)
(*   total      the count at the beginning                                 *)
(*   paths, done, object   the paths of a Read-Composite, how many of them *)
(*              have been read, the Object the root path has come to       *)
(* A record is [path, value]; for a Discover [path, dim], for a            *)
(* Bootstrap-Discover [path, ssid].  An assertion that fails in the code   *)
(* is the result "ASSERT".                                                 *)
(***************************************************************************)
EXTENDS DmCore

CONSTANT MaxCompPaths       \* ANJ_DM_MAX_COMP_READ_ENTRIES

ASSUME MaxCompPathsAssumption == MaxCompPaths \in Nat \ {0}

Hidden == {OidSecurity, OidOscore}

SumOver(seq, Count(_)) == FoldLeft(LAMBDA n, x : n + Count(x), 0, seq)

Used(table) == SubSeq(table, 1, CountIds(table))

CountOfRes(e, oid, rid) ==
    LET kind == RES[oid][rid].kind
    IN  IF ~ IsReadable(kind) THEN 0
        ELSE IF IsMulti(kind) THEN CountIds(RiidTable(e.objs, oid)) ELSE 1

\* a Resource counts once, or once for each of its instances
CountOfInst(e, oid) ==
    LET Count(res) ==
            LET readable == {rid \in DOMAIN res : IsReadable(res[rid].kind)}
                multi == {rid \in readable : IsMulti(res[rid].kind)}
            IN  Cardinality(readable \ multi)
                + Cardinality(multi) * CountIds(RiidTable(e.objs, oid))
    IN  Count(RES[oid])

CountOfObj(e, oid) == CountIds(InstTable(e.objs, oid)) * CountOfInst(e, oid)

\* what the pointers refer to
CountAt(e, p) ==
    CASE p.riid # NoId -> IF IsReadable(RES[p.oid][p.rid].kind) THEN 1 ELSE 0
      [] p.riid = NoId /\ p.rid # NoId -> CountOfRes(e, p.oid, p.rid)
      [] p.rid = NoId /\ p.inst # 0 -> CountOfInst(e, p.oid)
      [] OTHER -> CountOfObj(e, p.oid)

LevelAt(p) == CASE p.riid # NoId -> LevelRiid
                [] p.riid = NoId /\ p.rid # NoId -> LevelRid
                [] p.rid = NoId /\ p.inst # 0 -> LevelIid
                [] OTHER -> LevelOid

StartLevel(e) ==
    LET p == e.dm.ptr
        Counted(n) == Ok([e EXCEPT !.dm.level = LevelAt(p), !.dm.total = n, !.dm.count = n])
    IN  IF p.rid # NoId /\ ~ IsReadable(RES[p.oid][p.rid].kind)
        THEN Failed(e, "METHOD_NOT_ALLOWED")
        ELSE Counted(CountAt(e, p))

Rewound(e) == [e EXCEPT !.dm.inst = 1, !.dm.res = 1, !.dm.rinst = 1]

\* a Bootstrap Server reads the Server and the Access Control Object only
BeginRead(e, path) ==
    IF /\ e.dm.bs
       /\ path[LevelOid] \notin {OidServer, OidAccessControl} \/ PathHas(path, LevelRid)
    THEN Failed(e, "METHOD_NOT_ALLOWED")
    ELSE Then(Then(Point(e, GetEntityPtrs(e, path)), StartLevel), LAMBDA x : Ok(Rewound(x)))

\* what may be named in a composite request or observed
ResCanBeRead(e, oid, rid) ==
    LET kind == RES[oid][rid].kind
    IN  IsReadable(kind) /\ (IsMulti(kind) => RiidTable(e.objs, oid)[1] # NoId)

InstCanBeRead(e, oid) == \E rid \in DOMAIN RES[oid] : ResCanBeRead(e, oid, rid)

ObjCanBeRead(e, oid) ==
    InstTable(e.objs, oid)[1] # NoId /\ InstCanBeRead(e, oid)

PathHasReadable(e, path) ==
    LET found == GetEntityPtrs(e, path)
    IN  CASE PathToSecurityOrOscore(path) -> FALSE
          [] ~ PathHas(path, LevelOid) -> \E oid \in Range(e.dm.objs) : ObjCanBeRead(e, oid)
          [] found.ret # "OK" -> FALSE
          [] PathHas(path, LevelRid) -> ResCanBeRead(e, found.v.oid, found.v.rid)
          [] PathIs(path, LevelIid) -> InstCanBeRead(e, found.v.oid)
          [] OTHER -> ObjCanBeRead(e, found.v.oid)

\* how many records a path of a Read-Composite adds to the answer
CountIfAllowed(e, path) ==
    IF PathHas(path, LevelOid)
    THEN LET found == GetEntityPtrs(e, path) IN [v |-> CountAt(e, found.v), ret |-> found.ret]
    ELSE Ok(SumOver(e.dm.objs, LAMBDA oid : IF oid \in Hidden THEN 0 ELSE CountOfObj(e, oid)))

----------------------------------------------------------------------------
(* Read. *)

\* the cursor after the Resource it is at, whatever its instances
NextRes(dm, n) ==
    IF dm.res = n THEN [dm EXCEPT !.res = 1, !.inst = @ + 1] ELSE [dm EXCEPT !.res = @ + 1]

\* the record of the Resource at this place of the cursor's walk, at
ReadHere(e, at) ==
    LET oid == e.dm.ptr.oid
        n == Len(Rids[oid])
        insts == InstTable(e.objs, oid)
        riids == RiidTable(e.objs, oid)
        rid == Rids[oid][at.res]
        here == [at EXCEPT !.ptr.inst = IF at.level = LevelOid THEN at.inst ELSE @,
                           !.ptr.rid = rid]
    IN  CASE at.level = LevelOid /\ at.inst > Len(insts) -> Err(e, "ASSERT")
          [] ~ IsMulti(RES[oid][rid].kind) ->
                Ok([e EXCEPT !.dm = [NextRes(here, n) EXCEPT !.ptr.riid = NoId]])
          [] at.rinst > CountIds(riids) -> Err(e, "ASSERT")
          [] at.rinst = CountIds(riids) ->
                Ok([e EXCEPT !.dm = [NextRes(here, n) EXCEPT !.ptr.riid = riids[at.rinst],
                                                             !.rinst = 1]])
          [] OTHER ->
                Ok([e EXCEPT !.dm = [here EXCEPT !.ptr.riid = riids[at.rinst], !.rinst = @ + 1]])

\* the resources at or behind the cursor, until one yields a record
ReadableFrom(e) ==
    LET oid == e.dm.ptr.oid
        rids == Rids[oid]
        insts == InstTable(e.objs, oid)
        skip[i \in 1 .. Len(insts) + 1, r \in DOMAIN rids] ==
            CASE i > Len(insts) \/ ResCanBeRead(e, oid, rids[r]) -> [e.dm EXCEPT !.inst = i, !.res = r]
              [] r = Len(rids) -> skip[i + 1, 1]
              [] OTHER -> skip[i, r + 1]
    IN  ReadHere(e, skip[e.dm.inst, e.dm.res])

\* the next path, or the next Object of the root path that has anything to read
CompositeNextPath(e, path) ==
    LET root == ~ PathHas(path, LevelOid)
        Start(x, p) == Then(Then(Point(x, GetEntityPtrs(x, p)), StartLevel),
                            LAMBDA y : IF y.dm.count = 0 THEN Err(y, "NO_RECORD")
                                       ELSE Ok(Rewound(y)))
        left == {i \in e.dm.object .. Len(e.dm.objs) :
                    e.dm.objs[i] \notin Hidden /\ CountOfObj(e, e.dm.objs[i]) > 0}
        First(set) == CHOOSE i \in set : \A j \in set : i <= j
        At(i) == IF i > Len(e.dm.objs)
                 THEN Err([e EXCEPT !.dm.object = Len(e.dm.objs) + 1], "NO_RECORD")
                 ELSE Start([e EXCEPT !.dm.object = IF root THEN i + 1 ELSE @],
                            IF root THEN <<e.dm.objs[i]>> ELSE path)
    IN  At(IF root THEN First(left \cup {Len(e.dm.objs) + 1}) ELSE 0)

\* behind the last record of an Object of the root path comes the next one
Onward(e) ==
    IF e.dm.op = "ReadComp" /\ e.dm.count = 0 /\ e.dm.object \in 2 .. Len(e.dm.objs)
    THEN CompositeNextPath(e, << >>).v ELSE e

\* "LAST" with the last record of a path
GetReadEntry(e) ==
    LET rinst == e.dm.rinst
        riids == RiidTable(e.objs, e.dm.ptr.oid)
        multi == IsMulti(RES[e.dm.ptr.oid][e.dm.ptr.rid].kind)
        placed ==
            CASE e.dm.level \in {LevelOid, LevelIid} -> ReadableFrom(e)
              [] e.dm.level = LevelRid /\ multi ->
                    IF rinst > Len(riids) THEN Err(e, "ASSERT")
                    ELSE Ok([e EXCEPT !.dm.ptr.riid = riids[rinst], !.dm.rinst = @ + 1])
              [] OTHER -> Ok(e)
        Read(x, path, read) ==
            LET Found(y) == [v |-> [e |-> y, record |-> [path |-> path, value |-> read.v]],
                             ret |-> IF y.dm.count > 0 THEN "OK" ELSE "LAST"]
            IN  IF read.ret # "OK" THEN Err([e |-> x, record |-> << >>], read.ret)
                ELSE Found(Onward([x EXCEPT !.dm.count = @ - 1]))
        Value(x) ==
            LET p == x.dm.ptr
                iid == IidOf(x, p)
            IN  Read(x, IF p.riid = NoId THEN <<p.oid, iid, p.rid>>
                                         ELSE <<p.oid, iid, p.rid, p.riid>>,
                     CallResRead(x, p.oid, iid, p.rid, p.riid))
        At(r) == IF r.ret = "OK" THEN Value(r.v) ELSE Err([e |-> e, record |-> << >>], r.ret)
    IN  At(placed)

----------------------------------------------------------------------------
(* Register and Update: the Objects and their instances, Security and OSCORE aside. *)

BeginRegister(e) ==
    Ok([e EXCEPT !.dm.level = LevelOid, !.dm.obj = 1, !.dm.inst = 1,
                 !.dm.count = SumOver(e.dm.objs, LAMBDA oid :
                     IF oid \in Hidden THEN 0 ELSE 1 + CountIds(InstTable(e.objs, oid)))])

\* one hidden Object at most is passed over in front of another
GetRegisterRecord(e) ==
    LET objs == e.dm.objs
        i == IF e.dm.level = LevelOid /\ objs[e.dm.obj] \in Hidden THEN e.dm.obj + 1 ELSE e.dm.obj
        oid == objs[i]
        table == InstTable(e.objs, oid)
        last == e.dm.inst = CountIds(table)
        next == IF e.dm.level = LevelOid
                THEN IF CountIds(table) = 0 THEN [e.dm EXCEPT !.obj = i + 1]
                     ELSE [e.dm EXCEPT !.obj = i, !.level = LevelIid, !.inst = 1]
                ELSE [e.dm EXCEPT !.inst = @ + 1, !.obj = IF last THEN @ + 1 ELSE @,
                                  !.level = IF last THEN LevelOid ELSE @]
        path == IF e.dm.level = LevelOid THEN <<oid>> ELSE <<oid, table[e.dm.inst]>>
    IN  IF i > Len(objs) \/ (e.dm.level = LevelIid /\ e.dm.inst > CountIds(table))
        THEN Err([e |-> e, record |-> << >>], "ASSERT")
        ELSE [v |-> [e |-> [e EXCEPT !.dm = [next EXCEPT !.count = @ - 1]],
                     record |-> [path |-> path]],
              ret |-> IF e.dm.count > 1 THEN "OK" ELSE "LAST"]

----------------------------------------------------------------------------
(* Discover. *)

\* the SSID beside a Security or Server instance that is not the Bootstrap Server's
SsidOf(e, oid, iid) ==
    CASE oid = OidSecurity ->
            IF IsBootstrapInstance(e, oid, iid) THEN NoId
            ELSE CallResRead(e, oid, iid, Sec!RidSsid, NoId).v
      [] oid = OidServer -> CallResRead(e, oid, iid, Srv!RidSsid, NoId).v
      [] OTHER -> NoId

BeginBootstrapDiscover(e, path) ==
    LET all == ~ PathHas(path, LevelOid)
        picked == {i \in DOMAIN e.dm.objs : all \/ e.dm.objs[i] = path[LevelOid]}
    IN  IF PathHas(path, LevelIid) THEN Failed(e, "INPUT_ARG")
        ELSE Ok([e EXCEPT !.dm.level = LevelOid, !.dm.inst = 1,
                          !.dm.obj = IF all \/ picked = {} THEN 1 ELSE CHOOSE i \in picked : TRUE,
                          !.dm.count = SumOver(e.dm.objs, LAMBDA oid :
                              IF all \/ oid = path[LevelOid]
                              THEN 1 + CountIds(InstTable(e.objs, oid)) ELSE 0)])

GetBootstrapDiscoverRecord(e) ==
    LET oid == e.dm.objs[e.dm.obj]
        table == InstTable(e.objs, oid)
        iid == table[e.dm.inst]
        next == CASE e.dm.level = LevelOid ->
                        IF table[1] # NoId THEN [e.dm EXCEPT !.level = LevelIid]
                                           ELSE [e.dm EXCEPT !.obj = @ + 1]
                  [] e.dm.inst = CountIds(table) ->
                        [e.dm EXCEPT !.inst = 1, !.obj = @ + 1, !.level = LevelOid]
                  [] OTHER -> [e.dm EXCEPT !.inst = @ + 1]
    IN  IF e.dm.obj > Len(e.dm.objs) THEN Err([e |-> e, record |-> << >>], "ASSERT")
        ELSE [v |-> [e |-> [e EXCEPT !.dm = [next EXCEPT !.count = @ - 1]],
                     record |-> IF e.dm.level = LevelOid THEN [path |-> <<oid>>, ssid |-> NoId]
                                ELSE [path |-> <<oid, iid>>, ssid |-> SsidOf(e, oid, iid)]],
              ret |-> IF e.dm.count > 1 THEN "OK" ELSE "LAST"]

\* a Resource and its instances
DiscoverCount(e, oid, rid) ==
    1 + (IF IsMulti(RES[oid][rid].kind) THEN CountIds(RiidTable(e.objs, oid)) ELSE 0)

\* an instance or a Resource that is not there leaves the cursor at the first one
BeginDiscover(e, path) ==
    LET oid == path[LevelOid]
        insts == Used(InstTable(e.objs, oid))
        rids == Rids[oid]
        atInst == {i \in DOMAIN insts : PathHas(path, LevelIid) /\ insts[i] = path[LevelIid]}
        atRes == {r \in DOMAIN rids : /\ PathHas(path, LevelRid) /\ rids[r] = path[LevelRid]
                                      /\ atInst # {}}
        First(set) == IF set = {} THEN 1 ELSE CHOOSE i \in set : TRUE
        multi == {rid \in DOMAIN RES[oid] : IsMulti(RES[oid][rid].kind)}
        perInst == Len(rids) + Cardinality(multi) * CountIds(RiidTable(e.objs, oid))
        n == CASE PathIs(path, LevelOid) -> 1 + Len(insts) * (1 + perInst)
               [] PathIs(path, LevelIid) -> IF atInst = {} THEN 0 ELSE 1 + perInst
               [] OTHER -> IF atRes = {} THEN 0 ELSE DiscoverCount(e, oid, path[LevelRid])
    IN  CASE ~ PathHas(path, LevelOid) \/ PathHas(path, LevelRiid) ->
                Failed(e, "METHOD_NOT_ALLOWED")
          [] ~ HasId(e.dm.objs, oid) -> Failed(e, "NOT_FOUND")
          [] OTHER ->
                Ok([e EXCEPT !.dm = [@ EXCEPT !.ptr.oid = oid, !.level = Len(path),
                                              !.inst = First(atInst), !.res = First(atRes),
                                              !.rinst = 1, !.count = n, !.total = n]])

GetDiscoverRecord(e) ==
    LET oid == e.dm.ptr.oid
        rids == Rids[oid]
        iid == InstTable(e.objs, oid)[e.dm.inst]
        rid == rids[e.dm.res]
        riids == RiidTable(e.objs, oid)
        multi == IsMulti(RES[oid][rid].kind)
        dim == IF multi THEN CountIds(riids) ELSE NoId
        AfterRes(dm) == IF dm.res = Len(rids)
                        THEN [dm EXCEPT !.res = 1, !.inst = @ + 1, !.level = LevelIid]
                        ELSE [dm EXCEPT !.res = @ + 1]
        next == CASE e.dm.level = LevelOid -> [e.dm EXCEPT !.level = LevelIid]
                  [] e.dm.level = LevelIid -> [e.dm EXCEPT !.level = LevelRid]
                  [] e.dm.level = LevelRid ->
                        IF multi /\ dim > 0 THEN [e.dm EXCEPT !.level = LevelRiid]
                                            ELSE AfterRes(e.dm)
                  [] e.dm.level = LevelRiid ->
                        IF e.dm.rinst = CountIds(riids)
                        THEN AfterRes([e.dm EXCEPT !.rinst = 1, !.level = LevelRid])
                        ELSE [e.dm EXCEPT !.rinst = @ + 1]
        path == CASE e.dm.level = LevelOid -> <<oid>>
                  [] e.dm.level = LevelIid -> <<oid, iid>>
                  [] e.dm.level = LevelRid -> <<oid, iid, rid>>
                  [] e.dm.level = LevelRiid -> <<oid, iid, rid, riids[e.dm.rinst]>>
    IN  IF e.dm.level # LevelOid /\ e.dm.inst > Len(InstTable(e.objs, oid))
        THEN Err([e |-> e, record |-> << >>], "ASSERT")
        ELSE [v |-> [e |-> [e EXCEPT !.dm = [next EXCEPT !.count = @ - 1]],
                     record |-> [path |-> path,
                                 dim |-> IF e.dm.level = LevelRid THEN dim ELSE NoId]],
              ret |-> IF e.dm.count > 1 THEN "OK" ELSE "LAST"]
=============================================================================
