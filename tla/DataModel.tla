------------------------------- MODULE DataModel -------------------------------
(***************************************************************************)
(* The data model as the exchange layer drives it: a request opens an      *)
(* operation, its payload arrives block by block, the answer is produced   *)
(* block by block, and the completion closes the operation, with success   *)
(* or (a failed call, a timeout, a lost connection) with failure.  Between *)
(* any two of these calls the application may run: poll a sensor, install  *)
(* or remove an Object.                                                    *)
(*                                                                         *)
(* A request is [op, ssid, path, payload, refused, deny]; ssid 0 stands    *)
(* for _ANJ_SSID_BOOTSTRAP, refused says that the format is not one the    *)
(* I/O layer can read or write for it, deny holds the Objects whose        *)
(* transaction_begin fails this time.  A payload is a sequence of records  *)
(* [path, type, value]: a type "any" leaves it to the data model to say    *)
(* what the Resource holds, a string or a byte value may come in several   *)
(* chunks, "none" is a record without a value, "malformed" one that cannot *)
(* be decoded.                                                             *)
(***************************************************************************)
EXTENDS DmRead

CONSTANTS
    Workloads,      \* [objs, requests, observed, polls, dynamic, external, server]:
                    \* what is installed, the requests that come, the reads for
                    \* notifications, whether the sensor is polled, whether the
                    \* Temperature Object comes and goes, where keys are kept,
                    \* whether a server's account is configured
    MaxObjects,     \* ANJ_DM_MAX_OBJECTS_NUMBER
    Accounts        \* the Security instances added before the Object is installed

VARIABLES
    workload,
    dm, objs, crypto, news,
    phase,          \* "idle", "payload", "answer", "answered", "failed", or
                    \* "aborted" by an assertion
    req,            \* the request being served
    rest,           \* of its payload, what has not come yet
    out,            \* the records of the answer so far
    before,         \* the Objects when the operation began
    raw             \* the Objects whose last transaction ended without a validation

dmVars == <<workload, dm, objs, crypto, news, phase, req, rest, out, before, raw>>

Env == [dm |-> dm, objs |-> objs, c |-> crypto, news |-> news]

NoRequest == [op |-> "none", ssid |-> 0, path |-> << >>, payload |-> << >>, refused |-> FALSE,
              deny |-> {}]

\* nothing of the last operation is read by the next one
IdleDm(installed) ==
    [objs |-> installed, busy |-> FALSE, op |-> "none", bs |-> FALSE, tx |-> FALSE,
     inTx |-> {}, deny |-> {}, path |-> << >>, attempted |-> FALSE, given |-> FALSE, ptr |-> NoPtr,
     count |-> 0, total |-> 0, level |-> LevelOid, obj |-> 1, inst |-> 1, res |-> 1,
     rinst |-> 1, paths |-> << >>, done |-> 0, object |-> 1, copying |-> FALSE]

ObjectsInit(w) ==
    [oid \in Oids |->
        CASE oid = OidSecurity ->
                FoldLeft(LAMBDA o, init : Sec!AddInstance(o, init).v,
                         Sec!SecurityInit(w.external), Accounts)
          [] oid = OidServer ->
                IF ~ w.server THEN Srv!ServerInit
                ELSE Srv!AddInstance(Srv!ServerInit, [ssid |-> 1, lifetime |-> 1, iid |-> NoId,
                                                      binding |-> <<"U">>]).v
          [] oid = OidDevice -> "device"
          [] oid = OidBinary -> Bin!ContainerInit
          [] oid = OidTemperature -> Tmp!TemperatureInit]

DmInit ==
    /\ workload \in DOMAIN Workloads
    /\ dm = IdleDm(Workloads[workload].objs)
    /\ objs = ObjectsInit(Workloads[workload])
    /\ crypto = StorageInit(<< >>)
    /\ news = {}
    /\ phase = "idle" /\ req = NoRequest /\ rest = << >> /\ out = << >> /\ before = << >>
    /\ raw = {}

----------------------------------------------------------------------------
(* Requests. *)

\* _anj_dm_operation_begin
OperationBegin(e, op, bs, path) ==
    LET x == [e EXCEPT !.dm.op = op, !.dm.bs = bs, !.dm.tx = FALSE, !.dm.busy = TRUE]
    IN  CASE ~ bs /\ PathToSecurityOrOscore(path) -> Failed(x, "UNAUTHORIZED")
          [] op = "ReadComp" -> Ok([x EXCEPT !.dm.count = 0, !.dm.object = 1])
          [] op = "WriteComp" -> Ok([x EXCEPT !.dm.tx = TRUE, !.dm.path = << >>])
          [] op = "Register" -> BeginRegister(x)
          [] op = "Discover" -> IF bs THEN BeginBootstrapDiscover(x, path)
                                      ELSE BeginDiscover(x, path)
          [] op = "Execute" -> BeginExecute(x, path)
          [] op = "Read" -> BeginRead(x, path)
          [] op \in {"Replace", "Update"} -> BeginWrite(x, path)
          [] op = "Create" -> BeginCreate(x, path)
          [] op = "Delete" -> ProcessDelete(x, path)

\* what is left to do once the operation is open; the I/O contexts refuse a format
Opened(e, r) ==
    CASE r.op = "Execute" -> IF r.payload = << >> THEN Execute(e) ELSE Ok(e)
      [] r.op = "Delete" -> OperationValidate(e)
      [] r.refused -> Failed(e, "UNSUPPORTED_FORMAT")
      [] r.op = "ReadComp" -> Ok([e EXCEPT !.dm.paths = << >>, !.dm.done = 0])
      [] OTHER -> Ok(e)

Become(e) ==
    /\ dm' = e.dm /\ objs' = e.objs /\ crypto' = e.c /\ news' = e.news

\* no operation is open: what is left of the last one is dead
Closed(e) ==
    /\ Become([e EXCEPT !.dm = IdleDm(e.dm.objs), !.news = {}])
    /\ phase' = "idle" /\ req' = NoRequest /\ rest' = << >> /\ out' = << >> /\ before' = << >>

\* _anj_dm_process_request; a failure here closes the operation at once
ProcessRequest(r) ==
    /\ phase = "idle"
    /\ UNCHANGED <<workload, raw>>
    /\ \E opened \in {Then(OperationBegin([Env EXCEPT !.dm.deny = r.deny], r.op, r.ssid = 0, r.path),
                           LAMBDA x : Opened(x, r))} :
          IF opened.ret # "OK" THEN Closed(OperationEnd(opened.v, FALSE))
          ELSE /\ Become(opened.v)
               /\ phase' = IF r.payload = << >> THEN "answer" ELSE "payload"
               /\ req' = r /\ rest' = r.payload /\ out' = << >> /\ before' = objs

\* _anj_dm_observe_build_msg, the first time: a failure is left for the observe
\* module to close; r.op is "Read" or "ReadComp", r.payload the paths observed
ObserveBegin(r) ==
    LET composite == r.op = "ReadComp"
        paths == [i \in DOMAIN r.payload |-> r.payload[i].path]
        begun == OperationBegin(Env, r.op, FALSE, IF composite THEN << >> ELSE paths[1])
        Count(x, p) == IF composite THEN CountIfAllowed(x, p) ELSE Ok(x.dm.total)
        Counted(x) ==
            IF \E i \in DOMAIN paths :
                  \/ Count(x, paths[i]).ret # "OK"
                  \/ Count(x, paths[i]).v = 0 /\ PathHas(paths[i], LevelRid)
            THEN Failed(x, "METHOD_NOT_ALLOWED")
            ELSE IF r.refused THEN Failed(x, "UNSUPPORTED_FORMAT")
            ELSE Ok([x EXCEPT !.dm.done = 0,
                              !.dm.paths = IF \A i \in DOMAIN paths : Count(x, paths[i]).v = 0
                                              \/ ~ composite
                                           THEN << >> ELSE paths])
    IN  /\ phase = "idle"
        /\ \E opened \in {Then(begun, Counted)} :
              /\ Become(opened.v)
              /\ phase' = IF opened.ret = "OK" THEN "answer" ELSE "failed"
        /\ req' = r /\ rest' = << >> /\ out' = << >> /\ before' = objs
        /\ UNCHANGED <<workload, raw>>

\* _anj_dm_process_register_update_payload
RegisterPayload ==
    /\ phase = "idle"
    /\ Become(OperationBegin(Env, "Register", FALSE, << >>).v)
    /\ phase' = "answer"
    /\ req' = [NoRequest EXCEPT !.op = "Register", !.ssid = 1]
    /\ rest' = << >> /\ out' = << >> /\ before' = objs
    /\ UNCHANGED <<workload, raw>>

----------------------------------------------------------------------------
(* The payload of a request. *)

\* a path of a Read-Composite; one with nothing to read is left out
AddCompPath(e, path) ==
    CASE Len(e.dm.paths) = MaxCompPaths -> Failed(e, "LOGIC")
      [] PathHasReadable(e, path) -> Ok([e EXCEPT !.dm.paths = Append(@, path)])
      [] OTHER -> Ok(e)

\* the record under the path of the instance a Create has made
Rebased(e, record) ==
    IF e.dm.op = "Create" THEN [record EXCEPT !.path[LevelIid] = e.dm.path[LevelIid]]
                          ELSE record

Typed(e, record) ==
    LET As(found) == IF found.ret # "OK" THEN Err(record, found.ret)
                     ELSE Ok([record EXCEPT !.type = RES[found.v.oid][found.v.rid].type])
    IN  CASE record.type # "any" -> Ok(record)
          [] ~ PathHas(record.path, LevelRid) -> Err(record, "BAD_REQUEST")
          [] OTHER -> As(GetEntityPtrs(e, SubSeq(record.path, 1, LevelRid)))

\* one round of process_write; "STOP" ends the block without an error
ProcessRecord(e, record) ==
    LET path == record.path
        made == IF e.dm.op = "Create" /\ ~ e.dm.attempted
                THEN CreateObjectInstance(e, path[LevelIid]) ELSE Ok(e)
        Write(x, typed) ==
            CASE typed.ret # "OK" -> Failed(x, typed.ret)
              [] record.type = "none" ->
                    IF x.dm.op = "Create" THEN Err(x, "STOP") ELSE Failed(x, "BAD_REQUEST")
              [] OTHER -> WriteEntry(x, typed.v)
        After(r) == IF r.ret = "OK" THEN Write(r.v, Typed(r.v, Rebased(r.v, record))) ELSE r
    IN  CASE record.type = "malformed" -> Failed(e, "BAD_REQUEST")
          [] e.dm.op = "ReadComp" -> AddCompPath(e, path)
          [] e.dm.op = "WriteComp" /\ PathToSecurityOrOscore(path) -> Failed(e, "UNAUTHORIZED")
          [] OTHER -> After(made)

ProcessWrite(e, records) ==
    LET Next1(r, record) == IF r.ret = "OK" THEN ProcessRecord(r.v, record) ELSE r
        upTo[i \in 0 .. Len(records)] == IF i = 0 THEN Ok(e) ELSE Next1(upTo[i - 1], records[i])
        Stopped(r) == IF r.ret = "STOP" THEN Ok(r.v) ELSE r
    IN  Stopped(upTo[Len(records)])

\* the paths of a Read-Composite are all known: a request with nothing to read
\* gets an empty answer
CompositeCounted(e) ==
    LET counts == [i \in DOMAIN e.dm.paths |-> CountIfAllowed(e, e.dm.paths[i])]
    IN  IF \E i \in DOMAIN counts : counts[i].ret # "OK" THEN Failed(e, "NOT_FOUND")
        ELSE IF \A i \in DOMAIN counts : counts[i].v = 0
             THEN Ok([e EXCEPT !.dm.paths = << >>]) ELSE Ok(e)

Chunked(record) == record.type \in {"string", "bytes", "any"}

\* the first k tokens of a value, and what is left of it: the whole length is
\* known with the last chunk
FirstChunk(record, k) ==
    [record EXCEPT !.value = [data |-> SubSeq(@.data, 1, k), offset |-> @.offset, hint |-> 0]]

LastChunk(record, k) ==
    [record EXCEPT !.value = [@ EXCEPT !.data = SubSeq(@, k + 1, Len(@)), !.offset = @ + k]]

\* _dm_write_payload: a block of n records and the first k tokens of the next one
WritePayload(n, k) ==
    LET cut == SubSeq(rest, n + 1, Len(rest))
        block == SubSeq(rest, 1, n) \o (IF k = 0 THEN << >> ELSE <<FirstChunk(cut[1], k)>>)
        left == IF k = 0 THEN cut ELSE [cut EXCEPT ![1] = LastChunk(@, k)]
        last == left = << >>
        written == IF dm.op = "Execute" THEN Execute(Env) ELSE ProcessWrite(Env, block)
        Ended(e) == CASE last /\ dm.op = "ReadComp" -> CompositeCounted(e)
                      [] last /\ dm.tx -> OperationValidate(e)
                      [] OTHER -> Ok(e)
    IN  /\ phase = "payload"
        /\ n \in 0 .. Len(rest) /\ n + k > 0
        /\ k > 0 => n < Len(rest) /\ Chunked(cut[1]) /\ k <= Len(cut[1].value.data)
        /\ rest' = left
        /\ \E r \in {Then(written, Ended)} :
              /\ Become(r.v)
              /\ phase' = CASE r.ret # "OK" -> "failed"
                            [] last -> "answer"
                            [] OTHER -> "payload"
        /\ UNCHANGED <<workload, req, out, before, raw>>

----------------------------------------------------------------------------
(* The answer. *)

\* Mutant of Resumed: the path of the record is not done with it.
ResumedAtPath(e) == [e EXCEPT !.dm.copying = FALSE]

\* the rest of a record that did not fit the last block; with the last record of
\* a path that path is done
Resumed(e) ==
    IF ~ e.dm.copying THEN e
    ELSE [e EXCEPT !.dm.copying = FALSE,
                   !.dm.done = IF e.dm.op = "ReadComp" /\ e.dm.count = 0 THEN @ + 1 ELSE @]

\* the next path that has a record, if one is left
SeekPath(e) ==
    LET Passed(r, i) ==
            IF r.ret = "NO_RECORD" THEN Err([r.v EXCEPT !.dm.done = i], "NO_RECORD") ELSE r
        Try(r, i) ==
            IF r.ret # "NO_RECORD" THEN r
            ELSE Passed(CompositeNextPath([r.v EXCEPT !.dm.object = 1], e.dm.paths[i]), i)
        upTo[i \in e.dm.done .. Len(e.dm.paths)] ==
            IF i = e.dm.done THEN Err(e, "NO_RECORD") ELSE Try(upTo[i - 1], i)
    IN  upTo[Len(e.dm.paths)]

\* one more record into the block, "LAST" with the last one and "END" when there
\* is none
NextRecord(e) ==
    LET At(sought) ==
            CASE sought.ret # "OK" ->
                    Err([e |-> sought.v, record |-> << >>],
                        IF sought.ret = "NO_RECORD" THEN "END" ELSE sought.ret)
              [] sought.v.dm.count = 0 -> Err([e |-> e, record |-> << >>], "END")
              [] e.dm.op \in {"Read", "ReadComp"} -> GetReadEntry(sought.v)
              [] e.dm.op = "Register" -> GetRegisterRecord(e)
              [] e.dm.bs -> GetBootstrapDiscoverRecord(e)
              [] OTHER -> GetDiscoverRecord(e)
    IN  At(IF e.dm.op = "ReadComp" /\ e.dm.count = 0 THEN SeekPath(e) ELSE Ok(e))

\* a record that is complete ends its path when it is the last one
Complete(e) ==
    IF e.dm.op = "ReadComp" /\ e.dm.count = 0 THEN [e EXCEPT !.dm.done = @ + 1] ELSE e

\* the next n records
Records(e, n) ==
    LET Added(records, got) ==
            [e |-> got.v.e, ret |-> got.ret,
             records |-> IF got.ret \in {"OK", "LAST"} THEN Append(records, got.v.record)
                         ELSE records]
        Next1(r, i) ==
            IF r.ret \notin {"OK", "LAST"} THEN r
            ELSE Added(r.records, NextRecord(IF i = 1 THEN r.e ELSE Complete(r.e)))
        upTo[i \in 0 .. n] ==
            IF i = 0 THEN [e |-> e, ret |-> "OK", records |-> << >>] ELSE Next1(upTo[i - 1], i)
    IN  upTo[n]

RecordsLeft(e) ==
    e.dm.count + SumOver(SubSeq(e.dm.paths, e.dm.done + 1, Len(e.dm.paths)),
                         LAMBDA p : CountIfAllowed(e, p).v)

\* the answer to anything but a read has no payload; a Create without one makes
\* its instance here
PlainAnswer ==
    LET made == IF dm.op = "Create" /\ ~ dm.attempted
                THEN Then(CreateObjectInstance(Env, NoId), OperationValidate) ELSE Ok(Env)
    IN  /\ phase = "answer"
        /\ dm.op \notin {"Read", "ReadComp", "Register", "Discover"}
        /\ Become(made.v)
        /\ phase' = IF made.ret = "OK" THEN "answered" ELSE "failed"
        /\ UNCHANGED <<workload, req, rest, out, before, raw>>

\* _dm_read_payload: the block ends behind record n, or (cut) inside it; one that
\* is full when a path of a Read-Composite is done leaves no room to ask for the
\* payload of the next one with, which an assertion forbids
ReadPayload(n, cut) ==
    LET e == Resumed(Env)
        More(x) == Records(Complete(x), 1).ret # "END"
    IN  /\ phase = "answer"
        /\ dm.op \in {"Read", "ReadComp", "Register", "Discover"}
        /\ n \in 1 .. RecordsLeft(e) + 1
        /\ \E r \in {Records(e, n)} :
           \E finished \in {r.ret = "END" \/ (r.ret \in {"OK", "LAST"} /\ ~ cut /\ ~ More(r.e))} :
              /\ cut => r.ret \in {"OK", "LAST"}
              /\ out' = out \o r.records
              /\ phase' = CASE r.ret \notin {"OK", "LAST", "END"} -> "failed"
                            [] dm.op = "ReadComp" /\ ~ cut /\ ~ finished /\ r.e.dm.count = 0 ->
                                   "aborted"
                            [] finished -> "answered"
                            [] OTHER -> "answer"
              /\ Become(CASE cut -> [r.e EXCEPT !.dm.copying = TRUE]
                          [] r.ret = "LAST" -> Complete(r.e)
                          [] OTHER -> r.e)
        /\ UNCHANGED <<workload, req, rest, before, raw>>

----------------------------------------------------------------------------
(* The end of an operation, and the application. *)

\* a write without a payload never comes to _dm_write_payload, which validates
Unvalidated == req.payload = << >> /\ req.op \in {"Replace", "Update", "WriteComp"}

\* _dm_process_finalization: success once the answer is out, failure at any time
Finalization(success) ==
    /\ phase \notin {"idle", "aborted"}
    /\ success => phase = "answered"
    /\ Closed(OperationEnd(Env, success))
    /\ raw' = CASE ~ success \/ ~ dm.tx -> raw
                [] Unvalidated -> raw \cup dm.inTx
                [] OTHER -> raw \ dm.inTx
    /\ UNCHANGED workload

\* the poll of the sensor: a backup does not follow it
UpdateTemperature ==
    /\ Workloads[workload].polls
    /\ \E polled \in Tmp!UpdateValue(objs[OidTemperature]) :
          /\ objs' = [objs EXCEPT ![OidTemperature] = polled]
          /\ before' = IF phase = "idle" \/ OidTemperature \in dm.inTx THEN before
                       ELSE [before EXCEPT ![OidTemperature] = polled]
    /\ UNCHANGED <<workload, dm, crypto, news, phase, req, rest, out, raw>>

\* anj_dm_add_obj and anj_dm_remove_obj, refused during an operation
AddObj(oid) ==
    LET larger == {i \in DOMAIN dm.objs : dm.objs[i] > oid}
        at == IF larger = {} THEN Len(dm.objs) + 1 ELSE CHOOSE i \in larger : \A j \in larger : i <= j
    IN  /\ Workloads[workload].dynamic
        /\ ~ dm.busy /\ Len(dm.objs) < MaxObjects /\ oid \notin Range(dm.objs)
        /\ dm' = [dm EXCEPT !.objs = InsertAt(@, at, oid)]
        /\ UNCHANGED <<workload, objs, crypto, news, phase, req, rest, out, before, raw>>

RemoveObj(oid) ==
    /\ Workloads[workload].dynamic
    /\ ~ dm.busy /\ oid \in Range(dm.objs)
    /\ dm' = [dm EXCEPT !.objs = SelectSeq(@, LAMBDA x : x # oid)]
    /\ UNCHANGED <<workload, objs, crypto, news, phase, req, rest, out, before, raw>>

\* anj_dm_res_read, outside any operation
ResourceValue(e, path) ==
    LET Read(p, kind) ==
            CASE ~ IsReadable(kind) -> Err(0, "METHOD_NOT_ALLOWED")
              [] IsMulti(kind) /\ ~ PathHas(path, LevelRiid) -> Err(0, "BAD_REQUEST")
              [] OTHER -> CallResRead(e, p.oid, path[LevelIid], p.rid, p.riid)
        At(found) == IF found.ret # "OK" THEN Err(0, found.ret)
                     ELSE Read(found.v, RES[found.v.oid][found.v.rid].kind)
    IN  IF PathHas(path, LevelRid) THEN At(GetEntityPtrs(e, path)) ELSE Err(0, "BAD_REQUEST")

\* what the core asks after a bootstrap: a server with an account of its own
BootstrapValidation(e) ==
    LET Ids(oid) == IF HasId(e.dm.objs, oid) THEN Range(Used(InstTable(e.objs, oid))) ELSE {}
        Value(oid, iid, rid) == ResourceValue(e, <<oid, iid, rid>>)
    IN  \E srv \in Ids(OidServer), sec \in Ids(OidSecurity) :
            Value(OidServer, srv, Srv!RidSsid).v = Value(OidSecurity, sec, Sec!RidSsid).v

\* the first server, if there is one
ServerObjInstanceData(e) ==
    LET table == InstTable(e.objs, OidServer)
    IN  IF ~ HasId(e.dm.objs, OidServer) \/ CountIds(table) = 0
        THEN [ssid |-> NoId, iid |-> NoId]
        ELSE [ssid |-> ResourceValue(e, <<OidServer, table[1], Srv!RidSsid>>).v, iid |-> table[1]]

\* the account of a server, 0 standing for the Bootstrap Server
SecurityObjInstanceIid(e, ssid) ==
    LET ids == IF HasId(e.dm.objs, OidSecurity) THEN Used(InstTable(e.objs, OidSecurity)) ELSE << >>
        Value(iid, rid) == ResourceValue(e, <<OidSecurity, iid, rid>>).v
        First(mine) == IF mine = {} THEN NoId ELSE ids[CHOOSE i \in mine : \A j \in mine : i <= j]
    IN  First({i \in DOMAIN ids : IF ssid = 0 THEN Value(ids[i], Sec!RidBootstrapServer)
                                   ELSE Value(ids[i], Sec!RidSsid) = ssid})
=============================================================================
