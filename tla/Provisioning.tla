------------------------------ MODULE Provisioning ------------------------------
(***************************************************************************)
(* The data model in a device that keeps what a Bootstrap Server gave it:  *)
(* once bootstrapped it writes the Security and the Server Object to one   *)
(* file, and a start restores both or, when either cannot be restored,     *)
(* removes the file and begins with the account of the Bootstrap Server.   *)
(* Power may go at any time, during an operation or while the file is      *)
(* being written; the records of the key storage are files of their own.   *)
(***************************************************************************)
EXTENDS DataModel

CONSTANTS
    BlockRecords,       \* the records of a small block; a large one takes all
    ServerCuts          \* the numbers of fields of the Server Object a torn file may hold

VARIABLES
    disk,       \* the file: [sec, srv], what Store of either Object returns
    stored      \* [keys, settled]: the content of the key records when the file was
                \* written, and whether every record was there and closed then and no
                \* Bootstrap Server has turned to the Security Object since

vars == <<dmVars, disk, stored>>

NoFile == [sec |-> << >>, srv |-> << >>]

NothingStored == [keys |-> << >>, settled |-> FALSE]

\* the records an image of the Security Object names, with their content
KeyRecords(image) ==
    LET Names(keys) == {keys[rid].data : rid \in {r \in DOMAIN keys : keys[r].source = 2}}
        names == UNION {Names(image[i].keys) : i \in DOMAIN image}
    IN  [name \in names |-> IF name \in DOMAIN crypto.files THEN crypto.files[name] ELSE << >>]

\* connection_status_callback is called with ANJ_CONN_STATUS_BOOTSTRAPPED
Bootstrapped ==
    phase = "idle" /\ ~ Workloads[workload].server /\ BootstrapValidation(Env)

\* what both Objects have to store; nothing when one of them refuses
Image ==
    LET sec == Sec!Store(objs[OidSecurity], crypto)
        srv == Srv!Store(objs[OidServer])
    IN  IF sec.ret = "OK" /\ srv.ret = "OK" THEN [sec |-> sec.v.image, srv |-> srv.v] ELSE NoFile

\* connection_status_callback
StoreObjects ==
    /\ Bootstrapped
    /\ objs' = [objs EXCEPT ![OidSecurity] = Sec!Store(@, crypto).v.o]
    /\ disk' = Image
    /\ \E keys \in {KeyRecords(Image.sec)} :
          stored' = [keys |-> keys,
                     settled |-> crypto.fp = NoName /\ DOMAIN keys \subseteq DOMAIN crypto.files]
    /\ UNCHANGED <<workload, dm, crypto, news, phase, req, rest, out, before, raw>>

\* the file when power goes while it is being written: empty, or ending in an
\* account, behind the Security Object, or in the Server Object
TornFiles ==
    LET sec == Image.sec
    IN  {NoFile}
        \cup {[sec |-> Append(SubSeq(sec, 1, i - 1), Sec!CutEntry(sec[i], m)), srv |-> << >>] :
                  i \in DOMAIN sec, m \in Sec!RidKeys}
        \cup (IF sec = << >> THEN {}
              ELSE {[sec |-> sec, srv |-> Srv!CutImage(Image.srv, n)] :
                       n \in ServerCuts})

\* main: everything is initialised, then the Security Object is restored and the
\* Server Object after it; when one of them cannot be, the file goes and the
\* Security Object is initialised again, with the account of the Bootstrap Server
Boot(image, files) ==
    LET fresh == ObjectsInit(Workloads[workload])
        empty == Sec!SecurityInit(Workloads[workload].external)
        storage == StorageInit(files)
        sec == Sec!Restore([o |-> empty, c |-> storage], image.sec)
        srv == Srv!Restore(fresh[OidServer], image.srv)
        Up(security, server) ==
            [oid \in Oids |-> CASE oid = OidSecurity -> security
                                [] oid = OidServer -> server
                                [] OTHER -> fresh[oid]]
    IN  CASE image.sec = << >> -> [objs |-> fresh, c |-> storage, disk |-> NoFile]
          [] sec.ret # "OK" -> [objs |-> fresh, c |-> sec.v.c, disk |-> NoFile]
          [] srv.ret # "OK" -> [objs |-> Up(fresh[OidSecurity], srv.v), c |-> sec.v.c,
                                disk |-> NoFile]
          [] OTHER -> [objs |-> Up(sec.v.o, srv.v), c |-> sec.v.c, disk |-> image]

\* what a start may find: the file, or what there is of one that was being written
Found == {disk} \cup IF Bootstrapped THEN TornFiles ELSE {}

\* the device stops, at any time, and starts again from the given files
Restart(image, files) ==
    /\ phase = "aborted" \/ ~ Workloads[workload].server
    /\ dm' = IdleDm(Workloads[workload].objs)
    /\ phase' = "idle" /\ req' = NoRequest /\ rest' = << >> /\ out' = << >>
    /\ before' = << >> /\ news' = {} /\ raw' = {}
    /\ \E up \in {Boot(image, files)} :
          /\ objs' = up.objs /\ crypto' = up.c /\ disk' = up.disk
          /\ stored' = IF up.disk = NoFile THEN NothingStored ELSE stored
    /\ UNCHANGED workload

Restarts == \E image \in Found, files \in FilesLeft(crypto) : Restart(image, files)

Init == DmInit /\ disk = NoFile /\ stored = NothingStored

\* a write or a delete of a Bootstrap Server that concerns the Security Object
Touches(r) ==
    /\ r.ssid = 0 /\ r.op \in {"Replace", "Update", "Delete"}
    /\ IsPrefix(r.path, <<OidSecurity>>) \/ r.path[LevelOid] = OidSecurity

Request(r) ==
    /\ ProcessRequest(r)
    /\ stored' = [stored EXCEPT !.settled = @ /\ ~ Touches(r)]

Operation ==
    \/ \E r \in Workloads[workload].observed : ObserveBegin(r)
    \/ Workloads[workload].observed # {} /\ RegisterPayload
    \/ \E n \in 0 .. Len(rest) : \E k \in {0, 1, 2} : WritePayload(n, k)
    \/ PlainAnswer
    \/ /\ phase = "answer"
       /\ \E n \in (1 .. BlockRecords) \cup {RecordsLeft(Resumed(Env)) + 1} :
             \E cut \in BOOLEAN : ReadPayload(n, cut)
    \/ \E success \in BOOLEAN : Finalization(success)

Application ==
    \/ UpdateTemperature
    \/ AddObj(OidTemperature)
    \/ RemoveObj(OidTemperature)

Next ==
    \/ \E r \in Workloads[workload].requests : Request(r) /\ UNCHANGED disk
    \/ Operation /\ UNCHANGED <<disk, stored>>
    \/ Application /\ UNCHANGED <<disk, stored>>
    \/ StoreObjects
    \/ Restarts

Spec == Init /\ [][Next]_vars

----------------------------------------------------------------------------
(* Properties. *)

\* every entity of the installed Objects, as a set of paths
Tree(objects) ==
    LET Ids(oid) == Range(Used(InstTable(objects, oid)))
        Riids(oid, rid) == IF IsMulti(RES[oid][rid].kind)
                           THEN Range(Used(RiidTable(objects, oid))) ELSE {}
        Below(oid) ==
            {<<oid>>} \cup {<<oid, iid>> : iid \in Ids(oid)}
            \cup {<<oid, iid, rid>> : iid \in Ids(oid), rid \in DOMAIN RES[oid]}
            \cup UNION {{<<oid, iid, rid, riid>> : riid \in Riids(oid, rid)} :
                           iid \in Ids(oid), rid \in DOMAIN RES[oid]}
    IN  UNION {Below(oid) : oid \in Range(dm.objs)}

\* the paths that hold a value
Leaves(objects) ==
    {p \in Tree(objects) :
        IF PathIs(p, LevelRid) THEN ~ IsMulti(RES[p[1]][p[3]].kind) ELSE PathIs(p, LevelRiid)}

Content(e, p) ==
    IF p[1] = OidSecurity /\ p[3] \in Sec!RidKeys
    THEN LET key == e.objs[p[1]].slots[Sec!FindSlot(e.objs[p[1]], p[2])].keys[p[3]]
         IN  CASE key.source = "empty" -> << >>
               [] key.source = "buffer" -> SubSeq(key.buff, 1, key.size)
               [] OTHER -> ResolveSecurityInfo(e.c, key.id).v
    ELSE CallResRead(e, p[1], p[2], p[3], IF PathHas(p, LevelRiid) THEN p[4] ELSE NoId).v

\* The state is well formed: phases, flags and cursor agree.
TypeOK ==
    /\ workload \in DOMAIN Workloads
    /\ phase \in {"idle", "payload", "answer", "answered", "failed", "aborted"}
    /\ dm.busy = (phase # "idle") /\ dm.inTx \subseteq Range(dm.objs)
    /\ dm.count \in Nat /\ dm.done \in 0 .. Len(dm.paths) /\ Len(dm.paths) <= MaxCompPaths
    /\ crypto.fp \in Slots \cup {NoName}

\* The tables the data model walks are sorted, without duplicates and without a
\* gap at every step of every operation, whatever the handlers did to them: what
\* anj_dm_add_obj checks once (_anj_dm_check_obj) stays true.
TablesSorted ==
    /\ \A i \in 1 .. Len(dm.objs) - 1 : dm.objs[i] < dm.objs[i + 1]
    /\ \A oid \in Range(dm.objs) : SortedTable(InstTable(objs, oid))
    /\ SortedTable(RiidTable(objs, OidBinary))

\* Between two operations no transaction is open and no backup is pending, and
\* what the Objects hold passes their own transaction_validate, unless the last
\* write to one came without a payload.
ValidWhenIdle ==
    phase = "idle" =>
        /\ dm.inTx = {}
        /\ \A oid \in Range(dm.objs) :
              /\ oid \notin raw => CallValidate(Env, oid) = "OK"
              /\ oid # OidDevice => objs[oid].saved = << >>

\* What dm/defs.h says of transaction_validate: it is asked before any operation
\* that may change an Object is complete.  A Write-Replace of an instance without
\* a payload resets the instance and is never validated.
AlwaysValid == phase = "idle" => \A oid \in Range(dm.objs) : CallValidate(Env, oid) = "OK"

\* What the data model relies on at every step: its cursors and flags agree, its
\* tables are sorted, and nothing invalid outlives an operation.
ModelInOrder == TypeOK /\ TablesSorted /\ ValidWhenIdle

\* Only a Bootstrap Server changes the Security Object, and no Delete of its
\* takes away its own account.
AccountsGuarded ==
    /\ objs'[OidSecurity] # objs[OidSecurity] =>
          dm.bs \/ dm'.bs \/ StoreObjects \/ Restarts
    /\ dm'.op = "Delete" =>
          \A i \in 1 .. Sec!NInstances :
              LET slot == objs[OidSecurity].slots[i]
              IN  slot.bs /\ slot.iid # NoId => objs'[OidSecurity].slots[i] = slot

\* neither the file of a record nor, unless two entries have its name, its entry
\* in the table is there any longer
RecordGone(id) ==
    LET name == crypto.names[id]
    IN  /\ name \notin DOMAIN crypto'.files
        /\ (\A other \in Slots \ {id} : crypto.names[other] # name) => crypto'.names[id] = NoName

\* An operation that fails, at whatever call and after however many blocks,
\* leaves every Object in the transaction as it was when the operation began,
\* and leaves no record of a key of an account that it created; one that is
\* refused at once changes nothing, and the accounts are guarded throughout.
RolledBack ==
    [][/\ phase' = "idle" /\ dm.tx /\ Finalization(FALSE) =>
             /\ \A oid \in Oids : objs'[oid] = before[oid]
             /\ \A slot \in Range(objs[OidSecurity].slots), rid \in Sec!RidKeys :
                   (/\ slot.iid = objs[OidSecurity].fresh /\ slot.iid # NoId
                    /\ slot.keys[rid].source = "external" /\ slot.keys[rid].id # NoName)
                   => RecordGone(slot.keys[rid].id)
       /\ phase = "idle" /\ phase' = "idle" /\ objs' # objs =>
             \/ UpdateTemperature
             \/ StoreObjects
             \/ Restarts
       /\ AccountsGuarded]_vars

\* When the last block of a write has been accepted every value sent is read
\* back as it was sent, however the payload was cut into blocks, and a partial
\* update has changed nothing else.
WriteExact ==
    LET sent == {i \in DOMAIN req.payload :
                    /\ req.payload[i].type # "none"
                    /\ req.payload[i].path[3] \in DOMAIN RES[req.payload[i].path[1]]}
        At(i) == Rebased(Env, req.payload[i]).path
        Sent(i) == LET v == req.payload[i].value
                   IN  IF Chunked(req.payload[i]) THEN v.data ELSE v
        settable == {p \in Leaves(objs) : RES[p[1]][p[3]].kind \in {"RW", "RWM"}}
    IN  phase \in {"answer", "answered"} /\ dm.op \in WriteOps =>
            /\ \A i \in sent : At(i)[1] # OidSecurity \/ ~ objs[OidSecurity].external =>
                  At(i) \in Leaves(objs) /\ Content(Env, At(i)) = Sent(i)
            /\ dm.op \in {"Update", "WriteComp"} =>
                  \A p \in settable \ {At(i) : i \in sent} :
                      Content(Env, p) = Content([Env EXCEPT !.objs = before], p)

\* Whatever a server changes is announced to the core before the operation
\* succeeds: a value of its own path, an instance as added or deleted.  (The
\* reset of a whole instance by a Write-Replace is not announced.)
ChangesAnnounced ==
    [][dm.tx /\ ~ dm.bs /\ Finalization(TRUE)
       /\ ~ (req.op = "Replace" /\ PathIs(req.path, LevelIid)) =>
          \A p \in Leaves(objs) \cup Leaves(before) :
              \/ RES[p[1]][p[3]].kind \notin {"RW", "RWM"}
              \/ /\ p \in Leaves(objs) \cap Leaves(before)
                 /\ Content(Env, p) = Content([Env EXCEPT !.objs = before], p)
              \/ \E change \in news : IsPrefix(change[1], p)]_vars

\* A complete answer holds every record it should and each exactly once, in
\* however many blocks it went out: the cursors and the counts taken when the
\* operation began agree with the tree of entities.
ReadComplete ==
    LET tree == Tree(objs)
        readable == {p \in Leaves(objs) : IsReadable(RES[p[1]][p[3]].kind)}
        Under(set, path) == {p \in set : IsPrefix(path, p)}
        open == {p \in readable : p[1] \notin Hidden}
        asked == {i \in DOMAIN req.payload : PathHasReadable(Env, req.payload[i].path)}
        Times(p) == CASE req.op = "ReadComp" ->
                            Cardinality({i \in asked : p \in Under(open, req.payload[i].path)})
                      [] req.op = "Read" -> IF p \in Under(readable, req.path) THEN 1 ELSE 0
                      [] req.op = "Register" ->
                            IF p[1] \notin Hidden /\ Len(p) <= LevelIid THEN 1 ELSE 0
                      [] req.ssid = 0 -> IF p \in Under(tree, req.path) /\ Len(p) <= LevelIid
                                         THEN 1 ELSE 0
                      [] OTHER -> IF p \in Under(tree, req.path) THEN 1 ELSE 0
    IN  phase = "answered" /\ req.op \in {"Read", "ReadComp", "Register", "Discover"} =>
            /\ \A i \in DOMAIN out : out[i].path \in tree
            /\ \A p \in tree : Times(p) = Cardinality({i \in DOMAIN out : out[i].path = p})

\* the credentials a start comes up with are the ones that were stored
KeysMatch ==
    \A i \in DOMAIN disk.sec, rid \in Sec!RidKeys :
        disk.sec[i].keys[rid].source = 2 =>
            Content([Env EXCEPT !.objs = objs', !.c = crypto'], <<OidSecurity, disk.sec[i].iid, rid>>)
                = stored.keys[disk.sec[i].keys[rid].data]

\* A start restores exactly what was stored, the credentials in their records
\* included, unless one was not there or still open when the file was written or a
\* Bootstrap Server has turned to the Security Object since.
\* From a file that power cut short anywhere, when a record is gone (which takes
\* such a request), or when the Server Object was stored without having been
\* validated, the device is back at the account it left the factory with and has
\* no server, whichever part of the file could be read.  It never comes up with a
\* server that has no account.
RestoredAsStored ==
    [][\A image \in Found, files \in FilesLeft(crypto) : Restart(image, files) =>
          IF disk' = NoFile
          THEN /\ \A oid \in Oids \ {OidServer} :
                     objs'[oid] = ObjectsInit(Workloads[workload])[oid]
               /\ objs'[OidServer].insts = ObjectsInit(Workloads[workload])[OidServer].insts
               /\ \/ image # disk
                  \/ disk = NoFile
                  \/ ~ Srv!ValidateInstance(disk.srv.vals)
                  \/ ~ stored.settled /\ ~ DOMAIN stored.keys \subseteq DOMAIN crypto.files
          ELSE /\ image = disk /\ disk' = disk
               /\ Sec!Store(objs'[OidSecurity], crypto').v.image = disk.sec
               /\ Srv!Store(objs'[OidServer]).v = disk.srv
               /\ stored.settled => KeysMatch
               /\ LET e == [Env EXCEPT !.objs = objs', !.dm = dm']
                  IN  /\ BootstrapValidation(e)
                      /\ SecurityObjInstanceIid(e, ServerObjInstanceData(e).ssid) # NoId]_vars

\* The same of the credentials at every start: a record that is created anew takes
\* the name, and the file, of an earlier one, which the stored state may still name.
KeysAsStored == [][Restarts /\ disk' # NoFile => KeysMatch]_vars

\* What anj_crypto_storage_create_new_record says of a file that has the name of a
\* new record: no entry tracks it.  A start enters the names it reads in the order
\* it reads them, so an entry may have another entry's name.
RecordsNamedOnce ==
    \A i \in Slots, j \in Slots : crypto.names[i] = crypto.names[j] => i = j \/ crypto.names[i] = NoName

\* What comp_read_paths' readers assume: io.c asserts that there is room in the
\* buffer whenever the payload of a record is asked for.
RoomForPayload == phase # "aborted"

\* The keys of an account can be read as long as the account is there.
KeysResolve ==
    phase = "idle" =>
        \A i \in 1 .. Sec!NInstances, rid \in Sec!RidKeys :
            LET slot == objs[OidSecurity].slots[i]
            IN  slot.iid # NoId /\ slot.keys[rid].source = "external"
                    => ResolveSecurityInfo(crypto, slot.keys[rid].id).ret = "OK"
=============================================================================
