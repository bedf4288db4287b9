------------------------------- MODULE DmObjects -------------------------------
(***************************************************************************)
(* The Objects as the data model sees them: the tables it walks and the    *)
(* handlers it calls, by Object identifier.  The handlers work on the      *)
(* environment e = [dm, objs, c, news]: the data model's own context (see  *)
(* DmCore), the state of every Object, the key storage, and the changes    *)
(* announced to the core during the current operation.                     *)
(***************************************************************************)
EXTENDS CryptoStorage

CONSTANTS UriSize, KeySize, BindingSize, RetryDefaults, DisableDefault,
          MinTemp, MaxTemp, TypeSize, DataSize

Sec == INSTANCE SecurityObject

Srv == INSTANCE ServerObject

Tmp == INSTANCE TemperatureObject

Bin == INSTANCE BinaryContainer

OidBinary == 19

OidTemperature == 3303

Oids == {OidSecurity, OidServer, OidDevice, OidBinary, OidTemperature}

\* the handlers an Object defines, the others being NULL
Handlers(oid) ==
    CASE oid = OidDevice -> {"res_read", "res_execute"}
      [] oid = OidBinary -> {"res_read", "res_write", "inst_reset", "res_inst_create",
                             "res_inst_delete", "begin", "end"}
      [] oid = OidTemperature -> {"inst_create", "inst_delete", "res_read", "res_write",
                                  "res_execute", "begin", "validate", "end"}
      [] oid = OidServer -> {"inst_create", "inst_delete", "inst_reset", "res_read",
                             "res_write", "res_execute", "begin", "validate", "end"}
      [] oid = OidSecurity -> {"inst_create", "inst_delete", "inst_reset", "res_read",
                               "res_write", "begin", "validate", "end"}

\* the Device Object's Resources: six strings, Reboot, and Error Code with its one instance
DeviceRES ==
    [rid \in {0, 1, 2, 3, 4, 11, 16, 19} |->
        [kind |-> CASE rid = 4 -> "E" [] rid = 11 -> "RM" [] OTHER -> "R",
         type |-> CASE rid = 4 -> "none" [] rid = 11 -> "int" [] OTHER -> "string"]]

RES == [oid \in Oids |-> CASE oid = OidSecurity -> Sec!RES
                           [] oid = OidServer -> Srv!RES
                           [] oid = OidDevice -> DeviceRES
                           [] oid = OidBinary -> (Bin!RidData :> [kind |-> "RWM", type |-> "bytes"])
                           [] oid = OidTemperature -> Tmp!RES]

\* the identifiers of an Object's Resources, as its table lists them
Listed(ids) ==
    [i \in 1 .. Cardinality(ids) |->
        CHOOSE id \in ids : Cardinality({lower \in ids : lower <= id}) = i]

Rids == [oid \in Oids |-> Listed(DOMAIN RES[oid])]

\* the tables of instances and of Resource Instances
InstTable(objs, oid) ==
    CASE oid \in {OidDevice, OidBinary} -> <<0>>
      [] oid = OidTemperature -> Tmp!Insts(objs[oid])
      [] OTHER -> objs[oid].insts

RiidTable(objs, oid) == IF oid = OidBinary THEN objs[oid].riids ELSE <<0>>

----------------------------------------------------------------------------
(* Handlers. *)

Lift(e, oid, r) == [v |-> [e EXCEPT !.objs[oid] = r.v], ret |-> r.ret]

WithStorage(e) == [o |-> e.objs[OidSecurity], c |-> e.c]

LiftSecurity(e, r) ==
    [v |-> [e EXCEPT !.objs[OidSecurity] = r.v.o, !.c = r.v.c], ret |-> r.ret]

CallResRead(e, oid, iid, rid, riid) ==
    LET o == e.objs[oid]
    IN  CASE oid = OidSecurity -> Sec!ResRead(o, iid, rid)
          [] oid = OidServer -> Srv!ResRead(o, rid)
          [] oid = OidDevice -> Ok(IF rid = 11 THEN 0 ELSE <<"text">>)
          [] oid = OidBinary -> Bin!ResRead(o, riid)
          [] oid = OidTemperature -> Tmp!ResRead(o, iid, rid)

CallResWrite(e, oid, iid, rid, riid, value) ==
    CASE oid = OidSecurity -> LiftSecurity(e, Sec!ResWrite(WithStorage(e), iid, rid, value))
      [] oid = OidServer -> Lift(e, oid, Srv!ResWrite(e.objs[oid], rid, value))
      [] oid = OidBinary -> Lift(e, oid, Bin!ResWrite(e.objs[oid], riid, value))
      [] oid = OidTemperature -> Lift(e, oid, Tmp!ResWrite(e.objs[oid], iid, rid, value))

\* Reboot without a callback is not found; the Server's buttons change no Resource
CallResExecute(e, oid, iid, rid) ==
    CASE oid = OidDevice -> Err(e, "NOT_FOUND")
      [] oid = OidServer -> Ok(e)
      [] oid = OidTemperature -> Lift(e, oid, Tmp!ResExecute(e.objs[oid], iid, rid))

CallInstCreate(e, oid, iid) ==
    CASE oid = OidSecurity -> LiftSecurity(e, Sec!InstCreate(WithStorage(e), iid))
      [] oid = OidServer -> Lift(e, oid, Ok(Srv!InstCreate(e.objs[oid], iid)))
      [] oid = OidTemperature -> Lift(e, oid, Tmp!InstCreate(e.objs[oid], iid))

CallInstDelete(e, oid, iid) ==
    CASE oid = OidSecurity -> LiftSecurity(e, Sec!InstDelete(WithStorage(e), iid))
      [] oid = OidServer -> Lift(e, oid, Ok(Srv!InstDelete(e.objs[oid])))
      [] oid = OidTemperature -> Lift(e, oid, Tmp!InstDelete(e.objs[oid], iid))

CallInstReset(e, oid, iid) ==
    CASE oid = OidSecurity -> LiftSecurity(e, Sec!InstReset(WithStorage(e), iid))
      [] oid = OidServer -> Lift(e, oid, Ok(Srv!InstReset(e.objs[oid])))
      [] oid = OidBinary -> Lift(e, oid, Ok(Bin!InstReset(e.objs[oid])))

\* an application's Object may refuse to begin (e.dm.deny); it has saved nothing
CallBegin(e, oid) ==
    CASE oid \in e.dm.deny -> Err(e, "INTERNAL")
      [] oid = OidSecurity -> Ok([e EXCEPT !.objs[oid] = Sec!TransactionBegin(@)])
      [] oid = OidServer -> Ok([e EXCEPT !.objs[oid] = Srv!TransactionBegin(@)])
      [] oid = OidBinary -> Ok([e EXCEPT !.objs[oid] = Bin!TransactionBegin(@)])
      [] oid = OidTemperature -> Ok([e EXCEPT !.objs[oid] = Tmp!TransactionBegin(@)])
      [] OTHER -> Ok(e)

\* "OK" where the handler is missing or always agrees
CallValidate(e, oid) ==
    CASE oid = OidSecurity -> Sec!TransactionValidate(e.objs[oid])
      [] oid = OidServer -> Srv!TransactionValidate(e.objs[oid])
      [] OTHER -> "OK"

\* an Object that refused to begin has nothing to put back
CallEnd(e, oid, success) ==
    CASE oid \in e.dm.deny -> e
      [] oid = OidSecurity ->
            LiftSecurity(e, Ok(Sec!TransactionEnd(WithStorage(e), success))).v
      [] oid = OidServer -> [e EXCEPT !.objs[oid] = Srv!TransactionEnd(@, success)]
      [] oid = OidBinary -> [e EXCEPT !.objs[oid] = Bin!TransactionEnd(@, success)]
      [] oid = OidTemperature -> [e EXCEPT !.objs[oid] = Tmp!TransactionEnd(@, success)]
      [] OTHER -> e
=============================================================================
