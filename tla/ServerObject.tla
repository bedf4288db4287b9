------------------------------ MODULE ServerObject ------------------------------
(***************************************************************************)
(* The default Server Object: one instance at most.  The state is          *)
(* [insts, vals, saved]: the table of instances (one entry), the value of  *)
(* every Resource that has one, the backup of a transaction.  The buttons  *)
(* (Disable, Registration Update Trigger, Bootstrap-Request Trigger) only  *)
(* set flags of the core, modelled in CoreState; here they are counted as  *)
(* pressed.                                                                *)
(***************************************************************************)
EXTENDS DmDefs

CONSTANTS
    BindingSize,        \* the size of the binding buffer, in tokens
    RetryDefaults,      \* ANJ_COMMUNICATION_RETRY_RES_DEFAULT, by rid 17 .. 20
    DisableDefault      \* ANJ_DISABLE_TIMEOUT_DEFAULT_VALUE

RidSsid == 0
RidLifetime == 1
RidMinPeriod == 2
RidMaxPeriod == 3
RidDisable == 4
RidDisableTimeout == 5
RidStoring == 6
RidBinding == 7
RidUpdateTrigger == 8
RidBootstrapTrigger == 9
RidBsOnRegFailure == 16
RidRetryCount == 17
RidRetryTimer == 18
RidSeqDelay == 19
RidSeqRetryCount == 20
RidMuteSend == 23
RidNotifyMode == 26

Buttons == {RidDisable, RidUpdateTrigger, RidBootstrapTrigger}

Flags == {RidStoring, RidBsOnRegFailure, RidMuteSend}

Numbers == {RidSsid, RidLifetime, RidMinPeriod, RidMaxPeriod, RidDisableTimeout,
            RidRetryCount, RidRetryTimer, RidSeqDelay, RidSeqRetryCount, RidNotifyMode}

RES ==
    [rid \in Buttons \cup Flags \cup Numbers \cup {RidBinding} |->
        [kind |-> CASE rid \in Buttons -> "E"
                    [] rid \in {RidSsid, RidBsOnRegFailure} -> "R"
                    [] OTHER -> "RW",
         type |-> CASE rid \in Flags -> "bool"
                    [] rid = RidBinding -> "string"
                    [] rid \in {RidRetryCount, RidRetryTimer, RidSeqDelay,
                                RidSeqRetryCount} -> "uint"
                    [] rid \in Buttons -> "none"
                    [] OTHER -> "int"]]

\* what res_write accepts: the width of the field, and no reserved SSID
Accepted(rid) ==
    CASE rid = RidSsid -> 1 .. U16Max - 1
      [] rid \in {RidRetryCount, RidSeqRetryCount} -> 0 .. U16Max
      [] rid = RidNotifyMode -> 0 .. U8Max
      [] rid \in Flags -> BOOLEAN
      [] OTHER -> 0 .. U32Max

\* zeroed, but for three defaults
InitializeInstance ==
    [rid \in Flags \cup Numbers \cup {RidBinding} |->
        CASE rid = RidBsOnRegFailure -> TRUE
          [] rid \in {RidRetryCount, RidRetryTimer, RidSeqDelay, RidSeqRetryCount} ->
                RetryDefaults[rid]
          [] rid = RidDisableTimeout -> DisableDefault
          [] rid = RidBinding -> EmptyBuffer(BindingSize)
          [] rid \in Flags -> FALSE
          [] OTHER -> 0]

NoSave == << >>

ServerInit == [insts |-> <<NoId>>, vals |-> InitializeInstance, saved |-> NoSave]

\* ANJ_DM_SERVER_OBJ_BINDINGS, and no letter twice
IsValidBindingMode(binding) ==
    LET letters == StringOf(binding)
    IN  /\ letters # << >>
        /\ \A i \in DOMAIN letters :
              /\ letters[i] \in {"U", "M", "H", "T", "S", "N"}
              /\ \A j \in i + 1 .. Len(letters) : letters[j] # letters[i]

ValidateInstance(vals) ==
    /\ vals[RidSsid] \notin {NoId, 0}
    /\ vals[RidMaxPeriod] # 0 => vals[RidMaxPeriod] >= vals[RidMinPeriod]
    /\ IsValidBindingMode(vals[RidBinding])
    /\ vals[RidRetryCount] # 0
    /\ vals[RidSeqRetryCount] # 0
    /\ vals[RidNotifyMode] <= 1

ResWrite(o, rid, value) ==
    IF rid = RidBinding
    THEN LET written == WriteStringChunked(value, o.vals[rid])
         IN  [v |-> [o EXCEPT !.vals[rid] = written.v], ret |-> written.ret]
    ELSE IF value \in Accepted(rid) THEN Ok([o EXCEPT !.vals[rid] = value])
                                    ELSE Err(o, "BAD_REQUEST")

ResRead(o, rid) ==
    Ok(IF rid = RidBinding THEN StringOf(o.vals[rid]) ELSE o.vals[rid])

InstCreate(o, iid) == [o EXCEPT !.insts = <<iid>>, !.vals = InitializeInstance]

InstDelete(o) == [o EXCEPT !.insts = <<NoId>>, !.vals = InitializeInstance]

InstReset(o) == [o EXCEPT !.vals = InitializeInstance]

TransactionBegin(o) == [o EXCEPT !.saved = [insts |-> o.insts, vals |-> o.vals]]

TransactionValidate(o) ==
    IF o.insts[1] # NoId /\ ~ ValidateInstance(o.vals) THEN "BAD_REQUEST" ELSE "OK"

TransactionEnd(o, success) ==
    IF success THEN [o EXCEPT !.saved = NoSave]
    ELSE [insts |-> o.saved.insts, vals |-> o.saved.vals, saved |-> NoSave]

\* init: the Resources given, and the identifier or NoId
AddInstance(o, init) ==
    LET made == [InitializeInstance EXCEPT ![RidBinding] = BufferOf(init.binding, BindingSize),
                                           ![RidSsid] = init.ssid,
                                           ![RidLifetime] = init.lifetime]
    IN  CASE \/ o.insts[1] # NoId
             \/ Len(init.binding) > BindingSize - 1 -> Err(o, "REFUSED")
          [] ~ ValidateInstance(made) ->
                Err([o EXCEPT !.vals = [made EXCEPT ![RidSsid] = NoId]], "REFUSED")
          [] OTHER ->
                Ok([o EXCEPT !.vals = made,
                             !.insts = <<IF init.iid = NoId THEN 0 ELSE init.iid>>])

\* the binding is stored as the whole buffer
Store(o) ==
    IF o.insts[1] = NoId THEN Err(<< >>, "REFUSED")
                         ELSE Ok([iid |-> o.insts[1], vals |-> o.vals])

\* the order of the fields in the image, behind the identifier
Stored == <<RidSsid, RidLifetime, RidMinPeriod, RidMaxPeriod, RidDisableTimeout, RidNotifyMode,
            RidRetryCount, RidRetryTimer, RidSeqDelay, RidSeqRetryCount, RidBsOnRegFailure,
            RidBinding, RidMuteSend, RidStoring>>

\* an image that ends behind its n-th field
CutImage(image, n) == [image EXCEPT !.vals = [rid \in Range(SubSeq(Stored, 1, n)) |-> @[rid]]]

Complete(image) == DOMAIN image.vals = Range(Stored)

\* the fields a file that ends early does hold are read all the same
Restore(o, image) ==
    LET read == image.vals @@ o.vals
    IN  IF Complete(image) /\ ValidateInstance(read)
        THEN Ok([o EXCEPT !.insts = <<image.iid>>, !.vals = read])
        ELSE Err([o EXCEPT !.insts = <<NoId>>, !.vals = read], "REFUSED")
=============================================================================
