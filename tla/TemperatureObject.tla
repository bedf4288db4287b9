--------------------------- MODULE TemperatureObject ---------------------------
(***************************************************************************)
(* The Temperature Object of the multi-instance tutorial: three slots,     *)
(* kept sorted by the identifier of the instance they hold, a sensor that  *)
(* the application polls between two steps of the core, and a backup of    *)
(* all slots for a transaction.  Degrees are integers.                     *)
(***************************************************************************)
EXTENDS DmDefs

CONSTANTS
    MinTemp,            \* MIN_TEMP_VALUE
    MaxTemp,            \* MAX_TEMP_VALUE
    TypeSize            \* TEMP_OBJ_APPL_TYPE_MAX_SIZE, in tokens

RidMin == 5601
RidMax == 5602
RidMinRange == 5603
RidMaxRange == 5604
RidResetMinMax == 5605
RidValue == 5700
RidUnit == 5701
RidType == 5750

RES ==
    [rid \in {RidMin, RidMax, RidMinRange, RidMaxRange, RidResetMinMax, RidValue,
              RidUnit, RidType} |->
        [kind |-> CASE rid = RidResetMinMax -> "E" [] rid = RidType -> "RW" [] OTHER -> "R",
         type |-> CASE rid = RidResetMinMax -> "none"
                    [] rid \in {RidUnit, RidType} -> "string"
                    [] OTHER -> "double"]]

NoSave == << >>

Reading(iid, t, appType) ==
    [iid |-> iid, value |-> t, min |-> t, max |-> t, type |-> BufferOf(appType, TypeSize)]

TemperatureInit ==
    [slots |-> <<Reading(1, 0, <<"one">>), Reading(2, 0, <<"two">>), Reading(NoId, 0, << >>)>>,
     saved |-> NoSave]

Insts(o) == [i \in DOMAIN o.slots |-> o.slots[i].iid]

SlotOf(o, iid) ==
    CHOOSE i \in DOMAIN o.slots :
        o.slots[i].iid = iid /\ \A j \in 1 .. i - 1 : o.slots[j].iid # iid

\* the outcomes of one poll: every instance moves by a step at most, within the range
UpdateValue(o) ==
    LET used == {i \in DOMAIN o.slots : o.slots[i].iid # NoId}
        Near(t) == {u \in MinTemp .. MaxTemp : t - 1 <= u /\ u <= t + 1}
        Lower(a, b) == IF a < b THEN a ELSE b
        Higher(a, b) == IF a > b THEN a ELSE b
    IN  {[o EXCEPT !.slots = [i \in DOMAIN o.slots |->
            IF i \in used THEN [o.slots[i] EXCEPT !.value = polled[i], !.min = Lower(@, polled[i]),
                                                  !.max = Higher(@, polled[i])]
                          ELSE o.slots[i]]] :
         polled \in {p \in [used -> MinTemp .. MaxTemp] :
                        \A i \in used : p[i] \in Near(o.slots[i].value)}}

ResRead(o, iid, rid) ==
    LET s == o.slots[SlotOf(o, iid)]
    IN  CASE rid = RidValue -> Ok(s.value)
          [] rid = RidMin -> Ok(s.min)
          [] rid = RidMax -> Ok(s.max)
          [] rid = RidMinRange -> Ok(MinTemp)
          [] rid = RidMaxRange -> Ok(MaxTemp)
          [] rid = RidUnit -> Ok(<<"C">>)
          [] rid = RidType -> Ok(StringOf(s.type))
          [] OTHER -> Err(0, "NOT_FOUND")

ResWrite(o, iid, rid, value) ==
    LET i == SlotOf(o, iid)
        written == WriteStringChunked(value, o.slots[i].type)
    IN  IF rid = RidType
        THEN [v |-> [o EXCEPT !.slots[i].type = written.v], ret |-> written.ret]
        ELSE Err(o, "NOT_FOUND")

ResExecute(o, iid, rid) ==
    IF rid = RidResetMinMax
    THEN LET i == SlotOf(o, iid)
             t == o.slots[i].value
         IN  Ok([o EXCEPT !.slots[i].min = t, !.slots[i].max = t])
    ELSE Err(o, "NOT_FOUND")

TransactionBegin(o) == [o EXCEPT !.saved = o.slots]

TransactionEnd(o, success) ==
    [slots |-> IF success THEN o.slots ELSE o.saved, saved |-> NoSave]

\* sort_instances: every pair in turn, exchanged when out of order
SortInstances(slots) ==
    LET Exchange(s, p) ==
            IF s[p[1]].iid > s[p[2]].iid
            THEN [s EXCEPT ![p[1]] = s[p[2]], ![p[2]] = s[p[1]]] ELSE s
    IN  FoldLeft(Exchange, slots, <<<<1, 2>>, <<1, 3>>, <<2, 3>>>>)

\* the slot keeps the readings and the text of whatever it held before
InstCreate(o, iid) ==
    IF NoId \notin Range(Insts(o)) THEN Err(o, "INTERNAL")
    ELSE Ok([o EXCEPT !.slots = SortInstances([@ EXCEPT ![SlotOf(o, NoId)].iid = iid])])

InstDelete(o, iid) ==
    IF iid \notin Range(Insts(o)) THEN Err(o, "NOT_FOUND")
    ELSE Ok([o EXCEPT !.slots = SortInstances([@ EXCEPT ![SlotOf(o, iid)].iid = NoId])])
=============================================================================
