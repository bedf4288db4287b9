-------------------------------- MODULE DmDefs --------------------------------
(***************************************************************************)
(* What the data model and every Object share: the identifiers and paths   *)
(* (/Object/Instance/Resource/Resource Instance, a sequence of at most     *)
(* four identifiers), the kinds of a Resource, the tables of identifiers   *)
(* that end at the first ANJ_ID_INVALID, and the buffers that receive a    *)
(* string or a byte value chunk by chunk.                                  *)
(*                                                                         *)
(* An operation that may fail returns [v, ret]: what it leaves behind, and *)
(* "OK" or the name of the ANJ_DM_ERR_* code.                              *)
(***************************************************************************)
EXTENDS Integers, Sequences, SequencesExt, FiniteSets

CONSTANTS
    U8Max,      \* UINT8_MAX, UINT16_MAX and UINT32_MAX, scaled down
    U16Max,
    U32Max

ASSUME WidthAssumption == {U8Max, U16Max, U32Max} \subseteq Nat \ {0}

\* ANJ_ID_INVALID
NoId == U16Max

OidSecurity == 0
OidServer == 1
OidAccessControl == 2
OidDevice == 3
OidOscore == 21

Ok(v) == [v |-> v, ret |-> "OK"]

Err(v, code) == [v |-> v, ret |-> code]

\* one call after another, as long as none has failed
Then(r, Step(_)) == IF r.ret = "OK" THEN Step(r.v) ELSE r

----------------------------------------------------------------------------
(* Paths. *)

\* anj_id_type_t, as the number of identifiers of a path that ends there
LevelOid == 1
LevelIid == 2
LevelRid == 3
LevelRiid == 4

PathHas(path, level) == Len(path) >= level

PathIs(path, level) == Len(path) = level

PathOutsideBase(path, base) == ~ IsPrefix(base, path)

\* the whole tree counts as neither
PathToSecurityOrOscore(path) ==
    PathHas(path, LevelOid) /\ path[LevelOid] \in {OidSecurity, OidOscore}

----------------------------------------------------------------------------
(* Resources. *)

IsReadable(kind) == kind \in {"R", "RM", "RW", "RWM"}

IsWritable(kind, bootstrap) ==
    kind \in {"W", "RW", "WM", "RWM"} \/ (bootstrap /\ kind # "E")

IsMulti(kind) == kind \in {"RM", "WM", "RWM"}

----------------------------------------------------------------------------
(* Tables of identifiers: sorted, ANJ_ID_INVALID behind the last one. *)

CountIds(table) ==
    Cardinality({i \in DOMAIN table : \A j \in 1 .. i : table[j] # NoId})

\* the search gives up at the first larger identifier
HasId(table, id) ==
    \E i \in DOMAIN table :
        table[i] = id /\ \A j \in 1 .. i - 1 : table[j] <= id

SortIds(table) == SortSeq(table, <)

ReplaceId(table, old, new) ==
    LET at == CHOOSE i \in DOMAIN table :
                  table[i] = old /\ \A j \in 1 .. i - 1 : table[j] # old
    IN  [table EXCEPT ![at] = new]

SortedTable(table) ==
    \A i \in 1 .. Len(table) - 1 :
        table[i] < table[i + 1] \/ (table[i] = NoId /\ table[i + 1] = NoId)

----------------------------------------------------------------------------
(* Chunked values: [data, offset, hint], the data a sequence of tokens; the *)
(* hint is the whole length and is known with the last chunk only.          *)

Nul == ""

IsLastChunk(value) == value.offset + Len(value.data) = value.hint

Overwrite(buffer, offset, data) ==
    [i \in DOMAIN buffer |->
        IF i \in offset + 1 .. offset + Len(data) THEN data[i - offset]
                                                   ELSE buffer[i]]

\* what is read back: up to the terminator
StringOf(buffer) ==
    SubSeq(buffer, 1,
           (CHOOSE i \in DOMAIN buffer :
                buffer[i] = Nul /\ \A j \in 1 .. i - 1 : buffer[j] # Nul) - 1)

\* Mutant of WriteBytesChunked: every chunk goes to the beginning.
WriteBytesChunkedAt0(value, bytes) ==
    IF value.offset + Len(value.data) > Len(bytes.buff)
    THEN Err(bytes, "INTERNAL")
    ELSE Ok([bytes EXCEPT !.buff = Overwrite(@, 0, value.data),
                          !.size = IF IsLastChunk(value) THEN value.hint ELSE @])

\* the value is a buffer with its length
WriteBytesChunked(value, bytes) ==
    IF value.offset + Len(value.data) > Len(bytes.buff)
    THEN Err(bytes, "INTERNAL")
    ELSE Ok([bytes EXCEPT !.buff = Overwrite(@, value.offset, value.data),
                          !.size = IF IsLastChunk(value) THEN value.hint ELSE @])

WriteStringChunked(value, buffer) ==
    IF value.offset + Len(value.data) > Len(buffer) - 1
    THEN Err(buffer, "INTERNAL")
    ELSE Ok(LET written == Overwrite(buffer, value.offset, value.data)
            IN  IF IsLastChunk(value)
                THEN [written EXCEPT ![value.hint + 1] = Nul]
                ELSE written)

EmptyBuffer(capacity) == [i \in 1 .. capacity |-> Nul]

EmptyBytes(capacity) == [buff |-> EmptyBuffer(capacity), size |-> 0]

\* strcpy of a string that fits
BufferOf(string, capacity) == Overwrite(EmptyBuffer(capacity), 0, string)
=============================================================================
