------------------------------ MODULE TlvDecoder ------------------------------
(***************************************************************************)
(* io/tlv_decoder.c: the decoder of TLV payloads, fed block by block.      *)
(* d is _anj_tlv_decoder_t with ctx->out_value and ctx->out_path: hbuf is  *)
(* id_length_buff up to its write offset, stack the entries that are open. *)
(* Bytes that hbuf takes beyond IdLengthBuff fall, in the C structure, on  *)
(* the padding before the next member: no header of an instance has more   *)
(* than three of them.                                                     *)
(***************************************************************************)
EXTENDS InCtx

CONSTANTS IdLengthBuff,     \* sizeof(id_length_buff)
          MaxDepth          \* _ANJ_TLV_MAX_DEPTH

ASSUME TlvAssumption == IdLengthBuff \in Nat /\ MaxDepth \in Nat \ {0}

NoType == 255               \* type_field while no header is being read

Available(d) == Len(d.buff) - d.offset
Top(d) == Last(d.stack)
IsPowerOf2(n) == n \in {2^k : k \in 0 .. 16}
BigEndian(start, bytes) == FoldLeft(LAMBDA v, b : v * 256 + b, start, bytes)

-----------------------------------------------------------------------------
\* The fields of the type field.
TlvType(t) == t \div 64                              \* 0 IID, 1 RIID, 2 RID array, 3 RID
ConvertIdType(t) == <<IID, RIID, RID, RID>>[TlvType(t) + 1]
IdLength(t) == IF (t \div 32) % 2 = 1 THEN 2 ELSE 1
LengthLength(t) == (t \div 8) % 4

\* _anj_tlv_decoder_init(), on the context that _anj_io_in_ctx_init() zeroed
TlvInit(path) ==
    [want_payload |-> TRUE, want_disambiguation |-> FALSE, buff |-> <<>>, offset |-> 0,
     payload_finished |-> FALSE, base |-> path, has_path |-> FALSE, current |-> path,
     type_field |-> NoType, need |-> 0, hbuf |-> <<>>, read_offset |-> 0, stack |-> <<>>,
     value |-> NoValue, out_path |-> NoPath]

\* _anj_tlv_decoder_feed_payload(), called while want_payload is set
FeedPayload(d, block, finished) ==
    [d EXCEPT !.buff = block, !.offset = 0, !.payload_finished = finished,
              !.want_payload = FALSE]

\* tlv_get_all_remaining_bytes() of the open entry: the bytes it takes ...
RemainingBytes(d) ==
    SubSeq(d.buff, d.offset + 1,
           d.offset + Least(Top(d).length - Top(d).bytes_read, Available(d)))
\* ... and what that leaves.
TakeRemaining(d) ==
    LET n == Len(RemainingBytes(d))
    IN [d EXCEPT !.stack[Len(d.stack)].bytes_read = @ + n, !.offset = @ + n]

\* Mutant of GetTypeAndHeader: a header cut by the end of a block starts anew.
GetTypeAndHeaderAnew(d) ==
    LET fresh == d.type_field = NoType
        t == IF fresh THEN d.buff[d.offset + 1] ELSE d.type_field
        d1 == IF fresh THEN [d EXCEPT !.type_field = t, !.offset = @ + 1,
                                      !.need = IdLength(t) + LengthLength(t)]
              ELSE d
        n == Least(d1.need, Available(d1))
        d2 == [d1 EXCEPT !.hbuf = @ \o SubSeq(d1.buff, d1.offset + 1, d1.offset + n),
                         !.offset = @ + n, !.need = @ - n]
    IN IF fresh /\ Available(d) = 0 THEN Want(d)
       ELSE IF t = NoType THEN Format(d1)
       ELSE IF d1.need > 0 /\ Available(d1) = 0 THEN Want(d1)
       ELSE IF d2.need = 0 THEN R("ok", d2)
       ELSE Want([d2 EXCEPT !.type_field = NoType])

\* get_type_and_header(): the type field, then as much of the id and the
\* length as the block holds
GetTypeAndHeader(d) ==
    LET fresh == d.type_field = NoType
        t == IF fresh THEN d.buff[d.offset + 1] ELSE d.type_field
        d1 == IF fresh THEN [d EXCEPT !.type_field = t, !.offset = @ + 1,
                                      !.need = IdLength(t) + LengthLength(t)]
              ELSE d
        n == Least(d1.need, Available(d1))
        d2 == [d1 EXCEPT !.hbuf = @ \o SubSeq(d1.buff, d1.offset + 1, d1.offset + n),
                         !.offset = @ + n, !.need = @ - n]
    IN IF fresh /\ Available(d) = 0 THEN Want(d)
       ELSE IF t = NoType THEN Format(d1)
       ELSE IF d1.need > 0 /\ Available(d1) = 0 THEN Want(d1)
       ELSE IF d2.need = 0 THEN R("ok", d2) ELSE Want(d2)

\* read_shortened_*(): n of the bytes that hbuf keeps, as a number
FitsBuff(d, n) == d.read_offset + n <= IdLengthBuff
Shortened(d, n) == BigEndian(0, SubSeq(d.hbuf, d.read_offset + 1, d.read_offset + n))

\* get_id(), with tlv_entry_push() before it: the entry the header opens.  That
\* the stack has room for it is asserted by the code.
\* "id" and "has_value" are its outputs, header_len the bytes of the header.
GetId(d) ==
    LET t == d.type_field
        d1 == [d EXCEPT !.read_offset = @ + IdLength(t)]
        length == IF LengthLength(t) = 0 THEN t % 8 ELSE Shortened(d1, LengthLength(t))
        d2 == [d1 EXCEPT !.read_offset = @ + LengthLength(t),
                         !.stack = Append(@, [type |-> ConvertIdType(t), length |-> length,
                                              bytes_read |-> 0])]
    IN [res |-> IF FitsBuff(d, IdLength(t)) /\ FitsBuff(d1, LengthLength(t))
                THEN "ok" ELSE "format",
        d |-> d2, id |-> Shortened(d, IdLength(t)),
        has_value |-> length = 0 \/ TlvType(t) \in {1, 3},
        header_len |-> 1 + IdLength(t) + LengthLength(t)]

\* anj_uri_path_outside_base()
OutsideBase(p, base) ==
    \/ p.uri_len < base.uri_len
    \/ \E i \in 1 .. base.uri_len : p.ids[i] # base.ids[i]

\* The parent counts its child, header included, as read.
Account(d, header_len) ==
    IF Len(d.stack) = 1 THEN d
    ELSE [d EXCEPT !.stack[Len(d.stack) - 1].bytes_read = @ + Top(d).length + header_len]

\* One turn of the loop of tlv_get_path(), once the header is there.
OpenEntry(d) ==
    LET i == GetId(d)
        d1 == Account(i.d, i.header_len)
        parent == d1.stack[Len(d1.stack) - 1]
        level == Top(d1).type
        path == [ids |-> [d.current.ids EXCEPT ![level + 1] = i.id], uri_len |-> level + 1]
    IN IF \/ i.res = "format"
          \/ i.id = InvalidId
          \/ Len(d1.stack) > 1 /\ parent.bytes_read > parent.length
          \/ i.has_value /\ OutsideBase(path, d.base)
          \/ path.uri_len > RID /\ path.ids[RID + 1] = InvalidId
       THEN [res |-> "format", d |-> d1, has_value |-> FALSE]
       ELSE [res |-> "ok", d |-> [d1 EXCEPT !.current = path, !.type_field = NoType],
             has_value |-> i.has_value]

RECURSIVE GetPath(_)
\* tlv_get_path(): headers are read down to an entry that has a value.
GetPath(d) ==
    LET Descend(e) ==
            IF e.res # "ok" THEN R(e.res, e.d)
            ELSE IF e.has_value
            THEN R("ok", [e.d EXCEPT !.out_path = e.d.current, !.has_path = TRUE])
            ELSE GetPath(e.d)
    IN Then(GetTypeAndHeader(d), LAMBDA h : Descend(OpenEntry(h)))

RECURSIVE PopRead(_)
\* The entries that are read to their end are closed, innermost first.
PopRead(d) ==
    IF d.stack = <<>> \/ Top(d).length # Top(d).bytes_read THEN d
    ELSE PopRead([d EXCEPT !.current.ids[Top(d).type + 1] = InvalidId,
                           !.current.uri_len = Top(d).type, !.stack = Front(@)])

\* tlv_next_entry(), which get_entry() calls only on an entry read to its end
NextEntry(d) == PopRead([d EXCEPT !.has_path = FALSE, !.type_field = NoType])

-----------------------------------------------------------------------------
\* Mutant of GetBytes: at the end of a block an empty chunk is delivered.
GetBytesEmpty(d) ==
    R("ok", [TakeRemaining(d) EXCEPT !.value.offset = @ + Len(d.value.chunk),
                                     !.value.chunk = RemainingBytes(d),
                                     !.value.hint = Top(d).length])

\* tlv_get_bytes(): a chunk of the value
GetBytes(d) ==
    IF Available(d) = 0 /\ Top(d).length # 0 THEN Want(d)
    ELSE R("ok", [TakeRemaining(d) EXCEPT !.value.offset = @ + Len(d.value.chunk),
                                          !.value.chunk = RemainingBytes(d),
                                          !.value.hint = Top(d).length])

\* tlv_get_int(), and tlv_get_uint() where signed is FALSE: what the earlier
\* blocks brought is in value.num.
GetInt(d, signed) ==
    LET bytes == RemainingBytes(d)
    IN IF ~IsPowerOf2(Top(d).length) \/ Top(d).length > 8 THEN Format(d)
       ELSE IF Available(d) = 0 THEN Want(d)
       ELSE R("ok", [TakeRemaining(d) EXCEPT !.value.num =
                        BigEndian(IF Top(d).bytes_read > 0 THEN @
                                  ELSE IF signed /\ bytes[1] >= 128 THEN -1 ELSE 0, bytes)])

\* tlv_get_double(): the value is known by its bits
GetDouble(d) ==
    LET d1 == [TakeRemaining(d) EXCEPT !.value.raw = @ \o RemainingBytes(d)]
    IN IF Available(d) = 0 THEN Want(d)
       ELSE IF Top(d1).bytes_read = Top(d1).length /\ Top(d1).length \notin {4, 8}
       THEN Format(d1) ELSE R("ok", d1)

\* tlv_get_bool()
GetBool(d) ==
    IF Top(d).length # 1 THEN Format(d)
    ELSE IF Available(d) = 0 THEN Want(d)
    ELSE LET b == RemainingBytes(d)[1]
         IN IF b \in {0, 1} THEN R("ok", [TakeRemaining(d) EXCEPT !.value.num = b])
            ELSE Format(TakeRemaining(d))

\* tlv_get_objlnk(): the ids are made of the four bytes when the last is there
GetObjlnk(d) ==
    LET d1 == [TakeRemaining(d) EXCEPT !.value.raw = @ \o RemainingBytes(d)]
        raw == d1.value.raw
    IN IF Top(d).length # 4 THEN Format(d)
       ELSE IF Available(d) = 0 THEN Want(d)
       ELSE IF Top(d1).bytes_read < 4 THEN R("ok", d1)
       ELSE R("ok", [d1 EXCEPT !.value.raw = <<raw[1] * 256 + raw[2], raw[3] * 256 + raw[4]>>])

\* The getter of get_entry()'s switch; "time" is read as "int".
GetValue(d, type) ==
    CASE type = "bytes" -> GetBytes(d)
      [] type = "int" -> GetInt(d, TRUE)
      [] type = "uint" -> GetInt(d, FALSE)
      [] type = "double" -> GetDouble(d)
      [] type = "bool" -> GetBool(d)
      [] type = "objlnk" -> GetObjlnk(d)

\* No block follows the one in the buffer: wanting one is an error.
Checked(r) == IF r.res = "want" /\ r.d.payload_finished THEN Format(r.d) ELSE r

\* The end of get_entry(): the value is whole, or to be continued.
Delivered(d, type) ==
    IF Top(d).bytes_read = Top(d).length THEN R("value", NextEntry(d))
    ELSE IF d.payload_finished \/ Available(d) > 0 THEN Format(d)
    ELSE IF type = "bytes" THEN R("value", d) ELSE Want(d)

\* The second half of get_entry(): the value of the open entry
Typed(d, type) ==
    IF type = "any" THEN R("disambiguate", [d EXCEPT !.want_disambiguation = TRUE])
    ELSE Then(Checked(GetValue([d EXCEPT !.want_disambiguation = FALSE], type)),
              LAMBDA e : Delivered(e, type))

\* _anj_tlv_decoder_get_entry(), called while want_payload is not set: "null"
\* and "value" deliver an entry, out_path and value being its outputs.
GetEntry(d, type) ==
    IF d.payload_finished /\ Available(d) = 0 /\ ~d.want_disambiguation THEN R("eof", d)
    ELSE IF d.has_path THEN Typed(d, type)
    ELSE Then(Checked(GetPath([d EXCEPT !.value = NoValue, !.out_path = NoPath])),
              LAMBDA e : IF Top(e).length = 0 /\ Top(e).type \in {IID, RIID}
                         THEN R("null", NextEntry(e)) ELSE Typed(e, type))
=============================================================================
