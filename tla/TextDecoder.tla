----------------------------- MODULE TextDecoder -----------------------------
(***************************************************************************)
(* io/text_decoder.c with io/base64.c, and the decoder of opaque payloads, *)
(* io/opaque.c.  Characters are their codes.  A text holds no NUL.  d is   *)
(* _anj_text_decoder_t with ctx->out_value and ctx->out_path; d.buff is    *)
(* the block itself, which the decoding of base64 overwrites.              *)
(* Numbers stay far below 2^31 here, and doubles, which are read like      *)
(* integers but for the conversion of their text, are left out.            *)
(***************************************************************************)
EXTENDS InCtx

CONSTANTS AuxBuff,      \* sizeof(aux.abuf.buf)
          AuxOut        \* sizeof(aux.abuf_b64.out_buf)

ASSUME TextAssumption == AuxBuff \in Nat /\ AuxOut \in Nat

-----------------------------------------------------------------------------
(* base64.c, with the strict configuration.                                *)

Pad == 61
\* ANJ_BASE64_CHARS, from 0 on
Alphabet == [i \in 0 .. 63 |-> CASE i < 26 -> 65 + i [] i \in 26 .. 51 -> 71 + i
                                 [] i \in 52 .. 61 -> i - 4 [] i = 62 -> 43 [] i = 63 -> 47]
Sextets == 0 .. 63

\* anj_base64_encode_custom(): sh is what is left of the last byte
Base64Encode(bytes) ==
    LET Next3(s, i) ==
            LET b == bytes[i]
            IN CASE i % 3 = 1 -> [out |-> Append(s.out, Alphabet[b \div 4]), sh |-> b % 4]
                 [] i % 3 = 2 -> [out |-> Append(s.out, Alphabet[s.sh * 16 + b \div 16]), sh |-> b % 16]
                 [] i % 3 = 0 -> [out |-> s.out \o <<Alphabet[s.sh * 4 + b \div 64], Alphabet[b % 64]>>,
                                  sh |-> 0]
        all == FoldLeft(Next3, [out |-> <<>>, sh |-> 0], [i \in DOMAIN bytes |-> i])
    IN all.out \o CASE Len(bytes) % 3 = 0 -> <<>>
                    [] Len(bytes) % 3 = 1 -> <<Alphabet[all.sh * 16], Pad, Pad>>
                    [] Len(bytes) % 3 = 2 -> <<Alphabet[all.sh * 4], Pad>>

\* anj_base64_decode_custom(): room is the size of its output
Base64Decode(chars, room) ==
    LET Read(s, c) ==
            IF ~s.ok \/ Len(s.out) >= room THEN [s EXCEPT !.ok = FALSE]
            ELSE IF c = Pad THEN [s EXCEPT !.padding = @ + 1, !.ok = s.padding < 2]
            ELSE IF s.padding > 0 \/ \A i \in Sextets : Alphabet[i] # c
            THEN [s EXCEPT !.ok = FALSE]
            ELSE LET acc == s.acc * 64 + CHOOSE i \in Sextets : Alphabet[i] = c
                 IN IF s.bits < 2 THEN [s EXCEPT !.acc = acc, !.bits = @ + 6]
                    ELSE [s EXCEPT !.out = Append(@, acc \div 2^(s.bits - 2)),
                                   !.acc = acc % 2^(s.bits - 2), !.bits = @ - 2]
        all == FoldLeft(Read, [out |-> <<>>, acc |-> 0, bits |-> 0, padding |-> 0, ok |-> TRUE],
                        chars)
    IN [ok |-> all.ok /\ all.padding = (3 - (Len(all.out) % 3)) % 3, out |-> all.out]

-----------------------------------------------------------------------------
\* _anj_text_decoder_init(): a Resource or Resource Instance is written.
TextInit(path) ==
    R(IF path.uri_len > RID THEN "ok" ELSE "format",
      [want_payload |-> TRUE, buff |-> <<>>, payload_finished |-> FALSE,
       eof_next |-> FALSE, eof_returned |-> FALSE, padding_detected |-> FALSE,
       abuf |-> <<>>, res_buf |-> <<>>, out_buf |-> <<>>, len |-> 0,
       value |-> NoValue, out_path |-> path])

\* _anj_text_decoder_feed_payload()
TextFeed(d, block, finished) ==
    R("ok", [d EXCEPT !.buff = block, !.payload_finished = finished, !.want_payload = FALSE])

\* No block is there: the value is over, or goes on in the next one.
NoBlock(d) ==
    IF d.payload_finished THEN R("eof", [d EXCEPT !.eof_returned = TRUE]) ELSE R("want", d)

\* memcpy() of bytes into a block, from an offset on
Overwrite(block, offset, bytes) ==
    [i \in DOMAIN block |-> IF i - offset \in DOMAIN bytes THEN bytes[i - offset] ELSE block[i]]

RECURSIVE DecodeQuads(_, _, _)
\* The loop of text_get_bytes(): four characters at a time, the first of them
\* kept from the last block, the others from position pos of this one; left are
\* still to be decoded.  len is chunk_length.
\* choose_buffer_and_write_bytes() writes to the auxiliary buffer while that has
\* room for three bytes, and then over the characters of the block.
DecodeQuads(d, pos, left) ==
    LET kept == Len(d.res_buf)
        encoded == d.res_buf \o SubSeq(d.buff, pos + 1, pos + 4 - kept)
        aux == d.len + 3 <= AuxOut
        decoded == Base64Decode(encoded, IF aux THEN AuxOut - Len(d.out_buf)
                                                ELSE Len(d.buff) - d.len)
    IN IF left < 4 THEN R("ok", d) @@ [pos |-> pos, left |-> left]
       ELSE IF d.padding_detected \/ ~decoded.ok THEN Format(d)
       ELSE DecodeQuads([d EXCEPT !.res_buf = <<>>, !.len = @ + Len(decoded.out),
                                  !.padding_detected = @ \/ Contains(encoded, Pad),
                                  !.out_buf = IF aux THEN @ \o decoded.out ELSE @,
                                  !.buff = IF aux THEN @ ELSE Overwrite(@, d.len, decoded.out)],
                        pos + 4 - kept, left - 4)

\* The block holds fewer than four characters, with those that are kept.
TooFew(d) ==
    IF ~d.payload_finished THEN R("want", [d EXCEPT !.res_buf = @ \o d.buff])
    ELSE IF d.res_buf \o d.buff = <<>> THEN R("value", d)
    ELSE Format(d)

\* Mutant of Decoded: what went to the auxiliary buffer stays there.
DecodedApart(q) ==
    LET d == q.d
        chunk == IF d.len > AuxOut THEN SubSeq(d.buff, 1, d.len) ELSE d.out_buf
        offset == d.value.offset + Len(d.value.chunk)
    IN R("value",
         [d EXCEPT !.res_buf = @ \o SubSeq(d.buff, q.pos + 1, q.pos + q.left),
                   !.value.chunk = chunk, !.value.offset = offset,
                   !.value.hint = IF d.payload_finished THEN offset + d.len ELSE @])

\* What text_get_bytes() does after its loop: the auxiliary buffer is copied in
\* front of what the block has got, and the characters that remain are kept.
Decoded(q) ==
    LET d == q.d
        all == IF d.len > AuxOut THEN Overwrite(d.buff, 0, d.out_buf) ELSE d.buff
        chunk == IF d.len > AuxOut THEN SubSeq(all, 1, d.len) ELSE d.out_buf
        offset == d.value.offset + Len(d.value.chunk)
    IN R("value",
         [d EXCEPT !.buff = all, !.res_buf = @ \o SubSeq(all, q.pos + 1, q.pos + q.left),
                   !.value.chunk = chunk, !.value.offset = offset,
                   !.value.hint = IF d.payload_finished THEN offset + d.len ELSE @])

\* text_get_bytes()
TextGetBytes(d) ==
    LET d1 == [d EXCEPT !.want_payload = TRUE, !.len = 0, !.out_buf = <<>>]
        left == Len(d.res_buf) + Len(d.buff)
        q == DecodeQuads(d1, 0, left)
    IN IF d.want_payload THEN NoBlock(d)
       ELSE IF left < 4 THEN TooFew([d EXCEPT !.want_payload = TRUE])
       ELSE IF q.res # "ok" THEN q ELSE Decoded(q)

\* text_get_string()
TextGetString(d) ==
    LET offset == d.value.offset + Len(d.value.chunk)
    IN IF d.want_payload THEN NoBlock([d EXCEPT !.value.hint = 0])
       ELSE R("value", [d EXCEPT !.want_payload = TRUE,
                                 !.value.chunk = d.buff, !.value.offset = offset,
                                 !.value.hint = IF d.payload_finished THEN offset + Len(d.buff)
                                                ELSE 0])

\* maybe_ask_for_next_payload(): the text of a number or of an Object Link is
\* put together in abuf.
Gather(d) ==
    LET d1 == [d EXCEPT !.want_payload = TRUE, !.abuf = @ \o d.buff]
    IN IF d.want_payload THEN R("want", d)
       ELSE IF Len(d1.abuf) >= AuxBuff THEN Format(d)
       ELSE IF ~d.payload_finished THEN R("want", d1)
       ELSE IF d.buff = <<>> THEN Format(d1)
       ELSE R("ok", d1)

\* anj_string_to_uint64_value() and anj_string_to_int64_value(): [ok, num]
ToUint(chars) ==
    [ok |-> chars # <<>> /\ \A i \in DOMAIN chars : chars[i] \in 48 .. 57,
     num |-> FoldLeft(LAMBDA v, c : 10 * v + c - 48, 0, chars)]
ToInt(chars) ==
    LET signed == chars # <<>> /\ chars[1] \in {43, 45}
        n == ToUint(IF signed THEN Tail(chars) ELSE chars)
    IN IF signed /\ chars[1] = 45 THEN [n EXCEPT !.num = -@] ELSE n

\* parse_objlnk(): [ok, raw]
ToObjlnk(chars) ==
    LET colon == SelectInSeq(chars, LAMBDA c : c = 58)
        oid == ToUint(SubSeq(chars, 1, colon - 1))
        iid == ToUint(SubSeq(chars, colon + 1, Len(chars)))
    IN [ok |-> Len(chars) <= 11 /\ colon > 0 /\ oid.ok /\ iid.ok
               /\ oid.num <= InvalidId /\ iid.num <= InvalidId,
        raw |-> <<oid.num, iid.num>>]

\* The tail of text_get_int(), text_get_uint() and text_get_objlnk()
Done(d, ok, value) == IF ok THEN R("value", [d EXCEPT !.value = value, !.eof_next = TRUE])
                            ELSE Format(d)

TextGetInt(d, signed) ==
    Then(Gather(d), LAMBDA e :
             LET n == IF signed THEN ToInt(e.abuf) ELSE ToUint(e.abuf)
             IN Done(e, n.ok, [NoValue EXCEPT !.num = n.num]))

TextGetObjlnk(d) ==
    Then(Gather(d), LAMBDA e :
             LET l == ToObjlnk(e.abuf) IN Done(e, l.ok, [NoValue EXCEPT !.raw = l.raw]))

\* text_get_bool(): abuf is the first byte of the buffer, whose size stays 0
TextGetBool(d) ==
    LET d1 == [d EXCEPT !.want_payload = TRUE, !.abuf = IF d.buff = <<>> THEN @ ELSE d.buff]
    IN IF d.want_payload THEN R("want", d)
       ELSE IF Len(d.buff) > 1 THEN Format(d)
       ELSE IF ~d.payload_finished THEN R("want", d1)
       ELSE Done(d1, d1.abuf \in {<<48>>, <<49>>}, [NoValue EXCEPT !.num = d1.abuf[1] - 48])

\* _anj_text_decoder_get_entry(); "time" is read as "int".
TextGetEntry(d, type) ==
    IF d.eof_returned THEN R("format", d)
    ELSE IF d.eof_next THEN R("eof", [d EXCEPT !.eof_returned = TRUE])
    ELSE CASE type = "any" -> R("disambiguate", d)
           [] type = "bytes" -> TextGetBytes(d)
           [] type = "string" -> TextGetString(d)
           [] type = "int" -> TextGetInt(d, TRUE)
           [] type = "uint" -> TextGetInt(d, FALSE)
           [] type = "bool" -> TextGetBool(d)
           [] type = "objlnk" -> TextGetObjlnk(d)

-----------------------------------------------------------------------------
(* opaque.c: the block is the chunk.                                       *)

OpaqueInit(path) ==
    R(IF path.uri_len > RID THEN "ok" ELSE "format",
      [want_payload |-> TRUE, payload_finished |-> FALSE, eof_returned |-> FALSE,
       value |-> NoValue, out_path |-> path])

OpaqueFeed(d, block, finished) ==
    LET offset == d.value.offset + Len(d.value.chunk)
    IN IF d.payload_finished THEN Format(d)
       ELSE R("ok", [d EXCEPT !.value.offset = offset, !.value.chunk = block,
                              !.value.hint = IF finished THEN offset + Len(block) ELSE 0,
                              !.payload_finished = finished, !.want_payload = FALSE])

\* Bytes are all there is; another type is refused.
OpaqueGetEntry(d, type) ==
    IF d.eof_returned \/ type \notin {"any", "bytes"} THEN Format(d)
    ELSE IF d.want_payload THEN NoBlock(d)
    ELSE R("value", [d EXCEPT !.want_payload = TRUE])
=============================================================================
