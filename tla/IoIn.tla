--------------------------------- MODULE IoIn ---------------------------------
(***************************************************************************)
(* A payload that arrives in blocks and goes through the decoder of its    *)
(* format: the dispatch of io/io.c and the loop over                       *)
(* _anj_io_in_ctx_get_entry(), the way io.h describes it and               *)
(* process_write() runs it.  cut is how much of a TLV payload the server   *)
(* sent; of the other formats it sends the whole.                          *)
(***************************************************************************)
EXTENDS TlvPayload, TextDecoder

CONSTANTS Payloads,     \* the requests
          BlockSizes,   \* of the blocks that are not the last
          EmptyLast     \* formats of which an empty block may be the last

ASSUME IoInAssumption == EmptyLast \subseteq {"tlv", "text", "opaque"}

VARIABLES payload, cut, fed,
          d,            \* the decoder
          wanted,       \* it has asked for a block
          asked,        \* it has asked for a type
          got,          \* history: what it delivered, chunks put together
          outcome,
          last          \* last_block, and "empty" for a last block without bytes

vars == <<payload, cut, fed, d, wanted, asked, got, outcome, last>>

-----------------------------------------------------------------------------
InCtxInit(format, path) ==
    CASE format = "tlv" -> R("ok", TlvInit(path))
      [] format = "text" -> TextInit(path)
      [] format = "opaque" -> OpaqueInit(path)

InCtxFeed(format, c, block, finished) ==
    IF ~c.want_payload THEN Format(c)
    ELSE CASE format = "tlv" -> R("ok", FeedPayload(c, block, finished))
           [] format = "text" -> TextFeed(c, block, finished)
           [] format = "opaque" -> OpaqueFeed(c, block, finished)

InCtxGetEntry(format, c, type) ==
    CASE format = "tlv" -> GetEntry(c, type)
      [] format = "text" -> TextGetEntry(c, type)
      [] format = "opaque" -> OpaqueGetEntry(c, type)

\* A delivery behind the earlier ones: a chunk at offset 0 begins a value, one at
\* the end of what is there goes on with it, and any other is out of place.
Joined(seq, g) ==
    IF g.value.offset = 0 THEN Append(seq, g)
    ELSE IF seq # <<>> /\ Last(seq).path = g.path
            /\ Len(Last(seq).value.chunk) = g.value.offset
    THEN [seq EXCEPT ![Len(seq)].value.chunk = @ \o g.value.chunk,
                     ![Len(seq)].value.hint = g.value.hint]
    ELSE Append(seq, [g EXCEPT !.path = NoPath])

Init ==
    /\ payload \in Payloads
    /\ cut \in IF payload.format = "tlv" /\ payload.legal
                 THEN 0 .. Len(payload.bytes) ELSE {Len(payload.bytes)}
    /\ fed = 0
    /\ \E r \in {InCtxInit(payload.format, payload.base)} :
          d = r.d /\ outcome = (IF r.res = "ok" THEN "going" ELSE "error")
    /\ wanted = TRUE /\ asked = FALSE
    /\ got = <<>>
    /\ last = "no"

\* _anj_io_in_ctx_feed_payload(): the next block of the request.  The last one
\* may be empty.
Feed(n, finished) ==
    /\ outcome = "going" /\ wanted /\ last = "no"
    /\ fed + n <= cut /\ (finished => fed + n = cut)
    /\ n = 0 => finished /\ (fed = 0 \/ payload.format \in EmptyLast)
    /\ ~finished /\ fed + n = cut => payload.format \in EmptyLast
    /\ \E r \in {InCtxFeed(payload.format, d, SubSeq(payload.bytes, fed + 1, fed + n), finished)} :
          /\ d' = r.d
          /\ outcome' = IF r.res = "ok" THEN "going" ELSE "error"
    /\ fed' = fed + n
    /\ wanted' = FALSE
    /\ last' = IF ~finished THEN "no" ELSE IF n = 0 THEN "empty" ELSE "yes"
    /\ UNCHANGED <<payload, cut, asked, got>>

\* _anj_io_in_ctx_get_entry(): with any type first, then with that of the data
\* model when the decoder asks for it.  Wanting another block after the last is
\* an error of process_write().
Ask ==
    /\ outcome = "going" /\ ~wanted
    /\ \E r \in {InCtxGetEntry(payload.format, d,
                               IF asked THEN TypeAt(d.out_path) ELSE "any")} :
          /\ d' = r.d
          /\ wanted' = (r.res = "want")
          /\ asked' = (r.res = "disambiguate")
          /\ got' = IF r.res \notin {"null", "value"} THEN got
                    ELSE Joined(got, [path |-> r.d.out_path, null |-> r.res = "null",
                                      value |-> r.d.value])
          /\ outcome' = CASE r.res = "eof" -> "eof"
                          [] r.res = "format" \/ (r.res = "want" /\ last # "no") -> "error"
                          [] OTHER -> "going"
    /\ UNCHANGED <<payload, cut, fed, last>>

Over == outcome # "going" /\ UNCHANGED vars

Next ==
    \/ \E n \in BlockSizes \cup {cut - fed} : \E finished \in BOOLEAN : Feed(n, finished)
    \/ Ask
    \/ Over

Spec == Init /\ [][Next]_vars

-----------------------------------------------------------------------------
\* The types of the loop's state; in a TLV decoder no open entry has read more
\* than its length, and a text decoder keeps at most three characters, as
\* store_residual_bytes() asserts.
TypeOK ==
    /\ payload \in Payloads
    /\ cut \in 0 .. Len(payload.bytes) /\ fed \in 0 .. cut
    /\ payload.format = "tlv" =>
          /\ d.offset \in 0 .. Len(d.buff)
          /\ Len(d.stack) <= MaxDepth
          /\ \A i \in DOMAIN d.stack :
                outcome # "error" => d.stack[i].bytes_read <= d.stack[i].length
    /\ payload.format = "text" => Len(d.res_buf) < 4 /\ Len(d.out_buf) <= AuxOut
    /\ wanted \in BOOLEAN /\ asked \in BOOLEAN /\ last \in {"no", "yes", "empty"}
    /\ outcome \in {"going", "eof", "error"}

\* get_entry() delivers the entries of the payload in their order, each once and
\* with its own path and value, wherever the blocks were cut: at any time a
\* prefix of them, the last of which may be the beginning of a byte string.
\* The characters that base64 decoding overwrites are never read again.
DeliveredAsSent ==
    /\ Len(got) <= Len(payload.entries)
    /\ \A i \in DOMAIN got :
          \/ got[i] = payload.entries[i]
          \/ /\ i = Len(got)
             /\ IsPrefix(got[i].value.chunk, payload.entries[i].value.chunk)
             /\ got[i].value.hint \in {0, payload.entries[i].value.hint}
             /\ got[i] = [payload.entries[i] EXCEPT !.value.chunk = got[i].value.chunk,
                                                    !.value.hint = got[i].value.hint]

\* A legal payload that was sent whole is decoded to its end, all its entries
\* delivered, as long as its headers fit in id_length_buff, which
\* get_type_and_header() fills and nothing empties.  Every block that a decoder
\* asks for it takes.
WholeIsRead ==
    (payload.legal /\ cut = Len(payload.bytes) /\ payload.headers <= IdLengthBuff)
        => /\ outcome # "error"
           /\ outcome = "eof" => got = payload.entries

\* The buffer that the next block replaces was read to its end: feed_payload()
\* of the TLV decoder sets the offset to 0 and no byte of the request is skipped.
NoByteSkipped ==
    payload.format = "tlv" /\ outcome = "going" /\ wanted => d.offset = Len(d.buff)

\* A TLV payload that stops inside a header or a value, or that is not legal, is
\* refused rather than taken for complete, unless its last block is empty.  One
\* that stops behind an entry is taken for complete: get_entry() does not ask
\* whether a container is still open, although the stack of entries says so.
CutIsRefused ==
    outcome = "eof" /\ last # "empty" =>
        /\ payload.legal
        /\ cut \in {0} \cup payload.ends
        /\ payload.format = "tlv" => (d.stack = <<>> <=> cut \in {0} \cup payload.tops)

\* Decoding ends well for a whole payload and for none that is cut in an entry,
\* with every byte of every block read on the way.
ReadToItsEnd == TypeOK /\ WholeIsRead /\ NoByteSkipped /\ CutIsRefused

\* What does not hold: that a container which states more than was sent is
\* refused.
ContainersAreWhole == outcome = "eof" /\ last # "empty" => cut \in {0} \cup payload.tops

\* How far the loop over get_entry() is from wanting a block: a call reads bytes,
\* or is the second of an entry, or ends the entry.
Left ==
    (IF payload.format = "tlv"
       THEN 3 * (cut - fed + Available(d)) + (IF d.has_path THEN 2 ELSE 0)
       ELSE IF d.want_payload THEN 0 ELSE 2)
    + (IF asked THEN 0 ELSE 1)

\* The loop of process_write(), "while (true)", ends on every block: a call of
\* get_entry() either ends it or leaves less to do, an entry without content
\* and a chunk without bytes included.
LoopEnds ==
    [][outcome = "going" /\ ~wanted => outcome' # "going" \/ wanted' \/ Left' < Left]_vars

\* io/tlv_decoder.c:62 says that a buffer may hold "more than one TLV entry":
\* a legal payload is decoded however many entries it has.
AnyNumberOfEntries ==
    (payload.legal /\ cut = Len(payload.bytes)) => outcome # "error"
=============================================================================
