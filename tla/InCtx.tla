--------------------------------- MODULE InCtx ---------------------------------
(***************************************************************************)
(* What the payload decoders have in common (io/io.h): the results of      *)
(* _anj_io_in_ctx_get_entry(), ctx->out_value and ctx->out_path.  Bytes    *)
(* are 0 .. 255, because they steer the decoders.  d is the state of a     *)
(* decoder, and an operator that translates a function of the code returns *)
(* [res, d].  A path is its ids and uri_len.                               *)
(***************************************************************************)
EXTENDS Integers, Sequences, SequencesExt

InvalidId == 65535          \* ANJ_ID_INVALID
IID == 1
RID == 2
RIID == 3

\* The result of a call and the decoder it leaves.
R(res, d) == [res |-> res, d |-> d]
Want(d) == R("want", [d EXCEPT !.want_payload = TRUE])
Format(d) == R("format", d)
\* What follows a call that went well; another result is returned.
Then(r, Rest(_)) == IF r.res = "ok" THEN Rest(r.d) ELSE r

NoValue == [num |-> 0, raw |-> <<>>, offset |-> 0, chunk |-> <<>>, hint |-> 0]
NoPath == [ids |-> <<0, 0, 0, 0>>, uri_len |-> 0]

Least(a, b) == IF a < b THEN a ELSE b
=============================================================================
