------------------------------ MODULE TlvPayload ------------------------------
(***************************************************************************)
(* The TLV payloads of a server: the encoding of a tree of entries and     *)
(* what it says, read all at once.                                         *)
(* An entry is [kind, id, kids, bytes, short]: kind is the type field's, a *)
(* container states a length "short" of that of its kids.                  *)
(***************************************************************************)
EXTENDS TlvDecoder

CONSTANT ResourceType   \* of the Resource Ids, from the data model

RECURSIVE Encode(_)
\* An entry of the LwM2M TLV format, of fewer than 256 bytes: its header and its
\* content
Encode(e) ==
    LET content == IF e.kids = <<>> THEN e.bytes
                   ELSE FoldLeft(LAMBDA acc, kid : acc \o Encode(kid).header \o Encode(kid).content,
                                 <<>>, e.kids)
        stated == Len(content) - e.short
        wide == e.id > 255
    IN [header |-> <<e.kind * 64 + (IF wide THEN 32 ELSE 0) + (IF stated < 8 THEN stated ELSE 8)>>
                   \o (IF wide THEN <<e.id \div 256, e.id % 256>> ELSE <<e.id>>)
                   \o (IF stated < 8 THEN <<>> ELSE <<stated>>),
        content |-> content]

RECURSIVE Leaves(_, _)
\* The entries that carry a value, in order: the path and the bytes of each,
\* and how much of the encoding there is up to its end.
Leaves(path, tree) ==
    IF tree = <<>> THEN <<>>
    ELSE LET e == Head(tree)
             level == ConvertIdType(e.kind * 64)
             at == [ids |-> [path.ids EXCEPT ![level + 1] = e.id], uri_len |-> level + 1]
             header == Len(Encode(e).header)
             size == header + Len(Encode(e).content)
             Later(leaves, n) == [i \in DOMAIN leaves |-> [leaves[i] EXCEPT !.end = @ + n]]
         IN (IF e.kids = <<>> THEN <<[path |-> at, bytes |-> e.bytes, end |-> size]>>
             ELSE Later(Leaves(at, e.kids), header))
            \o Later(Leaves(path, Tail(tree)), size)

RECURSIVE HeaderBytes(_)
\* How many id and length bytes the headers of a tree have
HeaderBytes(tree) ==
    IF tree = <<>> THEN 0
    ELSE Len(Encode(Head(tree)).header) - 1
         + HeaderBytes(Head(tree).kids) + HeaderBytes(Tail(tree))

RECURSIVE Consistent(_)
\* Every container states the length of its content.
Consistent(tree) == \A i \in DOMAIN tree : tree[i].short = 0 /\ Consistent(tree[i].kids)

TypeAt(path) == IF path.uri_len > RID THEN ResourceType[path.ids[RID + 1]] ELSE "null"

\* What the bytes of a Resource of this type mean, read all at once.
Meaning(type, bytes) ==
    LET n == Len(bytes)
        unsigned == FoldLeft(LAMBDA v, i : v + bytes[i] * 256^(n - i), 0, [i \in 1 .. n |-> i])
    IN CASE type = "bytes" -> [NoValue EXCEPT !.chunk = bytes, !.hint = n]
         [] type = "int" -> [NoValue EXCEPT !.num =
                                IF bytes[1] < 128 THEN unsigned ELSE unsigned - 256^n]
         [] type \in {"uint", "bool"} -> [NoValue EXCEPT !.num = unsigned]
         [] type = "objlnk" -> [NoValue EXCEPT !.raw = <<bytes[1] * 256 + bytes[2],
                                                         bytes[3] * 256 + bytes[4]>>]
         [] OTHER -> [NoValue EXCEPT !.raw = bytes]

EncodeAll(tree) ==
    FoldLeft(LAMBDA acc, e : acc \o Encode(e).header \o Encode(e).content, <<>>, tree)

\* A request for a base path with the encoding of a tree: its bytes, the entries
\* that it says, where each of them ends, where those that are in no other one
\* end, and whether it is legal.
Request(base, tree) ==
    LET leaves == Leaves(base, tree)
        Entry(l) ==
            LET null == l.bytes = <<>> /\ l.path.uri_len # RID + 1
            IN [path |-> l.path, null |-> null,
                value |-> IF null THEN NoValue ELSE Meaning(TypeAt(l.path), l.bytes)]
    IN [format |-> "tlv", base |-> base,
        bytes |-> EncodeAll(tree),
        entries |-> [i \in DOMAIN leaves |-> Entry(leaves[i])],
        ends |-> {leaves[i].end : i \in DOMAIN leaves},
        tops |-> {Len(EncodeAll(SubSeq(tree, 1, i))) : i \in DOMAIN tree},
        headers |-> HeaderBytes(tree),
        legal |-> /\ Consistent(tree)
                  /\ \A i \in DOMAIN leaves : ~OutsideBase(leaves[i].path, base)]

=============================================================================
