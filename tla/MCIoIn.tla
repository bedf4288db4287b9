-------------------------------- MODULE MCIoIn --------------------------------
EXTENDS IoIn

CONSTANT Case       \* which payloads: "all", or one that the code gets wrong

Path(ids) == [ids |-> [i \in 1 .. 4 |-> IF i <= Len(ids) THEN ids[i] ELSE InvalidId],
              uri_len |-> Len(ids)]
Leaf(kind, id, bytes) == [kind |-> kind, id |-> id, kids |-> <<>>, bytes |-> bytes, short |-> 0]
Node(kind, id, kids, short) ==
    [kind |-> kind, id |-> id, kids |-> kids, bytes |-> <<>>, short |-> short]
Instance(id, kids) == Node(0, id, kids, 0)
Multiple(id, kids) == Node(2, id, kids, 0)
Resource(id, bytes) == Leaf(3, id, bytes)
ResInst(id, bytes) == Leaf(1, id, bytes)

MCResourceType == (0 :> "bytes") @@ (1 :> "int") @@ (2 :> "objlnk") @@ (3 :> "bool")
                  @@ (4 :> "uint") @@ (5 :> "double") @@ (6 :> "string") @@ (300 :> "bytes")

Bytes(n) == [i \in 1 .. n |-> (37 * i) % 256]

\* Base paths and trees.  The last two are not legal: an instance states less
\* than it holds, and another instance than the one of the path.
Trees ==
    {<<Path(<<3>>), <<Instance(4, <<Resource(0, Bytes(3)), Resource(1, <<254, 200>>)>>)>>>>,
     <<Path(<<3>>), <<Leaf(0, 1, <<>>), Instance(4, <<Resource(4, <<1, 2, 3, 4>>)>>)>>>>,
     <<Path(<<3, 4>>), <<Multiple(2, <<ResInst(1, <<1, 2, 255, 254>>), ResInst(2, <<>>)>>)>>>>,
     <<Path(<<3, 4>>), <<Resource(300, Bytes(9)), Resource(3, <<1>>)>>>>,
     <<Path(<<3, 4>>),
       <<Instance(4, <<Multiple(1, <<ResInst(0, <<128>>)>>), Resource(0, <<>>)>>)>>>>,
     <<Path(<<3, 4, 0>>), <<ResInst(1, Bytes(2)), ResInst(2, Bytes(1))>>>>,
     <<Path(<<3, 4>>), <<Resource(5, <<1, 2, 3, 4>>), Resource(0, Bytes(1))>>>>,
     <<Path(<<3>>), <<Node(0, 4, <<Resource(0, Bytes(3)), Resource(3, <<0>>)>>, 1)>>>>,
     <<Path(<<3, 4>>), <<Instance(5, <<Resource(3, <<1>>)>>)>>>>}

\* A text for Resource rid and the value it stands for
Text(rid, chars, value) ==
    [format |-> "text", base |-> Path(<<3, 4, rid>>), bytes |-> chars,
     entries |-> <<[path |-> Path(<<3, 4, rid>>), null |-> FALSE, value |-> value]>>,
     ends |-> {Len(chars)}, tops |-> {Len(chars)}, headers |-> 0, legal |-> TRUE]
ByteString(bytes) == [NoValue EXCEPT !.chunk = bytes, !.hint = Len(bytes)]
Base64(bytes) == Text(0, Base64Encode(bytes), ByteString(bytes))
Illegal(rid, chars) == [Text(rid, chars, NoValue) EXCEPT !.legal = FALSE, !.entries = <<>>]
Opaque(base, bytes) ==
    [Text(0, bytes, ByteString(bytes)) EXCEPT !.format = "opaque", !.base = base,
                                              !.legal = base.uri_len > RID]

Texts ==
    {Base64(Bytes(n)) : n \in {0, 1, 4, 9, 17}} \cup
    {Text(6, Bytes(7), ByteString(Bytes(7))),                            \* a string
     Text(1, <<45, 53, 49, 52>>, [NoValue EXCEPT !.num = -514]),
     Text(4, <<48, 55, 48>>, [NoValue EXCEPT !.num = 70]),
     Text(3, <<49>>, [NoValue EXCEPT !.num = 1]),
     Text(2, <<51, 58, 54, 53, 53, 51, 53>>, [NoValue EXCEPT !.raw = <<3, 65535>>]),
     Illegal(4, <<>>), Illegal(4, <<45, 53>>), Illegal(1, <<53, 46>>), Illegal(3, <<50>>),
     Illegal(4, [i \in 1 .. 24 |-> 48]),                                 \* too long
     Illegal(2, <<54, 53, 53, 51, 54, 58, 51>>), Illegal(2, <<51, 51>>)} \* 65536:3, 33
Opaques == {Opaque(Path(<<3, 4, 0>>), Bytes(n)) : n \in {0, 7}} \cup {Opaque(Path(<<3, 4>>), Bytes(2))}

\* base64 that goes on behind its padding, and characters outside the alphabet.
\* What is decoded before they are met is delivered.
BrokenBase64 ==
    {[Base64(Bytes(4)) EXCEPT !.bytes = @ \o SubSeq(@, 1, 4), !.legal = FALSE],
     [Base64(Bytes(4)) EXCEPT !.bytes[6] = 45, !.legal = FALSE]}

\* base64 of which the last characters do not make up four
Base64Tail == [Base64(Bytes(6)) EXCEPT !.bytes = SubSeq(@, 1, 7), !.legal = FALSE]

MCPayloads ==
    CASE Case = "all" -> {Request(t[1], t[2]) : t \in Trees} \cup Texts \cup BrokenBase64
                            \cup Opaques
      [] Case = "entries" -> {Request(Path(<<3, 4>>), [i \in 1 .. 6 |-> Resource(3, <<1>>)])}
      [] Case = "texts" -> Texts
      [] Case = "tail" -> {Base64Tail}
=============================================================================
