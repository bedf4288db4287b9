-------------------------------- MODULE MCSend --------------------------------
(* Lwm2mSend with a request of one record, one of two that needs blocks, and *)
(* one that is not valid.                                                    *)
EXTENDS Lwm2mSend

Record(path, size, external) == [path |-> path, size |-> size, external |-> external]

Short == [format |-> "lwm2m_cbor", records |-> <<Record(<<3, 0, 1>>, 1, FALSE)>>]
Long == [format |-> "senml_cbor",
         records |-> <<Record(<<3, 0, 1>>, 4, FALSE), Record(<<3, 0, 1>>, 3, TRUE)>>]
Twice == [Long EXCEPT !.format = "lwm2m_cbor"]

MCKinds == {Short, Long, Twice}
===============================================================================
