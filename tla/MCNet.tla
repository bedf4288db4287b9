--------------------------------- MODULE MCNet ---------------------------------
(* Small instances of NetStack for TLC. *)
EXTENDS NetStack

Buffer(n) == [source |-> "buffer", size |-> n]
External == [source |-> "external", size |-> 0]
Empty == [source |-> "empty", size |-> 0]

\* Usable keys, one that is too long and one that is missing.
MCPsks == {[key |-> Buffer(16), identity |-> External],
           [key |-> External, identity |-> Buffer(PskMax + 1)],
           [key |-> Empty, identity |-> Buffer(8)]}

\* Unknown, less than the headers, and the usual path.
MCPathMtus == {-1, 40, 60, 1500}

MCDatagrams == {Nothing, 0, 100, BufferSize, BufferSize + 1}
================================================================================
