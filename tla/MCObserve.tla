------------------------------ MODULE MCObserve ------------------------------
(* Observe with one resource and small attributes.                         *)
EXTENDS Observe, TLC

With(name, n) == [NoAttr EXCEPT ![name] = n]

MCObserveAttrs == {NoAttr}
MCWriteAttrs == {With("st", 2), With("st", Unset), With("pmax", 2)}
MCBlocks == {<<"a">>, <<"a", Obj>>}

Symmetric == Permutations(Tokens)
=============================================================================
