----------------------------- MODULE MCCaProto -----------------------------
(* Model-checking instances of CaProto, with lengths that keep the order of *)
(* those in the code.                                                       *)
EXTENDS CaProto

Std(size, good) == [ext |-> FALSE, size |-> size, good |-> good]
Extended(size)  == [ext |-> TRUE, size |-> size, good |-> TRUE]

SomeKinds == {Std(0, TRUE), Std(3, TRUE), Std(1, FALSE), Extended(3)}
=============================================================================
