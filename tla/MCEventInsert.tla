--------------------------- MODULE MCEventInsert ---------------------------
(* Model-checking instances of EventInsert.                                 *)
EXTENDS EventInsert, TLC

Symmetry == Permutations(InsertWorkers)

NoCopies == <<>>

\* Each second event has one extra insert, the third of each three another.
SomeCopies == <<[m |-> 2, l |-> 0], [m |-> 3, l |-> 2]>>
=============================================================================
