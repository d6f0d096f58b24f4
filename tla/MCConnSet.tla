----------------------------- MODULE MCConnSet -----------------------------
(* Model-checking instances of ConnSet.                                    *)
EXTENDS ConnSet, TLC

Symmetry == Permutations(Channels) \cup Permutations(Addrs)

\* Two adds, of two channels or one twice; one may be removed.  Two reports
\* are one more than connset_out holds.
SafeInputs == [add |-> 2, remove |-> 1, health |-> 2, shutdown |-> 1, item |-> 1]

LiveInputs == [add |-> 2, remove |-> 0, health |-> 2, shutdown |-> 1, item |-> 1]
=============================================================================
