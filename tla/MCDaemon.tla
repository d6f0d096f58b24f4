------------------------------ MODULE MCDaemon ------------------------------
(* Model-checking instances of Daemon.                                      *)
EXTENDS Daemon, TLC

Symmetry == Permutations(InsertWorkers)
=============================================================================
