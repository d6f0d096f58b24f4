----------------------------- MODULE MCTimeBin -----------------------------
(* Model-checking instances of TimeBin.                                     *)
EXTENDS TimeBin
=============================================================================
