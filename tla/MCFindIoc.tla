----------------------------- MODULE MCFindIoc -----------------------------
(* Model-checking instances of FindIoc.                                    *)
EXTENDS FindIoc

CONSTANTS c1, c2, c3, c4
=============================================================================
