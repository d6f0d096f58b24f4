--------------------------- MODULE MCSeriesLookup ---------------------------
(* Model-checking instances of SeriesLookup: two of three queries ask for   *)
(* the same series.                                                         *)
EXTENDS SeriesLookup, TLC

CONSTANTS k1, k2, s1, s2, s3, w1, w2

KeyOfQuery == (1 :> k1) @@ (2 :> k2) @@ (3 :> k1)
=============================================================================
