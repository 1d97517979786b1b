--------------------------- MODULE MCRangeDownload ---------------------------
(* Lengths for the run of RangeDownload: with ranges of two bytes, a file of *)
(* three ranges with a short last one, and a file of a single byte.        *)
EXTENDS RangeDownload, TLC

CONSTANTS j1, j2

Lengths == j1 :> 5 @@ j2 :> 1
=============================================================================
