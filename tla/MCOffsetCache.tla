--------------------------- MODULE MCOffsetCache ----------------------------
(* A small instance of OffsetCache for TLC.                                *)
EXTENDS OffsetCache, TLC

CONSTANTS w1, w2, w3, b1, b2, o1, o2

Interchangeable == Permutations({w1, w2, w3}) \cup Permutations({b1, b2}) \cup Permutations({o1, o2})
=============================================================================
