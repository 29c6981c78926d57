--------------------------- MODULE MCBufferCache ----------------------------
(* Instances of the buffer cache for TLC. *)
EXTENDS CacheProperties, TLC

\* Contents are only compared, never ordered.
DataSymmetry == Permutations(Data)
=============================================================================
