----------------------------- MODULE MCKVStore -----------------------------
(* Instances of KVStore for TLC: two or three positions on a ring of eight. *)
EXTENDS KVStore, TLC

CONSTANTS t1, t2

ThreadSymmetry == Permutations({t1, t2})
=============================================================================
