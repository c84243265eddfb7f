--------------------------- MODULE MCRedisLimiter ---------------------------
(***************************************************************************)
(* Instances of RedisLimiter for TLC.                                      *)
(***************************************************************************)
EXTENDS RedisLimiter, TLC

Symmetric == Permutations(Tasks)

AllKinds == Kinds

LateClocks == {-1}
=============================================================================
