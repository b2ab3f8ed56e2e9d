---------------------------- MODULE MCRedisQueue ----------------------------
(***************************************************************************)
(* RedisQueue for TLC.  The replicas are interchangeable.                  *)
(***************************************************************************)
EXTENDS RedisQueue, TLC

Symmetry == Permutations(Workers)
=============================================================================
