--------------------------- MODULE MCRedisCounter ---------------------------
(***************************************************************************)
(* Instances of RedisCounter for TLC.  U32 is 8: -1 still becomes a count  *)
(* above every cap.                                                        *)
(***************************************************************************)
EXTENDS RedisCounter, TLC

CONSTANTS r1, r2, r3, r4

Interchangeable == Permutations(Requests)
=============================================================================
