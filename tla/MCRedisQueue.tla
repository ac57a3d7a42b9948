---------------------------- MODULE MCRedisQueue ----------------------------
(***************************************************************************)
(* Small instances of RedisQueue for TLC.                                  *)
(***************************************************************************)
EXTENDS RedisQueue, TLC
=============================================================================
