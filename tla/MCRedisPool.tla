----------------------------- MODULE MCRedisPool -----------------------------
(* RedisPool on a small instance for TLC. *)
EXTENDS RedisPool
==============================================================================
