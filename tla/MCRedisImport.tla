--------------------------- MODULE MCRedisImport ---------------------------
(***************************************************************************)
(* RedisImport with two services for TLC.                                  *)
(***************************************************************************)
EXTENDS RedisImport, TLC

=============================================================================
