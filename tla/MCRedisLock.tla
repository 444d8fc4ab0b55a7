---------------------------- MODULE MCRedisLock ----------------------------
(***************************************************************************)
(* Instances of RedisLock for TLC.  testDistributedLock starts two threads *)
(* and counts to 100; three threads and a count of two or three already    *)
(* show every order of the last increments and of the threads' exits.      *)
(***************************************************************************)
EXTENDS RedisLock

=============================================================================
