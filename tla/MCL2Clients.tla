---------------------------- MODULE MCL2Clients ----------------------------
(* A bounded instance of L2Clients for TLC: a Redis context that speaks TLS *)
(* and authenticates, and a memcached context.                             *)
EXTENDS L2Clients

CONSTANTS private, plain, redis, memcached

ServerOf == [x \in Contexts |-> IF x = plain THEN memcached ELSE redis]
PreambleOf == [x \in Contexts |-> IF x = private THEN 1 ELSE 0]

=============================================================================
