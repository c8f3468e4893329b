-------------------------- MODULE MCRedisLimiter --------------------------
(* Instances of RedisLimiter for TLC. *)
EXTENDS RedisLimiter

CONSTANTS r1, r2, r3, w1, w2, a1, e1, x1, x2, other, bad

OneWorker == [r \in Reqs |-> w1]

TwoWorkers == [r \in Reqs |-> IF r = r1 THEN w1 ELSE w2]

\* Headers of a client: none, a proxy's or a foreign address, no address.
Headers == {<<>>, <<other>>, <<x1>>, <<bad, other>>, <<other, x1>>}

Chains == {<<>>, <<x1>>, <<x1, x2>>}
=============================================================================
