----------------------------- MODULE RedisCounters -----------------------------
(***************************************************************************)
(* The counter scripts of ConcurrencyService.  A counter key is its value  *)
(* and whether it has a TTL; a key that is absent counts 0 and has none.   *)
(***************************************************************************)
EXTENDS Integers

Key == [n : Nat, ttl : BOOLEAN]

Missing == [n |-> 0, ttl |-> FALSE]

\* acquireLua grants a slot below the limit.
Grants(k, max) == k.n < max

\* acquireLua, when it grants: the TTL starts again with every slot.
Acquired(k) == [n |-> k.n + 1, ttl |-> TRUE]

\* releaseLua: a missing key stays missing, the last slot deletes the key, the
\* others keep the TTL that is left.
Released(k) == IF k.n <= 1 THEN Missing ELSE [k EXCEPT !.n = @ - 1]

\* safeDecrementLua with ttl = 0: refuses to go below 0.
Decremented(k, d) ==
  CASE k.n < d -> k
    [] k.n = d -> Missing
    [] k.n > d -> [k EXCEPT !.n = @ - d]

\* Faulty: SET without EX.
AdjustedWithoutTtl(k, d) ==
  IF k.n + d <= 0 THEN Missing ELSE [n |-> k.n + d, ttl |-> FALSE]

\* adjustCounterWithTtlLua with a TTL.
Adjusted(k, d) ==
  IF k.n + d <= 0 THEN Missing ELSE [n |-> k.n + d, ttl |-> TRUE]
=============================================================================
