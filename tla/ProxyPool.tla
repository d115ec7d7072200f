------------------------------ MODULE ProxyPool ------------------------------
(***************************************************************************)
(* net/proxy.ts: the pool that hands out proxies round-robin and caps the  *)
(* bots each proxy carries.  A pool is the record of the two private       *)
(* fields of the class; the configured list and the cap are arguments.     *)
(***************************************************************************)
EXTENDS Integers, Sequences

CONSTANTS Proxies,   \* the proxy addresses a configuration may list
          NoProxy    \* `undefined`: no proxy configured, or none under its cap

ASSUME NoProxyAssumption == NoProxy \notin Proxies

Pools == [active : [Proxies -> Nat], idx : Nat]

\* A fresh pool: no proxy carries a bot and the rotation starts at the front.
NewPool == [active |-> [p \in Proxies |-> 0], idx |-> 0]

enabled(list) == list # <<>>

\* The proxy i places after the rotation index (TypeScript counts from 0).
Nth(pool, list, i) == list[((pool.idx + i) % Len(list)) + 1]

\* Mutant of UnderCap: a proxy at its cap still has a place.
UnderCapInclusive(pool, list, cap) ==
  {i \in 0 .. (Len(list) - 1) : pool.active[Nth(pool, list, i)] <= cap}

\* The places of the rotation, in scanning order, whose proxy is under its cap.
UnderCap(pool, list, cap) ==
  {i \in 0 .. (Len(list) - 1) : pool.active[Nth(pool, list, i)] < cap}

First(S) == CHOOSE i \in S : \A j \in S : i <= j

(***************************************************************************)
(* acquire(): what it returns, and the pool it leaves.                     *)
(***************************************************************************)
Acquired(pool, list, cap) ==
  IF UnderCap(pool, list, cap) = {}
    THEN NoProxy
    ELSE Nth(pool, list, First(UnderCap(pool, list, cap)))

AfterAcquire(pool, list, cap) ==
  IF UnderCap(pool, list, cap) = {}
    THEN pool
    ELSE [active |-> [pool.active EXCEPT ![Acquired(pool, list, cap)] = @ + 1],
          idx    |-> (pool.idx + First(UnderCap(pool, list, cap)) + 1) % Len(list)]

(***************************************************************************)
(* release(): gives a place back.  Nothing in the engine calls it.         *)
(***************************************************************************)
AfterRelease(pool, proxy) ==
  IF proxy \in Proxies /\ pool.active[proxy] > 0
    THEN [pool EXCEPT !.active[proxy] = @ - 1]
    ELSE pool
=============================================================================
