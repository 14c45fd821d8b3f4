------------------------------ MODULE LruCache ------------------------------
(***************************************************************************)
(* common/lru_cache.h, a container indexed by key and by time of use.  A   *)
(* cache is a function from its keys to [v, t]: the value and the second   *)
(* in which it was last used.                                              *)
(***************************************************************************)
EXTENDS Integers, FiniteSets, Functions

Empty == [k \in {} |-> 0]

(* insert: nothing happens when the key is there already.                    *)
Inserted(cache, k, v, t) ==
  IF k \in DOMAIN cache THEN cache
  ELSE [j \in DOMAIN cache \cup {k} |-> IF j = k THEN [v |-> v, t |-> t] ELSE cache[j]]

(* find, if it is a hit, and use.                                            *)
Used(cache, k, t) == IF k \in DOMAIN cache THEN [cache EXCEPT ![k].t = t] ELSE cache

Erased(cache, k) == Restrict(cache, DOMAIN cache \ {k})

(***************************************************************************)
(* The loop both caches have over lru_begin, lru_erase: entries go, the    *)
(* least recently used first, while the total of their sizes is not below  *)
(* the limit.  Entries of the same second may go in any order.             *)
(***************************************************************************)
Purged(cache, size, total, limit) ==
  {Restrict(cache, DOMAIN cache \ gone) : gone \in
    {gone \in SUBSET DOMAIN cache :
       LET left(G) == total - SumFunctionOnSet(size, G)
       IN  /\ \A g \in gone, k \in DOMAIN cache \ gone : cache[g].t <= cache[k].t
           /\ gone = DOMAIN cache \/ left(gone) < limit
           /\ gone # {} => \E g \in gone : /\ left(gone \ {g}) >= limit
                                           /\ \A o \in gone : cache[o].t <= cache[g].t}}
=============================================================================
