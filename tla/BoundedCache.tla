---------------------------- MODULE BoundedCache ----------------------------
(***************************************************************************)
(* The two caches of the bot, MessageAuthorCache and AgentPubkeyCache: the *)
(* same class twice, around a Map that keeps its keys in the order they    *)
(* came in.  A cache is the sequence of its entries, the oldest first.     *)
(***************************************************************************)
EXTENDS Naturals, Sequences

CONSTANT MaxSize     \* entries a cache holds at most (5000 in the code)

ASSUME MaxSizeAssumption == MaxSize \in Nat \ {0}

Entry(k, v) == [key |-> k, value |-> v]

EmptyCache == << >>

HasKey(cache, k) == \E i \in DOMAIN cache : cache[i].key = k
Knows(cache, k, v) == \E i \in DOMAIN cache : cache[i] = Entry(k, v)

NoRoomMade(cache) == cache

\* set makes room before it looks whether the key is already there, so a full
\* cache loses its oldest entry even to a key it holds.
MakesRoom(cache) == IF Len(cache) >= MaxSize THEN Tail(cache) ELSE cache

\* Map.set: a key that is there keeps its place, a new one goes to the end.
MapSet(cache, k, v) ==
    IF HasKey(cache, k)
    THEN [i \in DOMAIN cache |-> IF cache[i].key = k THEN Entry(k, v) ELSE cache[i]]
    ELSE Append(cache, Entry(k, v))

CacheSet(cache, k, v) == MapSet(MakesRoom(cache), k, v)

\* What the users of a cache rely on: it stays within its size, and a key has
\* one value at most.
CacheOK(cache) ==
    /\ Len(cache) <= MaxSize
    /\ \A i, j \in DOMAIN cache : cache[i].key = cache[j].key => i = j
=============================================================================
