------------------------------ MODULE LruCache ------------------------------
(***************************************************************************)
(* lruCache of the dashboard: a map to the elements of a list that is kept *)
(* in the order of use.  Every method holds c.mu for its whole body, so    *)
(* each is one action; a Get is a Hit or a Miss.                           *)
(***************************************************************************)
EXTENDS Integers, Sequences, FiniteSets, Functions

CONSTANT
  Capacity   (* NewLRUCache(10000)                                          *)

VARIABLES
  cache,     \* c.cache: the map, from the keys present
  list       \* c.list: the keys, most recently used first

Init ==
  /\ cache = [k \in {} |-> k]
  /\ list = <<>>

(* The map leads from a key to its element of the list. *)
Position(k) == CHOOSE i \in 1 .. Len(list) : list[i] = k

Without(k) ==
  IF k \in DOMAIN cache
  THEN SubSeq(list, 1, Position(k) - 1) \o SubSeq(list, Position(k) + 1, Len(list))
  ELSE list

MoveToFront(k) == list' = <<k>> \o Without(k)

Hit(k) ==
  /\ k \in DOMAIN cache
  /\ MoveToFront(k)
  /\ UNCHANGED cache

Miss(k) ==
  /\ k \notin DOMAIN cache
  /\ UNCHANGED <<cache, list>>

(* A faulty variant: the evicted key stays in the map. *)
EvictedStays == {}

(* What Add throws out to make room: the back of the list. *)
Full    == Len(list) >= Capacity /\ list # <<>>
Evicted == IF Full THEN {list[Len(list)]} ELSE {}
Kept    == IF Full THEN SubSeq(list, 1, Len(list) - 1) ELSE list

Add(k, v) ==
  IF k \in DOMAIN cache
  THEN /\ MoveToFront(k)
       /\ cache' = [cache EXCEPT ![k] = v]
  ELSE /\ list' = <<k>> \o Kept
       /\ cache' = [x \in (DOMAIN cache \ Evicted) \cup {k} |->
                      IF x = k THEN v ELSE cache[x]]

Remove(k) ==
  /\ list' = Without(k)
  /\ cache' = Restrict(cache, DOMAIN cache \ {k})

(* Load takes the entries in the order Go iterates over a map: any. *)
Load(data) ==
  /\ cache' = data
  /\ list' \in {s \in [1 .. Cardinality(DOMAIN data) -> DOMAIN data] : IsInjective(s)}

-----------------------------------------------------------------------------
(* The map and the list always hold the same keys, each once, and no more  *)
(* of them than the capacity: no eviction, removal or load leaves a key in *)
(* one of them only.                                                       *)
CacheAgrees ==
  /\ Range(list) = DOMAIN cache
  /\ IsInjective(list)
  /\ Len(list) <= Capacity
=============================================================================
