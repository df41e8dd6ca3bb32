------------------------------- MODULE LruCache -------------------------------
(***************************************************************************)
(* lru_cache of ev3dev.cpp: a list of at most CacheSize items, the most    *)
(* recently used first.  Items are represented by their keys; an item that *)
(* is dropped is destroyed with the value in it.                           *)
(***************************************************************************)
EXTENDS Naturals, Sequences

CONSTANT CacheSize      \* _size, FSTREAM_CACHE_SIZE

\* pop_back() of an empty list is undefined: a cache of size 0 is not one.
ASSUME CacheSizeAssumption == CacheSize \in Nat \ {0}

Holds(items) == {items[i] : i \in 1 .. Len(items)}

Find(items, k) == CHOOSE i \in 1 .. Len(items) : items[i] = k

\* Seeded fault: the item that was found stays where it is.
HitInPlace(items, i) == items

\* splice: item i goes to the front, those before it move back by one.
Hit(items, i) ==
    [j \in 1 .. Len(items) |->
        IF j = 1 THEN items[i] ELSE IF j <= i THEN items[j - 1] ELSE items[j]]

\* Seeded fault: >= for > in the condition of the loop over pop_back.
MissDropsEarly(items, k) ==
    [j \in 1 .. (IF Len(items) + 1 < CacheSize THEN Len(items) + 1
                 ELSE IF CacheSize = 1 THEN 1 ELSE CacheSize - 1) |->
        IF j = 1 THEN k ELSE items[j - 1]]

\* pop_back until there is room, then emplace_front.
Miss(items, k) ==
    [j \in 1 .. (IF Len(items) < CacheSize THEN Len(items) + 1 ELSE CacheSize) |->
        IF j = 1 THEN k ELSE items[j - 1]]

\* operator[]: the list afterwards; the value returned is that of its front.
Access(items, k) ==
    IF k \in Holds(items) THEN Hit(items, Find(items, k)) ELSE Miss(items, k)

\* The keys whose items operator[] destroys.
Evicted(items, k) == Holds(items) \ Holds(Access(items, k))
===============================================================================
