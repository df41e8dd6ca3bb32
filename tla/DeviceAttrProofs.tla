--------------------------- MODULE DeviceAttrProofs ---------------------------
(***************************************************************************)
(* Proofs about LruCache and DeviceAttr, for any threads, files,           *)
(* operations and size of the cache: first when the files in use fit into  *)
(* the cache, at the end when they do not.                                 *)
(***************************************************************************)
EXTENDS DeviceAttr, FiniteSetTheorems, TLAPS

(* The cache's list.                                                       *)

Distinct(items) ==
    \A i, j \in 1 .. Len(items) : items[i] = items[j] => i = j

Sound(items, K) == items \in Seq(K) /\ Distinct(items) /\ Len(items) <= CacheSize

LEMMA FindPosition ==
    ASSUME NEW K, NEW items \in Seq(K), NEW k \in Holds(items)
    PROVE  Find(items, k) \in 1 .. Len(items) /\ items[Find(items, k)] = k
BY DEF Holds, Find

\* A hit permutes the items and puts the one that was asked for in front.
LEMMA HitSound ==
    ASSUME NEW K, NEW items, Sound(items, K), NEW i \in 1 .. Len(items)
    PROVE  /\ Sound(Hit(items, i), K)
           /\ Holds(Hit(items, i)) = Holds(items)
<1> DEFINE after == Hit(items, i)
<1>1. /\ Len(items) \in Nat
      /\ \A j \in 1 .. Len(items) : items[j] \in K
      /\ Len(items) <= CacheSize
      /\ Distinct(items)
  BY DEF Sound
<1>2. after \in Seq(K) /\ Len(after) = Len(items)
  BY <1>1 DEF Hit
<1>3. \A j \in 1 .. Len(items) : after[j] =
         IF j = 1 THEN items[i] ELSE IF j <= i THEN items[j - 1] ELSE items[j]
  BY DEF Hit
<1>4. Distinct(after)
  BY <1>1, <1>2, <1>3 DEF Distinct
<1>5. Holds(after) \subseteq Holds(items)
  BY <1>1, <1>2, <1>3 DEF Holds
<1>6. ASSUME NEW j \in 1 .. Len(items)
      PROVE  \E m \in 1 .. Len(items) : after[m] = items[j]
  <2>1. CASE j = i
    BY <1>1, <1>3, <2>1
  <2>2. CASE j < i
    <3>1. j + 1 \in 1 .. Len(items) /\ j + 1 # 1 /\ j + 1 <= i /\ (j + 1) - 1 = j
      BY <1>1, <2>2
    <3>2. after[j + 1] = items[(j + 1) - 1]
      BY <1>3, <3>1
    <3> QED
      BY <3>1, <3>2
  <2>3. CASE j > i
    BY <1>1, <1>3, <2>3
  <2> QED
    BY <1>1, <2>1, <2>2, <2>3
<1>7. Holds(items) \subseteq Holds(after)
  BY <1>2, <1>6 DEF Holds
<1> QED
  BY <1>1, <1>2, <1>4, <1>5, <1>7 DEF Sound

\* A miss adds the key in front; it drops nothing while there is room.
LEMMA MissSound ==
    ASSUME NEW K, NEW items, Sound(items, K), NEW k \in K, k \notin Holds(items)
    PROVE  /\ Sound(Miss(items, k), K)
           /\ k \in Holds(Miss(items, k))
           /\ Len(items) < CacheSize => Holds(items) \subseteq Holds(Miss(items, k))
<1> DEFINE after == Miss(items, k)
           size == IF Len(items) < CacheSize THEN Len(items) + 1 ELSE CacheSize
<1>1. /\ Len(items) \in Nat
      /\ \A j \in 1 .. Len(items) : items[j] \in K /\ items[j] # k
      /\ Len(items) <= CacheSize
      /\ Distinct(items)
  BY DEF Sound, Holds
<1>2. size \in Nat \ {0} /\ size <= CacheSize /\ size <= Len(items) + 1
  BY <1>1, CacheSizeAssumption DEF CacheSizeAssumption
<1>3. \A j \in 1 .. size : after[j] = IF j = 1 THEN k ELSE items[j - 1]
  BY DEF Miss
<1>4. after = [j \in 1 .. size |-> IF j = 1 THEN k ELSE items[j - 1]]
  BY DEF Miss
<1> HIDE DEF size
<1>5. after \in Seq(K) /\ Len(after) = size
  BY <1>1, <1>2, <1>4
<1>6. Distinct(after)
  <2> SUFFICES ASSUME NEW i \in 1 .. size, NEW j \in 1 .. size, after[i] = after[j]
               PROVE  i = j
    BY <1>5 DEF Distinct
  <2>1. ASSUME NEW m \in 1 .. size, m # 1
        PROVE  m - 1 \in 1 .. Len(items) /\ after[m] = items[m - 1] /\ after[m] # k
    BY <1>1, <1>2, <1>3, <2>1
  <2>2. after[1] = k
    BY <1>2, <1>3
  <2>3. CASE i = 1 \/ j = 1
    BY <2>1, <2>2, <2>3
  <2>4. CASE i # 1 /\ j # 1
    <3>1. items[i - 1] = items[j - 1]
      BY <2>1, <2>4
    <3>2. i - 1 = j - 1
      BY <1>1, <2>1, <2>4, <3>1 DEF Distinct
    <3> QED
      BY <1>2, <3>2
  <2> QED
    BY <2>3, <2>4
<1>7. k \in Holds(after)
  BY <1>2, <1>3, <1>5 DEF Holds
<1>8. ASSUME Len(items) < CacheSize
      PROVE  Holds(items) \subseteq Holds(after)
  <2>1. size = Len(items) + 1
    BY <1>8 DEF size
  <2>2. \A j \in 1 .. Len(items) : j + 1 \in 1 .. size /\ after[j + 1] = items[j]
    BY <1>1, <1>3, <2>1
  <2> QED
    BY <1>5, <2>2 DEF Holds
<1> QED
  BY <1>2, <1>5, <1>6, <1>7, <1>8 DEF Sound

\* operator[] keeps the list sound, whatever it is asked for.
LEMMA AccessSound ==
    ASSUME NEW K, NEW items, Sound(items, K), NEW k \in K
    PROVE  /\ Sound(Access(items, k), K)
           /\ k \in Holds(Access(items, k))
<1>1. CASE k \in Holds(items)
  <2>1. Find(items, k) \in 1 .. Len(items)
    BY <1>1, FindPosition DEF Sound
  <2> QED
    BY <1>1, <2>1, HitSound DEF Access
<1>2. CASE k \notin Holds(items)
  BY <1>2, MissSound DEF Access
<1> QED
  BY <1>1, <1>2

\* A list without repetitions is no longer than the set it is drawn from has
\* elements, and shorter if an element is missing.
LEMMA DistinctLength ==
    ASSUME NEW K, IsFiniteSet(K), NEW items, Sound(items, K), NEW k \in K
    PROVE  k \notin Holds(items) => Len(items) < Cardinality(K)
<1> SUFFICES ASSUME k \notin Holds(items) PROVE Len(items) < Cardinality(K)
  OBVIOUS
<1> DEFINE D == 1 .. Len(items)
           R == K \ {k}
<1>1. Len(items) \in Nat /\ items \in [D -> K]
  BY DEF Sound
<1>2. items \in [D -> R]
  BY <1>1 DEF Holds
<1>3. items \in Injection(D, R)
  BY <1>2 DEF Sound, Distinct, Injection, IsInjective
<1>4. IsFiniteSet(R) /\ Cardinality(R) = Cardinality(K) - 1
  BY FS_RemoveElement
<1>5. Cardinality(D) <= Cardinality(R)
  BY <1>3, <1>4, FS_Injection
<1>6. Cardinality(D) = Len(items)
  BY <1>1, FS_Interval
<1>7. Cardinality(K) \in Nat
  BY FS_CardinalityType
<1> QED
  BY <1>1, <1>4, <1>5, <1>6, <1>7

(* As long as all files that are ever used fit into the cache, a lookup    *)
(* destroys nothing (lru_cache::operator[], ev3dev.cpp:102-120).           *)
LEMMA NothingEvicted ==
    ASSUME NEW K, IsFiniteSet(K), Cardinality(K) <= CacheSize,
           NEW items, Sound(items, K), NEW k \in K
    PROVE  Evicted(items, k) = {}
<1>1. CASE k \in Holds(items)
  <2>1. Find(items, k) \in 1 .. Len(items)
    BY <1>1, FindPosition DEF Sound
  <2> QED
    BY <1>1, <2>1, HitSound DEF Access, Evicted
<1>2. CASE k \notin Holds(items)
  <2>1. Len(items) < Cardinality(K)
    BY <1>2, DistinctLength
  <2>2. Len(items) \in Nat /\ Cardinality(K) \in Nat /\ CacheSize \in Nat
    BY FS_CardinalityType, CacheSizeAssumption DEF Sound, CacheSizeAssumption
  <2>3. Len(items) < CacheSize
    BY <2>1, <2>2
  <2> QED
    BY <1>2, <2>3, MissSound DEF Access, Evicted
<1> QED
  BY <1>1, <1>2
------------------------------------------------------------------------------
(* The inductive invariant.                                                *)

\* Both lists are sound; a list that is longer than CacheSize, or that holds a
\* file twice, could drop a stream in use.
CachesSound == \A c \in Cache : Sound(cache[c], Attributes)

\* Only a first attempt of set_attr_int is repeated.
CloseInv ==
    \A t \in Threads : pc[t] = "close" => op[t] = "set_int" /\ attempt[t] = 0

\* Threads are at different files (the mutexes of the devices).
Exclusive ==
    \A t, u \in Threads : attr[t] = attr[u] /\ attr[t] # NoAttr => t = u

\* A file that does not exist was absent during the call, ...
GapInv ==
    \A t \in Threads :
        /\ pc[t] \in Busy /\ attr[t] \notin present => gap[t]
        /\ pc[t] = "idle" => attr[t] = NoAttr

\* ... and the second attempt starts with a closed stream, which it opens:
\* if that is stale again the file was absent in the meantime.
RetryInv ==
    \A t \in Threads :
        /\ pc[t] \in Busy /\ attempt[t] = 1 => op[t] = "set_int"
        /\ pc[t] \in {"lookup", "open"} /\ attempt[t] = 1 => File(t) = "closed"
        /\ pc[t] = "use" /\ attempt[t] = 1 /\ File(t) = "stale" => gap[t]

IInv ==
    /\ TypeOK
    /\ CachesSound
    /\ CloseInv
    /\ Exclusive
    /\ GapInv
    /\ RetryInv
    /\ AbsentExplainsFailure

------------------------------------------------------------------------------
(* Types and caches.                                                       *)

LEMMA CacheOfType == \A t \in Threads : CacheOf(t) \in Cache
BY DEF CacheOf, Cache

LEMMA LookupSound ==
    ASSUME TypeOK, CachesSound, NEW t \in Threads, Lookup(t)
    PROVE  /\ cache' \in [Cache -> Seq(Attributes)]
           /\ CachesSound'
<1> DEFINE c == CacheOf(t)
           after == Access(cache[c], attr[t])
<1>1. c \in Cache /\ attr[t] \in Attributes /\ Sound(cache[c], Attributes)
  BY CacheOfType DEF Lookup, TypeOK, Busy, CachesSound
<1>2. Sound(after, Attributes)
  BY <1>1, AccessSound
<1>3. cache \in [Cache -> Seq(Attributes)] /\ after \in Seq(Attributes)
  BY <1>2 DEF TypeOK, Sound
<1>4. cache' = [cache EXCEPT ![c] = after]
  BY DEF Lookup
<1> HIDE DEF c, after
<1>5. cache' \in [Cache -> Seq(Attributes)]
  BY <1>3, <1>4
<1>6. CachesSound'
  BY <1>2, <1>3, <1>4 DEF CachesSound
<1> QED
  BY <1>5, <1>6

\* Only the stream of the thread's own file changes.
LEMMA SetFileEffect ==
    ASSUME TypeOK, NEW t \in Threads, pc[t] \in Busy,
           NEW s \in {"closed", "good", "stale"}, SetFile(t, s)
    PROVE  /\ stream' \in [Cache -> [Attributes -> {"closed", "good", "stale"}]]
           /\ \A c \in Cache, a \in Attributes : stream'[c][a] =
                 IF c = CacheOf(t) /\ a = attr[t] THEN s ELSE stream[c][a]
<1>1. CacheOf(t) \in Cache /\ attr[t] \in Attributes
  BY CacheOfType DEF TypeOK
<1>2. stream \in [Cache -> [Attributes -> {"closed", "good", "stale"}]]
  BY DEF TypeOK
<1> QED
  BY <1>1, <1>2 DEF SetFile

\* What Open does, in each of its cases.
LEMMA OpenEffect ==
    ASSUME TypeOK, NEW t \in Threads, Open(t)
    PROVE  /\ pc[t] = "open"
           /\ UNCHANGED <<present, cache, dangling, gap>>
           /\ \/ /\ File(t) = "closed" /\ attr[t] \notin present
                 /\ Return(t, "no_such_device")
                 /\ UNCHANGED stream
              \/ /\ File(t) = "closed" /\ attr[t] \in present
                 /\ SetFile(t, "good")
                 /\ pc' = [pc EXCEPT ![t] = "use"]
                 /\ UNCHANGED <<call, result, since>>
              \/ /\ File(t) \in {"good", "stale"}
                 /\ SetFile(t, File(t))
                 /\ pc' = [pc EXCEPT ![t] = "use"]
                 /\ UNCHANGED <<call, result, since>>
<1>1. File(t) \in {"closed", "good", "stale"}
  BY CacheOfType DEF File, Open, TypeOK, Busy
<1> QED
  BY <1>1 DEF Open

LEMMA TypeInit == Init => TypeOK
BY AttributesAssumption DEF AttributesAssumption, Init, TypeOK, Cache, Busy, Result

LEMMA ReturnType ==
    ASSUME TypeOK, NEW t \in Threads, NEW r \in Result, Return(t, r),
           UNCHANGED <<present, cache, stream, dangling, gap>>
    PROVE  TypeOK'
<1>1. /\ pc' \in [Threads -> Busy \cup {"idle", "undefined"}]
      /\ attr' \in [Threads -> Attributes \cup {NoAttr}]
      /\ \A u \in Threads : pc'[u] \in Busy => attr'[u] \in Attributes
  BY DEF TypeOK, Return, Busy
<1>2. /\ attempt' \in [Threads -> 0 .. 1]
      /\ result' \in [Threads -> Result]
      /\ since' \in [Threads -> SUBSET Attributes]
      /\ op' = op
  BY DEF TypeOK, Return
<1> QED
  BY <1>1, <1>2 DEF TypeOK

LEMMA TypeStep == TypeOK /\ CachesSound /\ CloseInv /\ [Next]_vars => TypeOK'
<1> SUFFICES ASSUME TypeOK, CachesSound, CloseInv, [Next]_vars PROVE TypeOK'
  OBVIOUS
<1>1. ASSUME NEW a \in Attributes, Remove(a)
      PROVE  TypeOK'
  BY <1>1 DEF Remove, Cache, TypeOK, Busy, HasReference, Result, Readers,
     Writers, call
<1>2. ASSUME NEW a \in Attributes, Create(a)
      PROVE  TypeOK'
  BY <1>2 DEF Create, TypeOK, Busy, HasReference, Result, Readers, Writers,
     call
<1>3. ASSUME NEW t \in Threads, NEW o \in Operations, Refuse(t, o)
      PROVE  TypeOK'
  BY <1>3, AttributesAssumption DEF Refuse, AttributesAssumption, TypeOK,
     Busy, HasReference, Result, Readers, Writers, call
<1>4. ASSUME NEW t \in Threads, NEW o \in Operations, NEW a \in Attributes,
             Call(t, o, a)
      PROVE  TypeOK'
  BY <1>4, AttributesAssumption DEF Call, AttributesAssumption, TypeOK,
     Busy, HasReference, Result, Readers, Writers, call
<1>5. ASSUME NEW t \in Threads, Lookup(t)
      PROVE  TypeOK'
  BY <1>5, LookupSound, CacheOfType DEF Lookup, TypeOK, Busy, HasReference,
     Result, Readers, Writers, call
<1>6. ASSUME NEW t \in Threads, Open(t)
      PROVE  TypeOK'
  <2>1. pc[t] = "open" /\ attr[t] \in Attributes
    BY <1>6, OpenEffect DEF TypeOK, Busy
  <2>2. CASE Return(t, "no_such_device") /\ UNCHANGED stream
    <3>1. UNCHANGED <<present, cache, dangling, gap>>
      BY <1>6, OpenEffect
    <3> QED
      BY <2>2, <3>1, ReturnType DEF Result
  <2>3. CASE /\ \E s \in {"closed", "good", "stale"} : SetFile(t, s)
             /\ pc' = [pc EXCEPT ![t] = "use"]
             /\ UNCHANGED <<call, result, since>>
    <3>1. stream' \in [Cache -> [Attributes -> {"closed", "good", "stale"}]]
      BY <2>1, <2>3, SetFileEffect DEF Busy
    <3> QED
      BY <1>6, <2>1, <2>3, <3>1, OpenEffect DEF TypeOK, Busy, call
  <2> QED
    BY <1>6, <2>2, <2>3, OpenEffect
<1>7. ASSUME NEW t \in Threads, Read(t)
      PROVE  TypeOK'
  BY <1>7, ReturnType DEF Read, Result
<1>8. ASSUME NEW t \in Threads, Write(t)
      PROVE  TypeOK'
  BY <1>8, ReturnType DEF Write, Result
<1>9. ASSUME NEW t \in Threads, WriteRefused(t)
      PROVE  TypeOK'
  BY <1>9, ReturnType DEF WriteRefused, Result
<1>10. ASSUME NEW t \in Threads, WriteStale(t)
      PROVE  TypeOK'
  <2>1. CASE op[t] = "set_int" /\ attempt[t] = 0
    BY <1>10, <2>1 DEF WriteStale, TypeOK, Busy, call
  <2>2. CASE ~(op[t] = "set_int" /\ attempt[t] = 0)
    BY <1>10, <2>2, ReturnType DEF WriteStale, Result
  <2> QED
    BY <2>1, <2>2
<1>11. ASSUME NEW t \in Threads, Close(t)
      PROVE  TypeOK'
  <2>1. stream' \in [Cache -> [Attributes -> {"closed", "good", "stale"}]]
    BY <1>11, SetFileEffect DEF Close, Busy
  <2>2. attempt[t] + 1 \in 0 .. 1
    BY <1>11 DEF Close, CloseInv
  <2>3. attempt' \in [Threads -> 0 .. 1]
    BY <1>11, <2>2 DEF Close, TypeOK
  <2> QED
    BY <1>11, <2>1, <2>3 DEF Close, TypeOK, Busy
<1>12. ASSUME NEW t \in Threads, UseDestroyed(t)
      PROVE  TypeOK'
  BY <1>12 DEF UseDestroyed, TypeOK, Busy, HasReference, Result, Readers,
     Writers, call
<1>13. CASE UNCHANGED vars
  BY <1>13 DEF vars, TypeOK, Busy, HasReference, Result, Readers, Writers,
     call
<1> QED
  BY <1>1, <1>2, <1>3, <1>4, <1>5, <1>6, <1>7, <1>8, <1>9, <1>10, <1>11,
     <1>12, <1>13 DEF Next, Step

LEMMA CachesInit == Init => CachesSound
BY CacheSizeAssumption DEF CacheSizeAssumption, Init, CachesSound, Sound, Distinct

LEMMA CachesStep == TypeOK /\ CachesSound /\ [Next]_vars => CachesSound'
<1> SUFFICES ASSUME TypeOK, CachesSound, [Next]_vars PROVE CachesSound'
  OBVIOUS
<1>1. ASSUME NEW t \in Threads, Lookup(t)
      PROVE  CachesSound'
  BY <1>1, LookupSound
<1>2. ASSUME UNCHANGED cache
      PROVE  CachesSound'
  BY <1>2 DEF CachesSound
<1> QED
  BY <1>1, <1>2 DEF Next, Step, Remove, Create, Refuse, Call, Open, Read, Write,
     WriteRefused, WriteStale, Close, UseDestroyed, vars

LEMMA CloseStep == TypeOK /\ CloseInv /\ [Next]_vars => CloseInv'
<1> SUFFICES ASSUME TypeOK, CloseInv, [Next]_vars PROVE CloseInv'
  OBVIOUS
<1>1. ASSUME NEW a \in Attributes, Remove(a)
      PROVE  CloseInv'
  BY <1>1 DEF Remove, call, CloseInv, TypeOK
<1>2. ASSUME NEW a \in Attributes, Create(a)
      PROVE  CloseInv'
  BY <1>2 DEF Create, call, CloseInv, TypeOK
<1>3. ASSUME NEW t \in Threads, NEW o \in Operations, Refuse(t, o)
      PROVE  CloseInv'
  BY <1>3 DEF Refuse, call, CloseInv, TypeOK
<1>4. ASSUME NEW t \in Threads, NEW o \in Operations, NEW a \in Attributes,
             Call(t, o, a)
      PROVE  CloseInv'
  BY <1>4 DEF Call, call, CloseInv, TypeOK
<1>5. ASSUME NEW t \in Threads, Lookup(t)
      PROVE  CloseInv'
  BY <1>5 DEF Lookup, call, CloseInv, TypeOK
<1>6. ASSUME NEW t \in Threads, Open(t)
      PROVE  CloseInv'
  BY <1>6 DEF Open, Return, call, CloseInv, TypeOK
<1>7. ASSUME NEW t \in Threads, Read(t)
      PROVE  CloseInv'
  BY <1>7 DEF Read, Return, CloseInv, TypeOK
<1>8. ASSUME NEW t \in Threads, Write(t)
      PROVE  CloseInv'
  BY <1>8 DEF Write, Return, CloseInv, TypeOK
<1>9. ASSUME NEW t \in Threads, WriteRefused(t)
      PROVE  CloseInv'
  BY <1>9 DEF WriteRefused, Return, CloseInv, TypeOK
<1>10. ASSUME NEW t \in Threads, WriteStale(t)
      PROVE  CloseInv'
  BY <1>10 DEF WriteStale, Return, call, CloseInv, TypeOK
<1>11. ASSUME NEW t \in Threads, Close(t)
      PROVE  CloseInv'
  BY <1>11 DEF Close, CloseInv, TypeOK
<1>12. ASSUME NEW t \in Threads, UseDestroyed(t)
      PROVE  CloseInv'
  BY <1>12 DEF UseDestroyed, call, CloseInv, TypeOK
<1>13. CASE UNCHANGED vars
  BY <1>13 DEF vars, CloseInv
<1> QED
  BY <1>1, <1>2, <1>3, <1>4, <1>5, <1>6, <1>7, <1>8, <1>9, <1>10, <1>11,
     <1>12, <1>13 DEF Next, Step

(* Every variable keeps its type; the lists stay within CacheSize and      *)
(* without repetitions (ev3dev.cpp:83-155).                                *)
THEOREM TypeCorrect == Spec => [](TypeOK /\ CachesSound /\ CloseInv)
<1>1. Init => TypeOK /\ CachesSound /\ CloseInv
  BY TypeInit, CachesInit DEF Init, CloseInv
<1>2. TypeOK /\ CachesSound /\ CloseInv /\ [Next]_vars
         => (TypeOK /\ CachesSound /\ CloseInv)'
  BY TypeStep, CachesStep, CloseStep
<1> QED
  BY <1>1, <1>2, PTL DEF Spec

------------------------------------------------------------------------------
(* Streams in use.                                                         *)

\* Nothing is destroyed in anybody's hands.
Safe == dangling = {} /\ NoUseAfterEviction

(* If the files that are ever used fit into the cache, no thread touches a *)
(* destroyed stream, however the threads interleave (ev3dev.cpp:141-155).  *)
THEOREM NoUseAfterEvictionHolds ==
    Cardinality(Attributes) <= CacheSize => (Spec => []NoUseAfterEviction)
<1> SUFFICES ASSUME Cardinality(Attributes) <= CacheSize
             PROVE  Spec => []NoUseAfterEviction
  OBVIOUS
<1>1. Init => Safe
  BY DEF Init, Safe, NoUseAfterEviction
<1>2. TypeOK /\ CachesSound /\ Safe /\ [Next]_vars => Safe'
  <2> SUFFICES ASSUME TypeOK, CachesSound, Safe, [Next]_vars PROVE Safe'
    OBVIOUS
  <2>1. ASSUME NEW t \in Threads, Lookup(t)
        PROVE  Safe'
    <3>1. Evicted(cache[CacheOf(t)], attr[t]) = {}
      BY <2>1, NothingEvicted, CacheOfType, AttributesAssumption
         DEF AttributesAssumption, Lookup, TypeOK, Busy, CachesSound
    <3>2. dangling' = {}
      BY <2>1, <3>1 DEF Lookup, Safe
    <3>3. NoUseAfterEviction'
      BY <2>1 DEF Lookup, Safe, NoUseAfterEviction, TypeOK
    <3> QED
      BY <3>2, <3>3 DEF Safe
  <2>2. ASSUME NEW t \in Threads, UseDestroyed(t)
        PROVE  Safe'
    BY <2>2 DEF UseDestroyed, Safe
  <2>3. ASSUME NEW a \in Attributes, Remove(a) \/ Create(a)
        PROVE  Safe'
    BY <2>3 DEF Remove, Create, Safe, NoUseAfterEviction
  <2>4. ASSUME NEW t \in Threads, NEW o \in Operations,
               Refuse(t, o) \/ \E a \in Attributes : Call(t, o, a)
        PROVE  Safe'
    BY <2>4 DEF Refuse, Call, Safe, NoUseAfterEviction, TypeOK
  <2>5. ASSUME NEW t \in Threads,
               Open(t) \/ Read(t) \/ Write(t) \/ WriteRefused(t) \/ WriteStale(t)
                 \/ Close(t)
        PROVE  Safe'
    BY <2>5 DEF Open, Read, Write, WriteRefused, WriteStale, Close, Return, Safe,
       NoUseAfterEviction, TypeOK
  <2>6. CASE UNCHANGED vars
    BY <2>6 DEF vars, Safe, NoUseAfterEviction
  <2> QED
    BY <2>1, <2>2, <2>3, <2>4, <2>5, <2>6 DEF Next, Step
<1>3. Safe => NoUseAfterEviction
  BY DEF Safe
<1> QED
  BY <1>1, <1>2, <1>3, TypeCorrect, PTL DEF Spec

------------------------------------------------------------------------------
(* Failures.                                                               *)

LEMMA ExclusiveStep == TypeOK /\ Exclusive /\ [Next]_vars => Exclusive'
<1> SUFFICES ASSUME TypeOK, Exclusive, [Next]_vars PROVE Exclusive'
  OBVIOUS
<1>1. ASSUME NEW a \in Attributes, Remove(a)
      PROVE  Exclusive'
  BY <1>1 DEF Remove, call, Exclusive, TypeOK
<1>2. ASSUME NEW a \in Attributes, Create(a)
      PROVE  Exclusive'
  BY <1>2 DEF Create, call, Exclusive, TypeOK
<1>3. ASSUME NEW t \in Threads, NEW o \in Operations, Refuse(t, o)
      PROVE  Exclusive'
  BY <1>3 DEF Refuse, call, Exclusive, TypeOK
<1>4. ASSUME NEW t \in Threads, NEW o \in Operations, NEW a \in Attributes,
             Call(t, o, a)
      PROVE  Exclusive'
  BY <1>4 DEF Call, call, Exclusive, TypeOK
<1>5. ASSUME NEW t \in Threads, Lookup(t)
      PROVE  Exclusive'
  BY <1>5 DEF Lookup, call, Exclusive, TypeOK
<1>6. ASSUME NEW t \in Threads, Open(t)
      PROVE  Exclusive'
  BY <1>6 DEF Open, Return, call, Exclusive, TypeOK
<1>7. ASSUME NEW t \in Threads, Read(t)
      PROVE  Exclusive'
  BY <1>7 DEF Read, Return, Exclusive, TypeOK
<1>8. ASSUME NEW t \in Threads, Write(t)
      PROVE  Exclusive'
  BY <1>8 DEF Write, Return, Exclusive, TypeOK
<1>9. ASSUME NEW t \in Threads, WriteRefused(t)
      PROVE  Exclusive'
  BY <1>9 DEF WriteRefused, Return, Exclusive, TypeOK
<1>10. ASSUME NEW t \in Threads, WriteStale(t)
      PROVE  Exclusive'
  BY <1>10 DEF WriteStale, Return, call, Exclusive, TypeOK
<1>11. ASSUME NEW t \in Threads, Close(t)
      PROVE  Exclusive'
  BY <1>11 DEF Close, Exclusive, TypeOK
<1>12. ASSUME NEW t \in Threads, UseDestroyed(t)
      PROVE  Exclusive'
  BY <1>12 DEF UseDestroyed, call, Exclusive, TypeOK
<1>13. CASE UNCHANGED vars
  BY <1>13 DEF vars, Exclusive
<1> QED
  BY <1>1, <1>2, <1>3, <1>4, <1>5, <1>6, <1>7, <1>8, <1>9, <1>10, <1>11,
     <1>12, <1>13 DEF Next, Step

LEMMA GapStep == TypeOK /\ GapInv /\ [Next]_vars => GapInv'
<1> SUFFICES ASSUME TypeOK, GapInv, [Next]_vars PROVE GapInv'
  OBVIOUS
<1>1. ASSUME NEW a \in Attributes, Remove(a)
      PROVE  GapInv'
  BY <1>1 DEF Remove, call, GapInv, TypeOK, Busy, HasReference
<1>2. ASSUME NEW a \in Attributes, Create(a)
      PROVE  GapInv'
  BY <1>2 DEF Create, call, GapInv, TypeOK, Busy, HasReference
<1>3. ASSUME NEW t \in Threads, NEW o \in Operations, Refuse(t, o)
      PROVE  GapInv'
  BY <1>3 DEF Refuse, call, GapInv, TypeOK, Busy, HasReference
<1>4. ASSUME NEW t \in Threads, NEW o \in Operations, NEW a \in Attributes,
             Call(t, o, a)
      PROVE  GapInv'
  BY <1>4 DEF Call, call, GapInv, TypeOK, Busy, HasReference
<1>5. ASSUME NEW t \in Threads, Lookup(t)
      PROVE  GapInv'
  BY <1>5 DEF Lookup, call, GapInv, TypeOK, Busy, HasReference
<1>6. ASSUME NEW t \in Threads, Open(t)
      PROVE  GapInv'
  BY <1>6 DEF Open, Return, call, GapInv, TypeOK, Busy, HasReference
<1>7. ASSUME NEW t \in Threads, Read(t)
      PROVE  GapInv'
  BY <1>7 DEF Read, Return, GapInv, TypeOK, Busy, HasReference
<1>8. ASSUME NEW t \in Threads, Write(t)
      PROVE  GapInv'
  BY <1>8 DEF Write, Return, GapInv, TypeOK, Busy, HasReference
<1>9. ASSUME NEW t \in Threads, WriteRefused(t)
      PROVE  GapInv'
  BY <1>9 DEF WriteRefused, Return, GapInv, TypeOK, Busy, HasReference
<1>10. ASSUME NEW t \in Threads, WriteStale(t)
      PROVE  GapInv'
  BY <1>10 DEF WriteStale, Return, call, GapInv, TypeOK, Busy, HasReference
<1>11. ASSUME NEW t \in Threads, Close(t)
      PROVE  GapInv'
  BY <1>11 DEF Close, GapInv, TypeOK, Busy, HasReference
<1>12. ASSUME NEW t \in Threads, UseDestroyed(t)
      PROVE  GapInv'
  BY <1>12 DEF UseDestroyed, call, GapInv, TypeOK, Busy, HasReference
<1>13. CASE UNCHANGED vars
  BY <1>13 DEF vars, GapInv
<1> QED
  BY <1>1, <1>2, <1>3, <1>4, <1>5, <1>6, <1>7, <1>8, <1>9, <1>10, <1>11,
     <1>12, <1>13 DEF Next, Step

(* What one thread sees of another thread's steps.                         *)

\* Another thread's file is another file.
LEMMA OthersFile ==
    ASSUME TypeOK, Exclusive, NEW t \in Threads, NEW u \in Threads, t # u,
           pc[t] \in Busy, pc[u] \in Busy, op'[u] = op[u], attr'[u] = attr[u],
           NEW s \in {"closed", "good", "stale"}, SetFile(t, s)
    PROVE  File(u)' = File(u)
<1>1. attr[t] \in Attributes /\ attr[u] \in Attributes /\ attr[t] # attr[u]
  BY AttributesAssumption DEF AttributesAssumption, TypeOK, Exclusive
<1>2. CacheOf(u)' = CacheOf(u) /\ CacheOf(u) \in Cache
  BY CacheOfType DEF CacheOf
<1> QED
  BY <1>1, <1>2, SetFileEffect DEF File

\* The part of RetryInv that is about one thread.
Retry(u) ==
    /\ pc[u] \in Busy /\ attempt[u] = 1 => op[u] = "set_int"
    /\ pc[u] \in {"lookup", "open"} /\ attempt[u] = 1 => File(u) = "closed"
    /\ pc[u] = "use" /\ attempt[u] = 1 /\ File(u) = "stale" => gap[u]

\* What concerns another thread stays as it is, except for its file, which is
\* the same, or closed.
LEMMA RetryFrame ==
    ASSUME NEW u \in Threads, Retry(u),
           pc'[u] = pc[u], op'[u] = op[u], attempt'[u] = attempt[u],
           gap'[u] = gap[u], pc[u] \in Busy => File(u)' \in {File(u), "closed"}
    PROVE  Retry(u)'
BY DEF Retry, Busy

LEMMA RetryReturn ==
    ASSUME TypeOK, Exclusive, RetryInv, NEW t \in Threads, NEW r, Return(t, r),
           UNCHANGED <<stream, gap>>
    PROVE  RetryInv'
<1> SUFFICES ASSUME NEW u \in Threads PROVE Retry(u)'
  BY DEF RetryInv, Retry
<1>1. CASE u = t
  BY <1>1 DEF Return, Retry, TypeOK, Busy
<1>2. CASE u # t
  <2>1. File(u)' = File(u)
    BY <1>2 DEF Return, File, CacheOf, TypeOK
  <2> QED
    BY <1>2, <2>1 DEF Return, Retry, RetryInv, TypeOK
<1> QED
  BY <1>1, <1>2

LEMMA RetryStep ==
    TypeOK /\ Exclusive /\ CloseInv /\ RetryInv /\ [Next]_vars => RetryInv'
<1> SUFFICES ASSUME TypeOK, Exclusive, CloseInv, RetryInv, [Next]_vars
             PROVE  RetryInv'
  OBVIOUS
<1> USE DEF Busy
<1>0. \A u \in Threads : Retry(u)
  BY DEF RetryInv, Retry
<1>1. ASSUME NEW a \in Attributes, Remove(a)
      PROVE  RetryInv'
  <2> SUFFICES ASSUME NEW u \in Threads, pc[u] \in Busy PROVE Retry(u)'
    BY <1>1 DEF RetryInv, Retry, Remove, call
  <2>1. attr[u] \in Attributes /\ CacheOf(u) \in Cache /\ CacheOf(u)' = CacheOf(u)
    BY <1>1, CacheOfType DEF TypeOK, Remove, call, CacheOf
  <2>2. File(u)' = IF attr[u] = a /\ File(u) = "good" THEN "stale" ELSE File(u)
    BY <1>1, <2>1 DEF Remove, call, File, TypeOK
  <2>3. gap'[u] = (gap[u] \/ attr[u] = a)
    BY <1>1 DEF Remove
  <2>4. pc'[u] = pc[u] /\ op'[u] = op[u] /\ attempt'[u] = attempt[u]
    BY <1>1 DEF Remove, call
  <2>5. Retry(u)
    BY <1>0
  <2> QED
    BY <2>2, <2>3, <2>4, <2>5 DEF Retry
<1>2. ASSUME NEW a \in Attributes, Create(a)
      PROVE  RetryInv'
  BY <1>2 DEF Create, call, RetryInv, File, CacheOf
<1>3. ASSUME NEW t \in Threads, NEW o \in Operations, Refuse(t, o)
      PROVE  RetryInv'
  <2> SUFFICES ASSUME NEW u \in Threads PROVE Retry(u)'
    BY DEF RetryInv, Retry
  <2>1. CASE u = t
    BY <1>3, <2>1 DEF Refuse, Retry
  <2>2. CASE u # t
    <3>1. /\ pc'[u] = pc[u] /\ op'[u] = op[u] /\ attempt'[u] = attempt[u]
          /\ gap'[u] = gap[u] /\ attr'[u] = attr[u] /\ stream' = stream
      BY <1>3, <2>2 DEF Refuse, TypeOK
    <3> QED
      BY <1>0, <3>1, RetryFrame DEF File, CacheOf
  <2> QED
    BY <2>1, <2>2
<1>4. ASSUME NEW t \in Threads, NEW o \in Operations, NEW a \in Attributes,
             Call(t, o, a)
      PROVE  RetryInv'
  <2> SUFFICES ASSUME NEW u \in Threads PROVE Retry(u)'
    BY DEF RetryInv, Retry
  <2>1. CASE u = t
    BY <1>4, <2>1 DEF Call, Retry, TypeOK
  <2>2. CASE u # t
    <3>1. /\ pc'[u] = pc[u] /\ op'[u] = op[u] /\ attempt'[u] = attempt[u]
          /\ gap'[u] = gap[u] /\ attr'[u] = attr[u] /\ stream' = stream
      BY <1>4, <2>2 DEF Call, TypeOK
    <3> QED
      BY <1>0, <3>1, RetryFrame DEF File, CacheOf
  <2> QED
    BY <2>1, <2>2
<1>5. ASSUME NEW t \in Threads, Lookup(t)
      PROVE  RetryInv'
  <2> SUFFICES ASSUME NEW u \in Threads, pc'[u] \in Busy PROVE Retry(u)'
    BY DEF RetryInv, Retry
  <2>1. /\ op'[u] = op[u] /\ attr'[u] = attr[u] /\ attempt'[u] = attempt[u]
        /\ gap'[u] = gap[u] /\ CacheOf(u)' = CacheOf(u) /\ CacheOf(u) \in Cache
    BY <1>5, CacheOfType DEF Lookup, call, CacheOf
  <2>2. pc[u] \in Busy /\ attr[u] \in Attributes
    BY <1>5 DEF Lookup, TypeOK
  <2>3. File(u)' \in {File(u), "closed"}
    BY <1>5, <2>1, <2>2 DEF Lookup, File, TypeOK
  <2>4. CASE u = t
    <3>1. pc[u] = "lookup" /\ pc'[u] = "open"
      BY <1>5, <2>4 DEF Lookup, TypeOK
    <3> QED
      BY <1>0, <2>1, <2>3, <3>1 DEF Retry
  <2>5. CASE u # t
    <3>1. pc'[u] = pc[u]
      BY <1>5, <2>5 DEF Lookup, TypeOK
    <3> QED
      BY <1>0, <2>1, <2>3, <3>1, RetryFrame
  <2> QED
    BY <2>4, <2>5
<1>6. ASSUME NEW t \in Threads, NEW s \in {"closed", "good", "stale"}, pc[t] \in Busy,
             SetFile(t, s), UNCHANGED <<op, attr, gap>>,
             \A u \in Threads : u # t => pc'[u] = pc[u] /\ attempt'[u] = attempt[u],
             Retry(t)'
      PROVE  RetryInv'
  <2> SUFFICES ASSUME NEW u \in Threads, u # t PROVE Retry(u)'
    BY <1>6 DEF RetryInv, Retry
  <2>1. pc[u] \in Busy => File(u)' = File(u)
    BY <1>6, OthersFile
  <2> QED
    BY <1>0, <1>6, <2>1, RetryFrame
<1>7. ASSUME NEW t \in Threads, SetFile(t, File(t)) \/ SetFile(t, "good") \/ SetFile(t, "closed"),
             UNCHANGED <<op, attr>>, pc[t] \in Busy
      PROVE  /\ SetFile(t, File(t)) => File(t)' = File(t)
             /\ SetFile(t, "good") => File(t)' = "good"
             /\ SetFile(t, "closed") => File(t)' = "closed"
             /\ File(t) \in {"closed", "good", "stale"}
  <2>1. CacheOf(t) \in Cache /\ CacheOf(t)' = CacheOf(t) /\ attr[t] \in Attributes
    BY <1>7, CacheOfType DEF CacheOf, TypeOK
  <2>2. File(t) \in {"closed", "good", "stale"}
    BY <2>1 DEF File, TypeOK
  <2>3. ASSUME NEW s \in {"closed", "good", "stale"}, SetFile(t, s)
        PROVE  File(t)' = s
    BY <1>7, <2>1, <2>3, SetFileEffect DEF File
  <2> QED
    BY <2>2, <2>3
<1>8. ASSUME NEW t \in Threads, Open(t)
      PROVE  RetryInv'
  <2>1. pc[t] = "open" /\ UNCHANGED gap
    BY <1>8, OpenEffect
  <2>2. CASE Return(t, "no_such_device") /\ UNCHANGED stream
    BY <2>1, <2>2, RetryReturn
  <2>3. ASSUME pc' = [pc EXCEPT ![t] = "use"], UNCHANGED <<call, result, since>>
        PROVE  /\ pc'[t] = "use" /\ UNCHANGED <<op, attr, attempt>>
               /\ \A u \in Threads : u # t => pc'[u] = pc[u]
    BY <2>3 DEF call, TypeOK
  <2>4. CASE /\ SetFile(t, "good")
             /\ pc' = [pc EXCEPT ![t] = "use"] /\ UNCHANGED <<call, result, since>>
    <3>1. File(t)' = "good"
      BY <1>7, <2>1, <2>3, <2>4
    <3>2. Retry(t)'
      BY <1>0, <2>1, <2>3, <2>4, <3>1 DEF Retry
    <3> QED
      BY <1>6, <2>1, <2>3, <2>4, <3>2
  <2>5. CASE /\ File(t) \in {"good", "stale"} /\ SetFile(t, File(t))
             /\ pc' = [pc EXCEPT ![t] = "use"] /\ UNCHANGED <<call, result, since>>
    <3>1. attempt[t] # 1
      BY <1>0, <2>1, <2>5 DEF Retry
    <3>2. Retry(t)'
      BY <2>3, <2>5, <3>1 DEF Retry
    <3> QED
      BY <1>6, <2>1, <2>3, <2>5, <3>2
  <2> QED
    BY <1>8, <2>2, <2>4, <2>5, OpenEffect
<1>9. ASSUME NEW t \in Threads, Read(t) \/ Write(t) \/ WriteRefused(t)
      PROVE  RetryInv'
  BY <1>9, RetryReturn DEF Read, Write, WriteRefused
<1>10. ASSUME NEW t \in Threads, WriteStale(t)
      PROVE  RetryInv'
  <2>1. CASE op[t] = "set_int" /\ attempt[t] = 0
    <3> SUFFICES ASSUME NEW u \in Threads PROVE Retry(u)'
      BY DEF RetryInv, Retry
    <3>1. UNCHANGED <<op, attr, attempt, gap, stream>>
      BY <1>10, <2>1 DEF WriteStale, call
    <3>2. CASE u = t
      BY <2>1, <3>1, <3>2 DEF Retry
    <3>3. CASE u # t
      <4>1. pc'[u] = pc[u]
        BY <1>10, <2>1, <3>3 DEF WriteStale, TypeOK
      <4> QED
        BY <1>0, <3>1, <4>1, RetryFrame DEF File, CacheOf
    <3> QED
      BY <3>2, <3>3
  <2>2. CASE ~(op[t] = "set_int" /\ attempt[t] = 0)
    BY <1>10, <2>2, RetryReturn DEF WriteStale
  <2> QED
    BY <2>1, <2>2
<1>11. ASSUME NEW t \in Threads, Close(t)
      PROVE  RetryInv'
  <2>1. /\ pc[t] = "close" /\ SetFile(t, "closed") /\ UNCHANGED <<op, attr, gap>>
        /\ pc'[t] = "lookup" /\ op[t] = "set_int"
        /\ \A u \in Threads : u # t => pc'[u] = pc[u] /\ attempt'[u] = attempt[u]
    BY <1>11 DEF Close, TypeOK, CloseInv
  <2>2. File(t)' = "closed"
    BY <1>7, <2>1
  <2>3. Retry(t)'
    BY <2>1, <2>2 DEF Retry
  <2> QED
    BY <1>6, <2>1, <2>3
<1>12. ASSUME NEW t \in Threads, UseDestroyed(t)
      PROVE  RetryInv'
  <2> SUFFICES ASSUME NEW u \in Threads PROVE Retry(u)'
    BY DEF RetryInv, Retry
  <2>1. UNCHANGED <<op, attr, attempt, gap, stream>>
    BY <1>12 DEF UseDestroyed, call
  <2>2. CASE u = t
    BY <1>12, <2>1, <2>2 DEF UseDestroyed, Retry, TypeOK
  <2>3. CASE u # t
    <3>1. pc'[u] = pc[u]
      BY <1>12, <2>3 DEF UseDestroyed, TypeOK
    <3> QED
      BY <1>0, <2>1, <3>1, RetryFrame DEF File, CacheOf
  <2> QED
    BY <2>2, <2>3
<1>13. CASE UNCHANGED vars
  BY <1>13 DEF vars, RetryInv, File, CacheOf
<1> QED
  BY <1>1, <1>2, <1>3, <1>4, <1>5, <1>8, <1>9, <1>10, <1>11, <1>12, <1>13
     DEF Next, Step

LEMMA FailureStep ==
    TypeOK /\ GapInv /\ RetryInv /\ AbsentExplainsFailure /\ [Next]_vars
      => AbsentExplainsFailure'
<1> SUFFICES ASSUME TypeOK, GapInv, RetryInv, AbsentExplainsFailure, [Next]_vars
             PROVE  AbsentExplainsFailure'
  OBVIOUS
<1>1. ASSUME NEW t \in Threads, NEW r, Return(t, r), UNCHANGED gap,
             r \in {"no_such_device", "enodev"} => op[t] = "set_string" \/ gap[t]
      PROVE  AbsentExplainsFailure'
  BY <1>1 DEF Return, AbsentExplainsFailure, TypeOK
<1>2. ASSUME UNCHANGED <<op, result>>, \A t \in Threads : gap[t] => gap'[t]
      PROVE  AbsentExplainsFailure'
  BY <1>2 DEF AbsentExplainsFailure
<1>3. ASSUME NEW t \in Threads, NEW o \in Operations,
             Refuse(t, o) \/ \E a \in Attributes : Call(t, o, a)
      PROVE  AbsentExplainsFailure'
  BY <1>3 DEF Refuse, Call, AbsentExplainsFailure, TypeOK
<1>4. ASSUME NEW t \in Threads, Open(t)
      PROVE  AbsentExplainsFailure'
  <2>1. pc[t] = "open" /\ UNCHANGED gap
    BY <1>4, OpenEffect
  <2>2. CASE Return(t, "no_such_device") /\ attr[t] \notin present
    BY <1>1, <2>1, <2>2 DEF GapInv, Busy
  <2>3. CASE UNCHANGED <<call, result, since>>
    BY <1>2, <2>1, <2>3 DEF call
  <2> QED
    BY <1>4, <2>2, <2>3, OpenEffect
<1>5. ASSUME NEW t \in Threads, Read(t) \/ Write(t) \/ WriteRefused(t)
      PROVE  AbsentExplainsFailure'
  BY <1>1, <1>5 DEF Read, Write, WriteRefused
<1>6. ASSUME NEW t \in Threads, WriteStale(t)
      PROVE  AbsentExplainsFailure'
  <2>1. CASE op[t] = "set_int" /\ attempt[t] = 0
    BY <1>2, <1>6, <2>1 DEF WriteStale, call
  <2>2. CASE ~(op[t] = "set_int" /\ attempt[t] = 0)
    <3>1. /\ pc[t] = "use" /\ File(t) = "stale" /\ UNCHANGED gap
          /\ op[t] \in {"set_int", "set_string"} /\ Return(t, "enodev")
      BY <1>6, <2>2 DEF WriteStale, Writers
    <3>2. attempt[t] \in 0 .. 1
      BY DEF TypeOK
    <3>3. op[t] = "set_string" \/ gap[t]
      BY <2>2, <3>1, <3>2 DEF RetryInv
    <3> QED
      BY <1>1, <3>1, <3>3
  <2> QED
    BY <2>1, <2>2
<1>7. ASSUME NEW a \in Attributes, Remove(a) \/ Create(a)
      PROVE  AbsentExplainsFailure'
  BY <1>2, <1>7 DEF Remove, Create, call
<1>8. ASSUME NEW t \in Threads, Lookup(t) \/ Close(t) \/ UseDestroyed(t)
      PROVE  AbsentExplainsFailure'
  BY <1>2, <1>8 DEF Lookup, Close, UseDestroyed, call
<1>9. CASE UNCHANGED vars
  BY <1>2, <1>9 DEF vars
<1> QED
  BY <1>3, <1>4, <1>5, <1>6, <1>7, <1>8, <1>9 DEF Next, Step

(* The invariant that relates the two attempts to the file's absence        *)
(* (ev3dev.cpp:315-332).                                                   *)
THEOREM Invariance == Spec => []IInv
<1>1. Init => IInv
  <2> SUFFICES ASSUME Init PROVE IInv
    OBVIOUS
  <2>1. Exclusive /\ GapInv /\ CloseInv
    BY DEF Init, Exclusive, GapInv, CloseInv, Busy
  <2>2. RetryInv /\ AbsentExplainsFailure
    BY DEF Init, RetryInv, AbsentExplainsFailure, Busy
  <2> QED
    BY <2>1, <2>2, TypeInit, CachesInit DEF IInv
<1>2. IInv /\ [Next]_vars => IInv'
  BY TypeStep, CachesStep, CloseStep, ExclusiveStep, GapStep,
     RetryStep, FailureStep DEF IInv
<1> QED
  BY <1>1, <1>2, PTL DEF Spec

(* Whoever else uses the cache and whatever the kernel does: a call other  *)
(* than set_attr_string that reports that there is no device is right, the *)
(* file was absent during the call (ev3dev.cpp:279-333).                   *)
THEOREM AbsentExplainsFailureHolds == Spec => []AbsentExplainsFailure
<1>1. IInv => AbsentExplainsFailure
  BY DEF IInv
<1> QED
  BY <1>1, Invariance, PTL
------------------------------------------------------------------------------
(* More files than a cache has room for: how long a stream is safe after   *)
(* its lookup.                                                             *)

\* k is in the list, and the items before it are in S.
Ahead(items, k, S) ==
    \E p \in 1 .. Len(items) :
        /\ items[p] = k
        /\ \A j \in 1 .. Len(items) : j < p => items[j] \in S

LEMMA AheadHolds ==
    ASSUME NEW items, NEW k, NEW S, Ahead(items, k, S)
    PROVE  k \in Holds(items)
BY DEF Ahead, Holds

\* What was asked for is in front.
LEMMA AccessFront ==
    ASSUME NEW K, NEW items, Sound(items, K), NEW x \in K, NEW S
    PROVE  Ahead(Access(items, x), x, S)
<1> DEFINE after == Access(items, x)
<1>1. Len(items) \in Nat /\ CacheSize \in Nat \ {0}
  BY CacheSizeAssumption DEF CacheSizeAssumption, Sound
<1>2. 1 \in 1 .. Len(after) /\ after[1] = x
  <2>1. CASE x \in Holds(items)
    <3>1. Find(items, x) \in 1 .. Len(items) /\ items[Find(items, x)] = x
      BY <2>1, FindPosition DEF Sound
    <3>2. Len(Hit(items, Find(items, x))) = Len(items)
      BY <1>1 DEF Hit
    <3> QED
      BY <1>1, <2>1, <3>1, <3>2 DEF Access, Hit
  <2>2. CASE x \notin Holds(items)
    <3>1. /\ Len(Miss(items, x)) \in Nat \ {0}
          /\ Miss(items, x)[1] = x
      BY <1>1 DEF Miss
    <3> QED
      BY <2>2, <3>1 DEF Access
  <2> QED
    BY <2>1, <2>2
<1>3. Len(after) \in Nat
  BY AccessSound DEF Sound
<1> QED
  BY <1>2, <1>3 DEF Ahead

\* A lookup of x moves k back by at most one place, behind x.
LEMMA HitAhead ==
    ASSUME NEW K, NEW items, Sound(items, K), NEW k, NEW S, Ahead(items, k, S),
           NEW i \in 1 .. Len(items)
    PROVE  Ahead(Hit(items, i), k, S \cup {items[i]})
<1> DEFINE after == Hit(items, i)
           T == S \cup {items[i]}
<1>1. Len(items) \in Nat
  BY DEF Sound
<1>2. Len(after) = Len(items)
  BY <1>1 DEF Hit
<1>3. \A j \in 1 .. Len(items) : after[j] =
         IF j = 1 THEN items[i] ELSE IF j <= i THEN items[j - 1] ELSE items[j]
  BY DEF Hit
<1> HIDE DEF after
<1>4. PICK p \in 1 .. Len(items) :
         /\ items[p] = k
         /\ \A j \in 1 .. Len(items) : j < p => items[j] \in S
  BY DEF Ahead
<1>5. \A j \in 1 .. Len(items) : j <= p => after[j] \in T \/ (j = p /\ i < p)
  <2> SUFFICES ASSUME NEW j \in 1 .. Len(items), j <= p, ~(j = p /\ i < p)
               PROVE  after[j] \in T
    OBVIOUS
  <2>1. CASE j = 1
    BY <1>3, <2>1
  <2>2. CASE j # 1 /\ j <= i
    <3>1. j - 1 \in 1 .. Len(items) /\ j - 1 < p
      BY <1>1, <2>2
    <3> QED
      BY <1>3, <1>4, <2>2, <3>1
  <2>3. CASE j # 1 /\ j > i
    <3>1. j < p
      BY <1>1, <2>3
    <3> QED
      BY <1>1, <1>3, <1>4, <2>3, <3>1
  <2> QED
    BY <1>1, <2>1, <2>2, <2>3
<1>6. CASE i < p
  <2>1. after[p] = k
    BY <1>1, <1>3, <1>4, <1>6
  <2> QED
    BY <1>1, <1>2, <1>5, <2>1 DEF Ahead, after
<1>7. CASE i = p
  <2>1. 1 \in 1 .. Len(items) /\ after[1] = k
    BY <1>1, <1>3, <1>4, <1>7
  <2> QED
    BY <1>1, <1>2, <2>1 DEF Ahead, after
<1>8. CASE i > p
  <2>1. p + 1 \in 1 .. Len(items) /\ p + 1 # 1 /\ p + 1 <= i /\ (p + 1) - 1 = p
    BY <1>1, <1>8
  <2>2. after[p + 1] = k
    BY <1>3, <1>4, <2>1
  <2>3. \A j \in 1 .. Len(items) : j < p + 1 => after[j] \in T
    BY <1>1, <1>5, <1>8
  <2> QED
    BY <1>2, <2>1, <2>2, <2>3 DEF Ahead, after
<1> QED
  BY <1>1, <1>6, <1>7, <1>8

\* So does one that is not in the list, which pushes k out only from the last
\* place, when CacheSize - 1 items are ahead of it.
LEMMA MissAhead ==
    ASSUME NEW K, NEW items, Sound(items, K), NEW k, NEW S, IsFiniteSet(S),
           Ahead(items, k, S), NEW x \in K, x \notin Holds(items)
    PROVE  \/ Ahead(Miss(items, x), k, S \cup {x})
           \/ /\ k \notin Holds(Miss(items, x))
              /\ Cardinality((S \cup {x}) \ {k}) >= CacheSize
<1> DEFINE after == Miss(items, x)
           size == IF Len(items) < CacheSize THEN Len(items) + 1 ELSE CacheSize
           T == S \cup {x}
<1>1. /\ Len(items) \in Nat
      /\ Len(items) <= CacheSize
      /\ CacheSize \in Nat \ {0}
      /\ Distinct(items)
  BY CacheSizeAssumption DEF CacheSizeAssumption, Sound
<1>2. size \in Nat \ {0} /\ size <= Len(items) + 1 /\ size <= CacheSize
  BY <1>1
<1>3. after = [j \in 1 .. size |-> IF j = 1 THEN x ELSE items[j - 1]]
  BY DEF Miss
<1>4. Sound(after, K)
  BY MissSound
<1> HIDE DEF after
<1>5. Len(after) = size /\ DOMAIN after = 1 .. size
  <2> HIDE DEF size
  <2> QED
    BY <1>2, <1>3, <1>4 DEF Sound
<1>6. \A j \in 1 .. size : after[j] = IF j = 1 THEN x ELSE items[j - 1]
  BY <1>3
<1>7. PICK p \in 1 .. Len(items) :
         /\ items[p] = k
         /\ \A j \in 1 .. Len(items) : j < p => items[j] \in S
  BY DEF Ahead
<1>8. k # x
  BY <1>7 DEF Holds
<1>9. \A j \in 1 .. size : j <= p => after[j] \in T
  <2> SUFFICES ASSUME NEW j \in 1 .. size, j <= p, j # 1
               PROVE  items[j - 1] \in S
    BY <1>6
  <2>1. j - 1 \in 1 .. Len(items) /\ j - 1 < p
    BY <1>1, <1>2
  <2> QED
    BY <1>7, <2>1
<1>10. CASE p + 1 <= size
  <2>1. p + 1 \in 1 .. size /\ p + 1 # 1 /\ (p + 1) - 1 = p
    BY <1>1, <1>2, <1>10
  <2>2. after[p + 1] = k
    BY <1>6, <1>7, <2>1
  <2>3. \A j \in 1 .. size : j < p + 1 => after[j] \in T
    BY <1>2, <1>9
  <2> QED
    BY <1>5, <2>1, <2>2, <2>3 DEF Ahead, after
<1>11. CASE ~(p + 1 <= size)
  <2>1. p = Len(items) /\ size = CacheSize /\ p = CacheSize
    BY <1>1, <1>2, <1>11
  <2>2. ASSUME NEW j \in 1 .. size
        PROVE  after[j] \in T \ {k}
    <3>1. after[j] \in T
      BY <1>1, <1>9, <2>1
    <3>2. after[j] # k
      <4>1. CASE j = 1
        BY <1>6, <1>8, <4>1
      <4>2. CASE j # 1
        <5>1. j - 1 \in 1 .. Len(items) /\ j - 1 # p
          BY <1>1, <1>2, <2>1, <4>2
        <5>2. items[j - 1] # k
          BY <1>1, <1>7, <5>1 DEF Distinct
        <5> QED
          BY <1>6, <4>2, <5>2
      <4> QED
        BY <4>1, <4>2
    <3> QED
      BY <3>1, <3>2
  <2>3. after \in [1 .. size -> T \ {k}]
    BY <1>3, <2>2
  <2>4. after \in Injection(1 .. size, T \ {k})
    BY <1>4, <1>5, <2>3 DEF Sound, Distinct, Injection, IsInjective
  <2>5. IsFiniteSet(T \ {k})
    BY FS_AddElement, FS_RemoveElement
  <2>6. Cardinality(1 .. size) <= Cardinality(T \ {k})
    BY <2>4, <2>5, FS_Injection
  <2>7. Cardinality(1 .. size) = size
    <3> HIDE DEF size
    <3> QED
      BY <1>2, FS_Interval
  <2>8. Cardinality(T \ {k}) \in Nat
    BY <2>5, FS_CardinalityType
  <2>9. k \notin Holds(after)
    BY <1>5, <2>2 DEF Holds
  <2> QED
    BY <1>1, <2>1, <2>6, <2>7, <2>8, <2>9 DEF after
<1> QED
  BY <1>10, <1>11

(* A lookup of x either keeps k, with x among what may be ahead of it, or  *)
(* CacheSize others have been looked up (lru_cache, ev3dev.cpp:102-120).   *)
LEMMA AccessAhead ==
    ASSUME NEW K, NEW items, Sound(items, K), NEW k, NEW S, IsFiniteSet(S),
           Ahead(items, k, S), NEW x \in K
    PROVE  \/ Ahead(Access(items, x), k, S \cup {x})
           \/ /\ k \notin Holds(Access(items, x))
              /\ Cardinality((S \cup {x}) \ {k}) >= CacheSize
<1>1. CASE x \in Holds(items)
  <2>1. Find(items, x) \in 1 .. Len(items) /\ items[Find(items, x)] = x
    BY <1>1, FindPosition DEF Sound
  <2>2. Ahead(Hit(items, Find(items, x)), k, S \cup {x})
    BY <2>1, HitAhead
  <2> QED
    BY <1>1, <2>2 DEF Access
<1>2. CASE x \notin Holds(items)
  BY <1>2, MissAhead DEF Access
<1> QED
  BY <1>1, <1>2
------------------------------------------------------------------------------
(* Streams in use.                                                         *)

\* While a thread's stream exists, the items ahead of it in the list are of
\* files that others have looked up since the thread did.
InUse(t) ==
    /\ t \in dangling => pc[t] \in HasReference \cup {"undefined"}
    /\ pc[t] \in HasReference /\ t \notin dangling
          => Ahead(cache[CacheOf(t)], attr[t], since[t])
    /\ t \in dangling => Cardinality(since[t] \ {attr[t]}) >= CacheSize

UseInv == \A t \in Threads : InUse(t)

\* A thread that keeps, or has, its reference while nothing else happens to it.
LEMMA InUseFrame ==
    ASSUME NEW u \in Threads, InUse(u),
           pc[u] \in HasReference <=> pc'[u] \in HasReference,
           pc'[u] \in HasReference \/ pc'[u] = pc[u],
           op'[u] = op[u], attr'[u] = attr[u], since'[u] = since[u],
           UNCHANGED <<cache, dangling>>
    PROVE  InUse(u)'
BY DEF InUse, CacheOf

\* A thread that has no reference any more, or not yet.
LEMMA InUseWithout ==
    ASSUME NEW u \in Threads, u \notin dangling, UNCHANGED dangling,
           pc'[u] \notin HasReference
    PROVE  InUse(u)'
BY DEF InUse

LEMMA InUseReturn ==
    ASSUME TypeOK, UseInv, NEW t \in Threads, NEW r, Return(t, r),
           t \notin dangling, UNCHANGED <<cache, dangling>>
    PROVE  UseInv'
<1> SUFFICES ASSUME NEW u \in Threads PROVE InUse(u)'
  BY DEF UseInv
<1>1. CASE u = t
  <2>1. pc'[u] = "idle"
    BY <1>1 DEF Return, TypeOK
  <2> QED
    BY <1>1, <2>1, InUseWithout DEF HasReference
<1>2. CASE u # t
  <2>1. /\ pc'[u] = pc[u] /\ op'[u] = op[u] /\ attr'[u] = attr[u]
        /\ since'[u] = since[u]
    BY <1>2 DEF Return, TypeOK
  <2> QED
    BY <2>1, InUseFrame DEF UseInv
<1> QED
  BY <1>1, <1>2

\* A thread keeps the set of files that can be ahead of its own finite.
LEMMA SinceFinite ==
    ASSUME TypeOK, NEW t \in Threads
    PROVE  IsFiniteSet(since[t]) /\ IsFiniteSet(since[t] \ {attr[t]})
<1>1. since[t] \subseteq Attributes
  BY DEF TypeOK
<1>2. IsFiniteSet(since[t])
  BY <1>1, AttributesAssumption, FS_Subset DEF AttributesAssumption
<1> QED
  BY <1>2, FS_RemoveElement

\* More lookups make the set no smaller.
LEMMA SinceGrows ==
    ASSUME NEW S, IsFiniteSet(S), NEW x, NEW k,
           Cardinality(S \ {k}) >= CacheSize
    PROVE  Cardinality((S \cup {x}) \ {k}) >= CacheSize
<1>1. IsFiniteSet((S \cup {x}) \ {k}) /\ IsFiniteSet(S \ {k})
  BY FS_AddElement, FS_RemoveElement
<1>2. S \ {k} \subseteq (S \cup {x}) \ {k}
  OBVIOUS
<1>3. Cardinality(S \ {k}) <= Cardinality((S \cup {x}) \ {k})
  BY <1>1, <1>2, FS_Subset
<1>4. Cardinality(S \ {k}) \in Nat /\ Cardinality((S \cup {x}) \ {k}) \in Nat
  BY <1>1, FS_CardinalityType
<1>5. CacheSize \in Nat
  BY CacheSizeAssumption DEF CacheSizeAssumption
<1> QED
  BY <1>3, <1>4, <1>5

LEMMA InUseLookup ==
    ASSUME TypeOK, CachesSound, UseInv, NEW t \in Threads, Lookup(t)
    PROVE  UseInv'
<1> DEFINE c == CacheOf(t)
           x == attr[t]
           after == Access(cache[c], x)
           lost == Evicted(cache[c], x)
<1>1. /\ c \in Cache /\ x \in Attributes /\ Sound(cache[c], Attributes)
      /\ pc[t] = "lookup"
  BY CacheOfType DEF Lookup, TypeOK, Busy, CachesSound
<1>2. /\ cache' = [cache EXCEPT ![c] = after]
      /\ dangling' = dangling \cup
            {u \in Threads : pc[u] \in HasReference /\ CacheOf(u) = c /\ attr[u] \in lost}
      /\ UNCHANGED <<op, attr>>
      /\ pc' = [pc EXCEPT ![t] = "open"]
  BY DEF Lookup, call
<1>3. ASSUME NEW u \in Threads
      PROVE  since'[u] = IF u = t THEN {}
                         ELSE IF pc[u] \in HasReference /\ CacheOf(u) = c
                              THEN since[u] \cup {x} ELSE since[u]
  BY <1>3 DEF Lookup
<1>4. \A u \in Threads : CacheOf(u)' = CacheOf(u)
  BY <1>2 DEF CacheOf
<1>5. cache'[c] = after /\ \A d \in Cache : d # c => cache'[d] = cache[d]
  BY <1>1, <1>2 DEF TypeOK
<1>6. lost = Holds(cache[c]) \ Holds(after)
  BY DEF Evicted
<1> HIDE DEF c, x, after, lost
<1> SUFFICES ASSUME NEW u \in Threads PROVE InUse(u)'
  BY DEF UseInv
<1>7. InUse(u) /\ CacheOf(u) \in Cache
  BY CacheOfType DEF UseInv
<1>8. CASE u = t
  <2>1. u \notin dangling'
    BY <1>1, <1>2, <1>7, <1>8 DEF InUse, HasReference
  <2>2. Ahead(after, x, {})
    BY <1>1, AccessFront DEF after
  <2>3. Ahead(cache'[CacheOf(u)'], attr'[u], since'[u])
    BY <1>2, <1>3, <1>4, <1>5, <1>8, <2>2 DEF c, x
  <2> QED
    BY <2>1, <2>3 DEF InUse
<1>9. CASE u # t /\ pc[u] \in HasReference /\ CacheOf(u) = c
  <2>1. /\ since'[u] = since[u] \cup {x} /\ attr'[u] = attr[u] /\ pc'[u] = pc[u]
        /\ cache'[CacheOf(u)'] = after /\ IsFiniteSet(since[u])
    BY <1>2, <1>3, <1>4, <1>5, <1>9, SinceFinite DEF TypeOK
  <2>2. CASE u \in dangling
    <3>1. Cardinality((since[u] \cup {x}) \ {attr[u]}) >= CacheSize
      BY <1>7, <2>1, <2>2, SinceGrows DEF InUse
    <3> QED
      BY <1>2, <1>9, <2>1, <2>2, <3>1 DEF InUse
  <2>3. CASE u \notin dangling
    <3>1. Ahead(cache[c], attr[u], since[u])
      BY <1>7, <1>9, <2>3 DEF InUse
    <3>2. u \in dangling' <=> attr[u] \notin Holds(after)
      BY <1>2, <1>6, <1>9, <2>3, <3>1, AheadHolds
    <3>3. \/ Ahead(after, attr[u], since[u] \cup {x})
          \/ /\ attr[u] \notin Holds(after)
             /\ Cardinality((since[u] \cup {x}) \ {attr[u]}) >= CacheSize
      BY <1>1, <2>1, <3>1, AccessAhead DEF after
    <3>4. CASE Ahead(after, attr[u], since[u] \cup {x})
      <4>1. u \notin dangling'
        BY <3>2, <3>4, AheadHolds
      <4> QED
        BY <2>1, <3>4, <4>1 DEF InUse
    <3>5. CASE /\ attr[u] \notin Holds(after)
               /\ Cardinality((since[u] \cup {x}) \ {attr[u]}) >= CacheSize
      BY <1>9, <2>1, <3>2, <3>5 DEF InUse
    <3> QED
      BY <3>3, <3>4, <3>5
  <2> QED
    BY <2>2, <2>3
<1>10. CASE u # t /\ ~(pc[u] \in HasReference /\ CacheOf(u) = c)
  <2>1. /\ since'[u] = since[u] /\ attr'[u] = attr[u] /\ pc'[u] = pc[u]
        /\ (u \in dangling' <=> u \in dangling)
    BY <1>2, <1>3, <1>10 DEF TypeOK
  <2>2. pc[u] \in HasReference => cache'[CacheOf(u)'] = cache[CacheOf(u)]
    BY <1>4, <1>5, <1>7, <1>10
  <2> QED
    BY <1>7, <2>1, <2>2 DEF InUse
<1> QED
  BY <1>8, <1>9, <1>10

LEMMA UseStep ==
    TypeOK /\ CachesSound /\ UseInv /\ [Next]_vars => UseInv'
<1> SUFFICES ASSUME TypeOK, CachesSound, UseInv, [Next]_vars PROVE UseInv'
  OBVIOUS
<1>1. ASSUME NEW a \in Attributes, Remove(a) \/ Create(a)
      PROVE  UseInv'
  BY <1>1, InUseFrame DEF Remove, Create, call, UseInv
<1>2. ASSUME NEW t \in Threads, NEW o \in Operations,
             Refuse(t, o) \/ \E a \in Attributes : Call(t, o, a)
      PROVE  UseInv'
  <2> SUFFICES ASSUME NEW u \in Threads PROVE InUse(u)'
    BY DEF UseInv
  <2>1. UNCHANGED <<cache, dangling, since>> /\ pc[t] = "idle"
    BY <1>2 DEF Refuse, Call
  <2>2. CASE u = t
    <3>1. u \notin dangling
      BY <2>1, <2>2 DEF UseInv, InUse, HasReference
    <3>2. pc'[u] \notin HasReference
      BY <1>2, <2>2 DEF Refuse, Call, HasReference, TypeOK
    <3> QED
      BY <2>1, <3>1, <3>2, InUseWithout
  <2>3. CASE u # t
    <3>1. pc'[u] = pc[u] /\ op'[u] = op[u] /\ attr'[u] = attr[u]
      BY <1>2, <2>3 DEF Refuse, Call, TypeOK
    <3> QED
      BY <2>1, <3>1, InUseFrame DEF UseInv
  <2> QED
    BY <2>2, <2>3
<1>3. ASSUME NEW t \in Threads, Lookup(t)
      PROVE  UseInv'
  BY <1>3, InUseLookup
<1>4. ASSUME NEW t \in Threads, pc[t] \in HasReference, t \notin dangling,
             UNCHANGED <<cache, dangling, op, attr, since>>,
             \E p \in {"use", "close", "lookup"} : pc' = [pc EXCEPT ![t] = p]
      PROVE  UseInv'
  <2> SUFFICES ASSUME NEW u \in Threads PROVE InUse(u)'
    BY DEF UseInv
  <2>1. CASE u # t \/ pc'[t] \in HasReference
    <3>1. /\ pc[u] \in HasReference <=> pc'[u] \in HasReference
          /\ pc'[u] \in HasReference \/ pc'[u] = pc[u]
      BY <1>4, <2>1 DEF TypeOK
    <3> QED
      BY <1>4, <3>1, InUseFrame DEF UseInv
  <2>2. CASE u = t /\ pc'[t] \notin HasReference
    BY <1>4, <2>2, InUseWithout
  <2> QED
    BY <2>1, <2>2
<1>5. ASSUME NEW t \in Threads, Open(t)
      PROVE  UseInv'
  <2>1. pc[t] = "open" /\ t \notin dangling /\ UNCHANGED <<cache, dangling>>
    BY <1>5 DEF Open
  <2>2. CASE Return(t, "no_such_device")
    BY <2>1, <2>2, InUseReturn
  <2>3. CASE pc' = [pc EXCEPT ![t] = "use"] /\ UNCHANGED <<call, result, since>>
    BY <1>4, <2>1, <2>3 DEF call, HasReference
  <2> QED
    BY <1>5, <2>2, <2>3, OpenEffect
<1>6. ASSUME NEW t \in Threads, Read(t) \/ Write(t) \/ WriteRefused(t)
      PROVE  UseInv'
  BY <1>6, InUseReturn DEF Read, Write, WriteRefused
<1>7. ASSUME NEW t \in Threads, WriteStale(t)
      PROVE  UseInv'
  <2>1. pc[t] = "use" /\ t \notin dangling /\ UNCHANGED <<cache, dangling>>
    BY <1>7 DEF WriteStale
  <2>2. CASE op[t] = "set_int" /\ attempt[t] = 0
    BY <1>4, <1>7, <2>1, <2>2 DEF WriteStale, call, HasReference
  <2>3. CASE ~(op[t] = "set_int" /\ attempt[t] = 0)
    BY <1>7, <2>1, <2>3, InUseReturn DEF WriteStale
  <2> QED
    BY <2>2, <2>3
<1>8. ASSUME NEW t \in Threads, Close(t)
      PROVE  UseInv'
  BY <1>4, <1>8 DEF Close, HasReference
<1>9. ASSUME NEW t \in Threads, UseDestroyed(t)
      PROVE  UseInv'
  <2> SUFFICES ASSUME NEW u \in Threads PROVE InUse(u)'
    BY DEF UseInv
  <2>1. t \in dangling /\ UNCHANGED <<cache, dangling, op, attr, since>>
    BY <1>9 DEF UseDestroyed, call
  <2>2. CASE u = t
    <3>1. pc'[u] = "undefined"
      BY <1>9, <2>2 DEF UseDestroyed, TypeOK
    <3> QED
      BY <2>1, <2>2, <3>1 DEF UseInv, InUse, HasReference
  <2>3. CASE u # t
    <3>1. pc'[u] = pc[u]
      BY <1>9, <2>3 DEF UseDestroyed, TypeOK
    <3> QED
      BY <2>1, <3>1, InUseFrame DEF UseInv
  <2> QED
    BY <2>2, <2>3
<1>10. CASE UNCHANGED vars
  BY <1>10, InUseFrame DEF vars, UseInv
<1> QED
  BY <1>1, <1>2, <1>3, <1>5, <1>6, <1>7, <1>8, <1>9, <1>10 DEF Next, Step

(* For any number of threads and files and any size of the cache: a        *)
(* reference that ifstream_cache or ofstream_cache has returned is good    *)
(* until other threads have looked up CacheSize other files in that cache  *)
(* (ev3dev.cpp:102-155).                                                   *)
THEOREM StreamOutlivesUseHolds == Spec => []StreamOutlivesUse
<1>1. Init => UseInv
  BY DEF Init, UseInv, InUse, HasReference
<1>2. TypeOK /\ CachesSound /\ UseInv /\ [Next]_vars => UseInv'
  BY UseStep
<1>3. UseInv => StreamOutlivesUse
  BY DEF UseInv, InUse, StreamOutlivesUse
<1> QED
  BY <1>1, <1>2, <1>3, TypeCorrect, PTL DEF Spec
===============================================================================
