-------------------------------- MODULE Cache --------------------------------
(***************************************************************************)
(* The in-memory cache of lib/common/cache.c, as the TLS session cache of  *)
(* the proxy uses it: shared by all threads under a mutex, bounded by the  *)
(* total length of its values, with a time to live.  Entries are counted   *)
(* references: one for the table and one for each fetch not yet released,  *)
(* and a release does not take the mutex.                                  *)
(*                                                                         *)
(* A critical section is one step.  `now' is the clock of the loop of the  *)
(* calling thread; the clocks of two threads need not agree.               *)
(***************************************************************************)
EXTENDS Integers, Sequences, FiniteSets, FiniteSetsExt, Lists

CONSTANTS
    Users,        \* the threads that use the cache
    Keys,
    Refs,         \* vhttp_cache_ref_t objects; freed ones are reused
    Lengths,      \* lengths of the values
    Capacity, Duration,
    EarlyUpdate,  \* vhttp_CACHE_FLAG_EARLY_UPDATE
    EarlyWindow,  \* the time left below which it applies (10 in the code)
    MaxTime,      \* bound on the clocks
    MaxHeld       \* bound on the references a thread holds

ASSUME CacheAssumption ==
    /\ IsFiniteSet(Refs) /\ IsFiniteSet(Users) /\ Lengths \subseteq Nat /\ EarlyUpdate \in BOOLEAN
    /\ {Capacity, Duration, EarlyWindow, MaxTime, MaxHeld} \subseteq Nat

VARIABLES
    table,   \* the refs in the hash table
    lru, age,
    size,
    ref,     \* key, value.len, at, _requested_early_update and _refcnt of each
    clock,   \* vhttp_now of the loop of each thread
    held     \* how many references each thread got and did not release

svars == <<table, lru, age, size>>
cache_vars == <<svars, ref, clock, held>>

NoRef == [key |-> "none", len |-> 0, at |-> 0, early |-> FALSE, refcnt |-> 0]

CacheInit ==
    /\ table = {} /\ lru = <<>> /\ age = <<>> /\ size = 0
    /\ ref = [r \in Refs |-> NoRef]
    /\ clock = [th \in Users |-> 0]
    /\ held = [th \in Users |-> [r \in Refs |-> 0]]

------------------------------------------------------------------------------
(* The operations are compositions of functions from and to the structure  *)
(* under the mutex: s.table, s.lru, s.age, s.size and s.ref.               *)

Now == [table |-> table, lru |-> lru, age |-> age, size |-> size, ref |-> ref]

Becomes(s) ==
    /\ table' = s.table /\ lru' = s.lru /\ age' = s.age /\ size' = s.size
    /\ ref' = s.ref

\* the sum of f over S: how many there are if every x in S has f[x] of them
Total(f, S) == Cardinality(UNION {{x} \X (1 .. f[x]) : x \in S})

TotalLength(s, refs) == Total([r \in Refs |-> s.ref[r].len], refs)

\* Mutation: frees the entry whoever else refers to it.
DropFrees(rec) == NoRef

\* vhttp_cache_release: what the last release frees can be allocated again
Drop(rec) == IF rec.refcnt = 1 THEN NoRef ELSE [rec EXCEPT !.refcnt = @ - 1]

\* Mutation: the entry stays in the age list.
EraseKeepsAge(s, gone) ==
    [table |-> s.table \ gone, lru |-> Without(s.lru, gone), age |-> s.age,
     size |-> s.size - TotalLength(s, gone),
     ref |-> [r \in Refs |-> IF r \in gone THEN Drop(s.ref[r]) ELSE s.ref[r]]]

\* erase_ref, of a set of entries
Erase(s, gone) ==
    [table |-> s.table \ gone,
     lru |-> Without(s.lru, gone), age |-> Without(s.age, gone),
     size |-> s.size - TotalLength(s, gone),
     ref |-> [r \in Refs |-> IF r \in gone THEN Drop(s.ref[r]) ELSE s.ref[r]]]

TimeLeft(s, r, now) == s.ref[r].at + Duration - now

\* the first loop of purge: the shortest prefix of the LRU list that has to go
\* (its assertion is that there is one)
PurgeBySize(s) ==
    LET Prefix(k) == {s.lru[i] : i \in 1 .. k}
        Fits(k) == s.size - TotalLength(s, Prefix(k)) <= Capacity
    IN Erase(s, Prefix(Min({k \in 0 .. Len(s.lru) : Fits(k)})))

\* Mutation: only the oldest entry is looked at.
PurgeOldest(s, now) ==
    IF s.age # <<>> /\ TimeLeft(s, s.age[1], now) < 0 THEN Erase(s, {s.age[1]}) ELSE s

\* the second one: the prefix of the age list that is past its time
PurgeByAge(s, now) ==
    Erase(s, {s.age[i] : i \in {j \in DOMAIN s.age :
                                 \A k \in 1 .. j : TimeLeft(s, s.age[k], now) < 0}})

Purge(s, now) == PurgeByAge(PurgeBySize(s), now)

\* kh_get
Find(s, k) == {r \in s.table : s.ref[r].key = k}

------------------------------------------------------------------------------
(* vhttp_cache_fetch: the three ways to miss, and a hit.                   *)

FetchMiss(th, k) ==
    LET s == Purge(Now, clock[th]) IN
    /\ \A r \in Find(s, k) : TimeLeft(s, r, clock[th]) < 0
    /\ Becomes(s)
    /\ UNCHANGED <<clock, held>>

WantsEarlyUpdate(s, r, now) ==
    EarlyUpdate /\ TimeLeft(s, r, now) < EarlyWindow /\ ~s.ref[r].early

FetchEarlyUpdate(th, k) ==
    LET s == Purge(Now, clock[th]) IN
    /\ \E r \in Find(s, k) :
        /\ TimeLeft(s, r, clock[th]) >= 0 /\ WantsEarlyUpdate(s, r, clock[th])
        /\ Becomes([s EXCEPT !.ref[r].early = TRUE])
    /\ UNCHANGED <<clock, held>>

FetchHit(th, k) ==
    LET s == Purge(Now, clock[th]) IN
    \E r \in Find(s, k) :
        /\ TimeLeft(s, r, clock[th]) >= 0 /\ ~WantsEarlyUpdate(s, r, clock[th])
        /\ held[th][r] < MaxHeld
        /\ Becomes([s EXCEPT !.lru = Append(Without(@, {r}), r),
                             !.ref[r].refcnt = @ + 1])
        /\ held' = [held EXCEPT ![th][r] = @ + 1]
        /\ UNCHANGED clock

\* vhttp_cache_release by a thread that fetched: no mutex
Release(th, r) ==
    /\ held[th][r] > 0
    /\ ref' = [ref EXCEPT ![r] = Drop(@)]
    /\ held' = [held EXCEPT ![th][r] = @ - 1]
    /\ UNCHANGED <<svars, clock>>

\* vhttp_cache_set: replace or add, then purge, which may evict anything, the
\* new value included
CacheSet(th, k, len) ==
    \E r \in Refs :
        /\ ref[r] = NoRef
        /\ LET s == Erase(Now, Find(Now, k))
               new == [NoRef EXCEPT !.key = k, !.len = len, !.at = clock[th], !.refcnt = 1]
           IN Becomes(Purge([table |-> s.table \cup {r},
                             lru |-> Append(s.lru, r), age |-> Append(s.age, r),
                             size |-> s.size + len,
                             ref |-> [s.ref EXCEPT ![r] = new]], clock[th]))
        /\ UNCHANGED <<clock, held>>

Delete(th, k) ==
    /\ LET s == Purge(Now, clock[th]) IN Becomes(Erase(s, Find(s, k)))
    /\ UNCHANGED <<clock, held>>

\* vhttp_cache_clear, also the first half of vhttp_cache_destroy
Clear ==
    /\ Becomes(Erase(Now, Elements(lru)))
    /\ UNCHANGED <<clock, held>>

Tick(th) ==
    /\ clock[th] < MaxTime
    /\ clock' = [clock EXCEPT ![th] = @ + 1]
    /\ UNCHANGED <<svars, ref, held>>

CacheNext ==
    \/ \E th \in Users, k \in Keys :
        \/ FetchMiss(th, k) \/ FetchEarlyUpdate(th, k) \/ FetchHit(th, k) \/ Delete(th, k)
        \/ \E len \in Lengths : CacheSet(th, k, len)
    \/ \E th \in Users, r \in Refs : Release(th, r)
    \/ \E th \in Users : Tick(th)
    \/ Clear

CacheSpec == CacheInit /\ [][CacheNext]_cache_vars

------------------------------------------------------------------------------
CacheTypeOK ==
    /\ table \subseteq Refs /\ lru \in Seq(Refs) /\ age \in Seq(Refs) /\ size \in Nat
    /\ ref \in [Refs -> [key : Keys \cup {"none"}, len : Lengths \cup {0}, at : 0 .. MaxTime,
                         early : BOOLEAN, refcnt : Nat]]
    /\ clock \in [Users -> 0 .. MaxTime]
    /\ held \in [Users -> [Refs -> 0 .. MaxHeld]]

\* The table and the two lists hold the same entries, each once, and one entry
\* per key: purge and clear find in the table what they take from a list, and
\* vhttp_cache_clear's assertions hold.
StructureAgrees ==
    /\ Elements(lru) = table /\ Distinct(lru)
    /\ Elements(age) = table /\ Distinct(age)
    /\ \A r, q \in table : ref[r].key = ref[q].key => r = q

\* Whenever the mutex is free the size is the sum of the lengths of the values
\* in the table and not above the capacity, even if a single value is larger
\* than the cache.
SizeExact == size = TotalLength(Now, table) /\ size <= Capacity

\* Table, lists and size agree whenever the mutex is free.
CacheInv == CacheTypeOK /\ StructureAgrees /\ SizeExact

\* The references of an entry are the table's and those that threads hold: it
\* is freed once, when the last of them is gone, and never while a thread holds
\* one, although releases do not take the mutex.
RefcountExact ==
    \A r \in Refs :
        ref[r].refcnt = (IF r \in table THEN 1 ELSE 0)
                        + Total([th \in Users |-> held[th][r]], Users)

FetchOrSet(th) ==
    \E k \in Keys :
        \/ FetchMiss(th, k) \/ FetchEarlyUpdate(th, k) \/ FetchHit(th, k)
        \/ \E len \in Lengths : CacheSet(th, k, len)

\* the value at position i of the age list is past its time, and none that a
\* faster clock stored is listed as older
LeftBehind(th, i) ==
    /\ ref[age[i]].at + Duration < clock[th]
    /\ \A j \in 1 .. i - 1 : ref[age[j]].at <= ref[age[i]].at

\* With one clock no value that is past its time survives a fetch or a set,
\* although the scan of the age list stops at the first value that is not; with
\* several clocks, only behind one that a faster clock stored.  (The erase of
\* vhttp_cache_delete comes after its purge and may leave one behind.)
PurgeComplete ==
    [][\A th \in Users :
        (\E i \in DOMAIN age' : LeftBehind(th, i)') => ~FetchOrSet(th)]_cache_vars
==============================================================================
