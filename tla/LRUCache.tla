------------------------------ MODULE LRUCache ------------------------------
(***************************************************************************)
(* The affinity cache of the server as it lives: any goroutine uses it,    *)
(* TunnelRegistry.SaveCacheThread (server/registry.go) saves it to its     *)
(* file every ten minutes, and NewTunnelRegistry loads that file when      *)
(* ngrokd starts again.  The cache itself is cache/lru.go, see LRU.tla.    *)
(*                                                                         *)
(* A save is three steps that other operations and a crash may come        *)
(* between: the file is opened and truncated, the items are copied under   *)
(* the cache's lock, and the copy is encoded into the file.  A file that   *)
(* is missing, empty or incomplete cannot be decoded: `file' is NoValue.   *)
(*                                                                         *)
(* TunnelRegistry uses this cache; the names of what both modules have are *)
(* different, so that one module of proofs can extend both.                *)
(***************************************************************************)
EXTENDS LRU

CONSTANTS
    Keys, Values, NoValue,
    Capacity,       \* registryCacheSize
    Capacities,     \* what SetCapacity may be called with
    MaxRestarts     \* bound: how often ngrokd is restarted

ItemSeq == Seq([key : Keys, value : Values])

ASSUME CacheAssumption ==
    /\ NoValue \notin Values /\ NoValue \notin ItemSeq
    /\ Capacity \in Nat /\ Capacities \subseteq Nat
    /\ MaxRestarts \in Nat /\ Word \in Nat
    /\ \A v \in Values : SizeOf(v) \in Nat

(***************************************************************************)
(* One more value on top of a full cache is counted without an overflow.   *)
(* The sum of registryCacheSize (a mebibyte) and any int is below 2^64;    *)
(* nothing calls SetCapacity, which would take any capacity.               *)
(***************************************************************************)
ASSUME SizesFit ==
    \A n \in Capacities \cup {Capacity} : n < Word /\ \A v \in Values : n + SizeOf(v) < Word

VARIABLES
    cache,      \* the LRUCache
    file,       \* the items in the cache file, NoValue when it cannot be decoded
    saver,      \* where the save is: [at, items]
    event,      \* observed: what the last operation was, and its answer
    used,       \* observed: the pairs of keys of which the first was used after the second
    restarts

cacheVars == <<cache, file, saver, event, used, restarts>>

Idle == [at |-> "idle", items |-> <<>>]

Total(c) == RunningTotals(Sizes(c.list))[Len(c.list)]
ItemsTotal(items) == RunningTotals([i \in DOMAIN items |-> SizeOf(items[i].value)])[Len(items)]

(***************************************************************************)
(* Types, and the table has exactly the keys of the list, each key once    *)
(* (lru.go keeps them together in addNew, Delete and checkCapacity).       *)
(***************************************************************************)
CacheTypeOK ==
    /\ \A i \in DOMAIN cache.list : cache.list[i] \in [key : Keys, value : Values, size : 0..Word - 1]
    /\ \A i, j \in DOMAIN cache.list : cache.list[i].key = cache.list[j].key => i = j
    /\ cache.table = {cache.list[i].key : i \in DOMAIN cache.list}
    /\ file \in ItemSeq \cup {NoValue}
    /\ saver \in [at : {"idle", "open", "write"}, items : ItemSeq]
    /\ restarts \in 0..MaxRestarts

-----------------------------------------------------------------------------
CacheInit ==
    /\ cache = New(Capacity)
    /\ file = NoValue
    /\ saver = Idle
    /\ event = <<"none">>
    /\ used = {}
    /\ restarts = 0

Quiet == <<"none">>

Operate(c, e) ==
    /\ cache' = c
    /\ event' = e
    /\ UNCHANGED <<file, saver, restarts>>

\* k is used after all others
Use(k) == used' = IF restarts > 0 THEN {}
                  ELSE {<<k, l>> : l \in Keys \ {k}} \cup {p \in used : k \notin {p[1], p[2]}}
NoUse  == UNCHANGED used

Get(k) ==
    /\ IF Hit(cache, k)
       THEN Operate(AfterGet(cache, k), <<"get", k, ValueOf(cache, k)>>) /\ Use(k)
       ELSE Operate(cache, <<"get", k, NoValue>>) /\ NoUse

Set(k, v)         == Operate(AfterSet(cache, k, v), <<"set", k, v>>) /\ Use(k)
SetIfAbsent(k, v) == Operate(AfterSetIfAbsent(cache, k, v), Quiet) /\ Use(k)
Delete(k)         == Operate(AfterDelete(cache, k), Quiet) /\ NoUse
Clear             == Operate(AfterClear(cache), Quiet) /\ NoUse
SetCapacity(n)    == Operate(AfterSetCapacity(cache, n), Quiet) /\ NoUse

-----------------------------------------------------------------------------
\* os.OpenFile with O_TRUNC
OpenFile ==
    /\ saver.at = "idle"
    /\ saver' = [saver EXCEPT !.at = "open"]
    /\ file' = NoValue
    /\ event' = Quiet
    /\ UNCHANGED <<cache, used, restarts>>

CopyItems ==
    /\ saver.at = "open"
    /\ saver' = [at |-> "write", items |-> Items(cache)]
    /\ event' = Quiet
    /\ UNCHANGED <<cache, file, used, restarts>>

\* the items reach the file, or the encoder fails and leaves a part of them
WriteFile ==
    /\ saver.at = "write"
    /\ saver' = Idle
    /\ \/ file' = saver.items
       \/ UNCHANGED file
    /\ event' = Quiet
    /\ UNCHANGED <<cache, used, restarts>>

\* LoadItemsFromFile into the new cache; an error is logged and ignored
Loaded == IF file = NoValue THEN New(Capacity) ELSE LoadItems(New(Capacity), file)

\* ngrokd is gone, at any moment, and started again
Restart ==
    /\ restarts < MaxRestarts
    /\ cache' = Loaded
    /\ saver' = Idle
    /\ restarts' = restarts + 1
    /\ used' = {} /\ event' = Quiet
    /\ UNCHANGED file

CacheNext ==
    \/ \E k \in Keys : Get(k) \/ Delete(k)
    \/ \E k \in Keys, v \in Values : Set(k, v) \/ SetIfAbsent(k, v)
    \/ Clear
    \/ \E n \in Capacities : SetCapacity(n)
    \/ OpenFile \/ CopyItems \/ WriteFile
    \/ Restart

CacheSpec == CacheInit /\ [][CacheNext]_cacheVars

-----------------------------------------------------------------------------
(***************************************************************************)
(* The size the cache keeps adding to and subtracting from, in unsigned    *)
(* arithmetic, is always the sum of what it holds, and within the          *)
(* capacity; otherwise checkCapacity (lru.go:236) would take an entry from *)
(* an empty list, or the cache would grow without bound.                   *)
(***************************************************************************)
SizeIsExact == cache.size = Total(cache) /\ Total(cache) <= cache.capacity

(***************************************************************************)
(* An entry that is dropped for want of space was used before every entry  *)
(* that stays ("the element at the tail of the list (the least recently    *)
(* used element) is evicted", lru.go:8).  Only until the first restart:    *)
(* SaveItems writes the front first and LoadItems puts each item it reads  *)
(* to the front, so that a restart reverses the order.                     *)
(***************************************************************************)
Dropped == cache.table \ cache'.table

EvictsLeastRecentlyUsed ==
    [][\/ \E k \in Keys : Delete(k)
       \/ restarts' > 0
       \/ \A k \in cache'.table, l \in Dropped : <<k, l>> \in used']_cacheVars

(***************************************************************************)
(* A save that was completed and fits into the capacity comes back whole   *)
(* when ngrokd starts (registry.go:48, LoadItems).                         *)
(***************************************************************************)
RestartRestoresTheSave ==
    [][Restart /\ file # NoValue /\ ItemsTotal(file) <= Capacity
          => ToSet(Items(cache')) = ToSet(file)]_cacheVars

(***************************************************************************)
(* The cache keeps the promise of CacheMap: it answers with the last value *)
(* set or saved, or with none.                                             *)
(***************************************************************************)
MapOf(items) ==
    [k \in Keys |->
        IF \E i \in DOMAIN items : items[i].key = k
        THEN items[CHOOSE i \in DOMAIN items : items[i].key = k].value
        ELSE NoValue]

CachePromise == INSTANCE CacheMap WITH
    None  <- NoValue,
    map   <- MapOf(cache.list),
    taken <- MapOf(saver.items),
    saved <- IF file = NoValue THEN MapOf(<<>>) ELSE MapOf(file)

KeepsCachePromise == CachePromise!Spec
=============================================================================
