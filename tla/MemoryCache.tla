----------------------------- MODULE MemoryCache -----------------------------
(***************************************************************************)
(* The memory block: one cache with a size and a time to live, shared by   *)
(* namespaces, which evicts the least recently used entry.  The entries    *)
(* (cache) and the order of their use (access_order) are two structures    *)
(* that every operation changes together.  Each operation runs on the      *)
(* event loop without yielding; the cleanup task runs between them.        *)
(***************************************************************************)
EXTENDS Integers, FiniteSets, Functions

CONSTANTS
  Namespace,  \* namespaces of the block and of its proxies
  UserKey,    \* keys within a namespace
  Value,
  Ttl,        \* times to live that clients ask for; 0 and below: for ever
  MaxSize,    \* max_size
  Missing,    \* no value
  Never,      \* the expiry float('inf')
  MaxTime     \* bound: the time that passes

ASSUME CacheSize == MaxSize \in Nat \ {0}
ASSUME CacheTtl == Ttl \subseteq Int
ASSUME CacheTime == MaxTime \in Nat
ASSUME CacheMarks == Missing \notin Value /\ Never \notin Int
ASSUME CacheFinite == IsFiniteSet(Namespace) /\ IsFiniteSet(UserKey)

VARIABLES
  cache,         \* internal key -> [value, expiry]
  access_order,  \* the ordered dict: for each key, the keys after it
  now,
  reply,         \* the last get: of which key, and its value or Missing
  usedSince      \* for each entry, the keys clients have used since it was

cacheVars == <<cache, access_order, now, reply, usedSince>>

Key == Namespace \X UserKey
Entry == [value : Value, expiry : Int \cup {Never}]

CacheTypeOK ==
  /\ DOMAIN cache \subseteq Key /\ cache \in [DOMAIN cache -> Entry]
  /\ DOMAIN access_order \subseteq Key
  /\ access_order \in [DOMAIN access_order -> SUBSET Key]
  /\ now \in Nat
  /\ reply \in [key : Key, value : Value \cup {Missing}]

CacheInit ==
  /\ cache = << >>
  /\ access_order = << >>
  /\ now = 0
  /\ reply \in [key : Key, value : {Missing}]
  /\ usedSince = << >>

InternalKey(namespace, key) == <<namespace, key>>

Without(f, keys) == [k \in DOMAIN f \ keys |-> f[k]]

(* The ordered dict: deleting keys, and putting a key at the end.          *)
Unlinked(order, keys) == [k \in DOMAIN order \ keys |-> order[k] \ keys]
AtEnd(order, key) == [k \in DOMAIN order \cup {key} |->
                        IF k = key THEN {} ELSE order[k] \cup {key}]
Oldest == CHOOSE k \in DOMAIN access_order :
            DOMAIN access_order \ {k} \subseteq access_order[k]

Expired(k) == cache[k].expiry # Never /\ now > cache[k].expiry

(* An entry that a client has set, or got, is used; one that is gone is    *)
(* not followed any further.                                               *)
Used(k) == usedSince' = [x \in DOMAIN cache' |->
                           IF x = k THEN {}
                           ELSE IF x \in DOMAIN usedSince THEN usedSince[x] \cup {k} ELSE {}]

(* Faulty: the entries go and the order keeps them.                        *)
GoneFromCache(keys) ==
  /\ cache' = Without(cache, keys)
  /\ UNCHANGED access_order
  /\ usedSince' = Without(usedSince, keys)

Gone(keys) ==
  /\ cache' = Without(cache, keys)
  /\ access_order' = Unlinked(access_order, keys)
  /\ usedSince' = Without(usedSince, keys)

----------------------------------------------------------------------------
(* _set with _evict_lru: a full cache makes room before it takes a new key.*)
Victims(k) ==
  IF Cardinality(DOMAIN cache) >= MaxSize /\ k \notin DOMAIN cache /\ access_order # << >>
    THEN {Oldest} ELSE {}

Set(namespace, key, v, ttl) ==
  LET k == InternalKey(namespace, key)
      expiry == IF ttl > 0 THEN now + ttl ELSE Never
      left == Without(cache, Victims(k))
  IN /\ cache' = [x \in DOMAIN left \cup {k} |->
                    IF x = k THEN [value |-> v, expiry |-> expiry] ELSE left[x]]
     /\ access_order' = AtEnd(Unlinked(Unlinked(access_order, Victims(k)), {k}), k)
     /\ Used(k)
     /\ UNCHANGED <<now, reply>>

Answer(k, v) == reply' = [key |-> k, value |-> v]

(* Faulty: an expired entry is answered until the cleanup removes it.      *)
GetStale(namespace, key) ==
  LET k == InternalKey(namespace, key) IN
    /\ k \in DOMAIN cache
    /\ Expired(k)
    /\ Answer(<<namespace, key>>, cache[k].value)
    /\ UNCHANGED <<cache, access_order, now, usedSince>>

GetExpired(namespace, key) ==
  LET k == InternalKey(namespace, key) IN
    /\ k \in DOMAIN cache
    /\ Expired(k)
    /\ Gone({k})
    /\ Answer(<<namespace, key>>, Missing)
    /\ UNCHANGED now

(* Faulty: a get does not count as a use.                                  *)
GetUnordered(namespace, key) ==
  LET k == InternalKey(namespace, key) IN
    /\ k \in DOMAIN cache
    /\ ~Expired(k)
    /\ Answer(<<namespace, key>>, cache[k].value)
    /\ UNCHANGED <<cache, access_order, now>>
    /\ Used(k)

GetHit(namespace, key) ==
  LET k == InternalKey(namespace, key) IN
    /\ k \in DOMAIN cache
    /\ ~Expired(k)
    /\ access_order' = AtEnd(Unlinked(access_order, {k}), k)
    /\ Answer(<<namespace, key>>, cache[k].value)
    /\ UNCHANGED <<cache, now>>
    /\ Used(k)

GetMissing(namespace, key) ==
  /\ InternalKey(namespace, key) \notin DOMAIN cache
  /\ Answer(<<namespace, key>>, Missing)
  /\ UNCHANGED <<cache, access_order, now, usedSince>>

Delete(namespace, key) ==
  /\ InternalKey(namespace, key) \in DOMAIN cache
  /\ Gone({InternalKey(namespace, key)})
  /\ UNCHANGED <<now, reply>>

Flush(namespace) ==
  /\ Gone({k \in DOMAIN cache : k[1] = namespace})
  /\ UNCHANGED <<now, reply>>

CleanUp ==
  /\ Gone({k \in DOMAIN cache : Expired(k)})
  /\ UNCHANGED <<now, reply>>

Tick ==
  /\ now < MaxTime
  /\ now' = now + 1
  /\ UNCHANGED <<cache, access_order, reply, usedSince>>

CacheNext ==
  \/ \E n \in Namespace, k \in UserKey :
       \/ \E v \in Value, t \in Ttl : Set(n, k, v, t)
       \/ GetExpired(n, k) \/ GetHit(n, k) \/ GetMissing(n, k)
       \/ Delete(n, k)
  \/ \E n \in Namespace : Flush(n)
  \/ CleanUp
  \/ Tick

CacheSpec == CacheInit /\ [][CacheNext]_cacheVars

----------------------------------------------------------------------------
(* The order of use is a total order of exactly the entries: no operation  *)
(* leaves a key in one structure that the other has lost, which the next   *)
(* eviction would trip over, and none leaves more than max_size entries.   *)
OrderTracksCache ==
  /\ DOMAIN access_order = DOMAIN cache
  /\ \A k, l \in DOMAIN cache :
       /\ access_order[k] \subseteq DOMAIN cache
       /\ k # l => (l \in access_order[k] <=> k \notin access_order[l])
       /\ k \notin access_order[k]
       /\ l \in access_order[k] => access_order[l] \subseteq access_order[k]

CacheInv == CacheTypeOK /\ OrderTracksCache /\ Cardinality(DOMAIN cache) <= MaxSize

(* An entry leaves for another one's sake only if clients have used every  *)
(* other entry since they last used it.                                    *)
EvictsLeastRecent ==
  [][\A n \in Namespace, k \in UserKey, v \in Value, t \in Ttl :
       Set(n, k, v, t) =>
         \A x \in DOMAIN cache \ DOMAIN cache' : DOMAIN cache \ {x} \subseteq usedSince[x]]_cacheVars

(* The block is a lossy map of its unexpired entries: whatever was set,    *)
(* evicted, expired, flushed or cleaned up in whichever namespace, a get   *)
(* answers what was last set under its key in its namespace, or nothing.   *)
Live == {k \in DOMAIN cache : ~Expired(k)}
Map == INSTANCE LossyMap WITH held <- [k \in Live |-> cache[k].value]
CacheIsLossyMap == Map!LossySpec

(* What one namespace sets leaves the entries of the others alone.         *)
NamespacesIsolated ==
  [][\A n \in Namespace, k \in UserKey, v \in Value, t \in Ttl :
       Set(n, k, v, t) => {x \in DOMAIN cache : x[1] # n} \subseteq DOMAIN cache']_cacheVars
=============================================================================
