--------------------------- MODULE StoresProofs ----------------------------
(***************************************************************************)
(* What TLAPS proves of the stores that instances, threads and processes   *)
(* share, for every value of the constants: the memory cache, the audit    *)
(* chain, the RAG bootstrap, the hotel notes and the two startups with     *)
(* their database schemas.                                                 *)
(***************************************************************************)
EXTENDS MemoryCache, AuditChain, RagBootstrap, HotelNotes, PlatformStartup, StewardSchema,
        FiniteSetTheorems, SequenceTheorems, TLAPS

----------------------------------------------------------------------------
(* MemoryCache: the least recently used key goes, and what stays is what   *)
(* was written, for every limit and set of keys.                           *)

(* A total order of the keys D, in which every set of them has a first.    *)
Ordered(order, D) ==
  /\ DOMAIN order = D
  /\ \A k, l \in D : /\ order[k] \subseteq D
                     /\ k # l => (l \in order[k] <=> k \notin order[l])
                     /\ k \notin order[k]
                     /\ l \in order[k] => order[l] \subseteq order[k]
  /\ \A S \in SUBSET D : S # {} => \E k \in S : S \ {k} \subseteq order[k]

(* What clients are said to have used since covers what the order says.    *)
UsedCovers == /\ DOMAIN usedSince = DOMAIN cache
              /\ \A k \in DOMAIN cache : access_order[k] \subseteq usedSince[k]
CacheIndInv ==
  /\ CacheTypeOK /\ Ordered(access_order, DOMAIN cache) /\ UsedCovers
  /\ IsFiniteSet(DOMAIN cache) /\ Cardinality(DOMAIN cache) <= MaxSize

LEMMA UnlinkedOrdered ==
  ASSUME NEW D, NEW order, Ordered(order, D), NEW keys
  PROVE  Ordered(Unlinked(order, keys), D \ keys)
<1> DEFINE new == Unlinked(order, keys)
<1>1. DOMAIN new = D \ keys /\ \A k \in D \ keys : new[k] = order[k] \ keys
  BY DEF Unlinked, Ordered
<1> HIDE DEF new
<1>2. ASSUME NEW k \in D \ keys, NEW l \in D \ keys
      PROVE  /\ new[k] \subseteq D \ keys
             /\ k # l => (l \in new[k] <=> k \notin new[l])
             /\ k \notin new[k]
             /\ l \in new[k] => new[l] \subseteq new[k]
  BY <1>1 DEF Ordered
<1>3. ASSUME NEW S \in SUBSET (D \ keys), S # {}
      PROVE  \E k \in S : S \ {k} \subseteq new[k]
  <2>1. PICK k \in S : S \ {k} \subseteq order[k]
    BY <1>3 DEF Ordered
  <2> QED BY <1>1, <2>1
<1> QED BY <1>1, <1>2, <1>3 DEF Ordered, new

LEMMA AtEndOrdered ==
  ASSUME NEW D, NEW order, Ordered(order, D), NEW key, key \notin D
  PROVE  /\ Ordered(AtEnd(order, key), D \cup {key})
         /\ AtEnd(order, key)[key] = {}
         /\ \A k \in D : AtEnd(order, key)[k] = order[k] \cup {key}
<1> DEFINE new == AtEnd(order, key)
<1>1. /\ DOMAIN new = D \cup {key} /\ new[key] = {}
      /\ \A k \in D : new[k] = order[k] \cup {key}
  BY DEF AtEnd, Ordered
<1> HIDE DEF new
<1>2. ASSUME NEW k \in D \cup {key}, NEW l \in D \cup {key}
      PROVE  /\ new[k] \subseteq D \cup {key}
             /\ k # l => (l \in new[k] <=> k \notin new[l])
             /\ k \notin new[k]
             /\ l \in new[k] => new[l] \subseteq new[k]
  <2>1. \A x \in D : x # key /\ key \notin order[x]
    BY DEF Ordered
  <2> QED BY <1>1, <2>1 DEF Ordered
<1>3. ASSUME NEW S \in SUBSET (D \cup {key}), S # {}
      PROVE  \E k \in S : S \ {k} \subseteq new[k]
  <2>1. CASE S \ {key} = {}
    BY <1>3, <2>1
  <2>2. CASE S \ {key} # {}
    <3>1. S \ {key} \in SUBSET D
      OBVIOUS
    <3>2. PICK k \in S \ {key} : (S \ {key}) \ {k} \subseteq order[k]
      BY <2>2, <3>1 DEF Ordered
    <3>3. S \ {k} \subseteq new[k]
      BY <1>1, <3>1, <3>2
    <3> QED BY <3>2, <3>3
  <2> QED BY <2>1, <2>2
<1> QED BY <1>1, <1>2, <1>3 DEF Ordered, new

LEMMA OldestIsFirst ==
  ASSUME NEW D, Ordered(access_order, D), D # {}
  PROVE  Oldest \in D /\ D \ {Oldest} \subseteq access_order[Oldest]
<1>1. \E k \in D : D \ {k} \subseteq access_order[k]
  BY DEF Ordered
<1>2. Oldest = CHOOSE k \in D : D \ {k} \subseteq access_order[k]
  BY DEF Oldest, Ordered
<1> QED BY <1>1, <1>2

LEMMA CacheInitInv == CacheInit => CacheIndInv
<1> SUFFICES ASSUME CacheInit PROVE CacheIndInv
  OBVIOUS
<1>1. DOMAIN cache = {} /\ DOMAIN access_order = {} /\ DOMAIN usedSince = {}
  BY DEF CacheInit
<1>2. CacheTypeOK
  <2>1. cache \in [{} -> Entry] /\ access_order \in [{} -> SUBSET Key]
    BY DEF CacheInit
  <2>2. now \in Nat /\ reply \in [key : Key, value : Value \cup {Missing}]
    BY DEF CacheInit
  <2> QED BY <1>1, <2>1, <2>2 DEF CacheTypeOK
<1>3. IsFiniteSet({}) /\ Cardinality({}) = 0 /\ 0 <= MaxSize
  BY FS_EmptySet, CacheSize
<1> QED BY <1>1, <1>2, <1>3 DEF CacheIndInv, Ordered, UsedCovers

(* Removing entries, whichever operation does it.                          *)
LEMMA GoneKeeps ==
  ASSUME CacheIndInv, NEW keys, Gone(keys), now' = now,
         reply' \in [key : Key, value : Value \cup {Missing}]
  PROVE  CacheIndInv'
<1> USE DEF CacheIndInv
<1>1. /\ DOMAIN cache' = DOMAIN cache \ keys /\ DOMAIN usedSince' = DOMAIN usedSince \ keys
      /\ \A k \in DOMAIN cache \ keys : cache'[k] = cache[k] /\ usedSince'[k] = usedSince[k]
  BY DEF Gone, Without, UsedCovers
<1>2. Ordered(access_order', DOMAIN cache')
  BY <1>1, UnlinkedOrdered DEF Gone
<1>3. \A k \in DOMAIN access_order' : access_order'[k] = access_order[k] \ keys
  BY DEF Gone, Unlinked
<1>4. DOMAIN access_order' = DOMAIN cache'
  BY <1>2 DEF Ordered
<1>5. CacheTypeOK'
  <2>1. cache' \in [DOMAIN cache' -> Entry]
    BY <1>1 DEF Gone, Without, CacheTypeOK
  <2>2. access_order' \in [DOMAIN access_order' -> SUBSET Key]
    BY <1>1, <1>3, <1>4 DEF Gone, Unlinked, CacheTypeOK, Ordered
  <2> QED BY <1>1, <1>4, <2>1, <2>2 DEF CacheTypeOK
<1>6. UsedCovers'
  BY <1>1, <1>3, <1>4 DEF UsedCovers
<1>7. IsFiniteSet(DOMAIN cache') /\ Cardinality(DOMAIN cache') <= Cardinality(DOMAIN cache)
  BY <1>1, FS_Subset
<1>8. /\ Cardinality(DOMAIN cache') \in Nat /\ Cardinality(DOMAIN cache) \in Nat
      /\ MaxSize \in Nat
  BY <1>7, FS_CardinalityType, CacheSize
<1> QED BY <1>2, <1>5, <1>6, <1>7, <1>8

(* A key that is used goes to the end of the order.                        *)
LEMMA MovedToEnd ==
  ASSUME NEW D, NEW order, Ordered(order, D), NEW k
  PROVE  /\ Ordered(AtEnd(Unlinked(order, {k}), k), D \cup {k})
         /\ AtEnd(Unlinked(order, {k}), k)[k] = {}
         /\ \A x \in D \ {k} : AtEnd(Unlinked(order, {k}), k)[x] = (order[x] \ {k}) \cup {k}
<1>1. Ordered(Unlinked(order, {k}), D \ {k})
  BY UnlinkedOrdered
<1>2. \A x \in D \ {k} : Unlinked(order, {k})[x] = order[x] \ {k}
  BY DEF Unlinked, Ordered
<1>3. (D \ {k}) \cup {k} = D \cup {k}
  OBVIOUS
<1>4. /\ Ordered(AtEnd(Unlinked(order, {k}), k), (D \ {k}) \cup {k})
      /\ AtEnd(Unlinked(order, {k}), k)[k] = {}
      /\ \A x \in D \ {k} : AtEnd(Unlinked(order, {k}), k)[x] = Unlinked(order, {k})[x] \cup {k}
  <2> DEFINE left == Unlinked(order, {k})
             E == D \ {k}
  <2>1. Ordered(left, E) /\ k \notin E
    BY <1>1
  <2> HIDE DEF left, E
  <2>2. Ordered(AtEnd(left, k), E \cup {k})
    BY <2>1, AtEndOrdered
  <2>3. AtEnd(left, k)[k] = {}
    BY <2>1, AtEndOrdered
  <2>4. \A x \in E : AtEnd(left, k)[x] = left[x] \cup {k}
    BY <2>1 DEF AtEnd, Ordered
  <2> QED BY <2>2, <2>3, <2>4 DEF left, E
<1> QED BY <1>2, <1>3, <1>4

LEMMA HitKeeps ==
  ASSUME CacheIndInv, NEW n \in Namespace, NEW u \in UserKey, GetHit(n, u)
  PROVE  CacheIndInv'
<1> USE DEF CacheIndInv
<1> DEFINE k == InternalKey(n, u)
<1>1. /\ k \in Key /\ k = <<n, u>> /\ k \in DOMAIN cache /\ UNCHANGED <<cache, now>>
      /\ access_order' = AtEnd(Unlinked(access_order, {k}), k)
      /\ Answer(<<n, u>>, cache[k].value) /\ Used(k)
  BY DEF GetHit, InternalKey, Key
<1> HIDE DEF k
<1>2. /\ Ordered(access_order', DOMAIN cache \cup {k}) /\ access_order'[k] = {}
      /\ \A x \in DOMAIN cache \ {k} : access_order'[x] = (access_order[x] \ {k}) \cup {k}
  BY <1>1, MovedToEnd
<1>3. DOMAIN cache \cup {k} = DOMAIN cache' /\ DOMAIN access_order' = DOMAIN cache
  <2>1. DOMAIN cache \cup {k} = DOMAIN cache
    BY <1>1
  <2>2. DOMAIN access_order' = DOMAIN cache \cup {k}
    BY <1>2 DEF Ordered
  <2> QED BY <1>1, <2>1, <2>2
<1>4. UsedCovers'
  <2>1. /\ DOMAIN usedSince' = DOMAIN cache /\ usedSince'[k] = {}
        /\ \A x \in DOMAIN cache \ {k} : usedSince'[x] = usedSince[x] \cup {k}
    BY <1>1 DEF Used, UsedCovers
  <2>2. ASSUME NEW x \in DOMAIN cache PROVE access_order'[x] \subseteq usedSince'[x]
    <3>1. CASE x = k
      BY <1>2, <3>1
    <3>2. CASE x # k
      <4>1. access_order[x] \subseteq usedSince[x]
        BY DEF UsedCovers
      <4> QED BY <1>2, <2>1, <3>2, <4>1
    <3> QED BY <3>1, <3>2
  <2> QED BY <1>1, <2>1, <2>2 DEF UsedCovers
<1>5. CacheTypeOK'
  <2>1. \A x \in DOMAIN cache : access_order'[x] \in SUBSET Key
    BY <1>1, <1>2, <1>3 DEF CacheTypeOK, Ordered
  <2>2. access_order' \in [DOMAIN cache -> SUBSET Key]
    BY <1>1, <1>3, <2>1 DEF AtEnd
  <2>3. cache[k] \in Entry
    BY <1>1 DEF CacheTypeOK
  <2>4. cache[k].value \in Value
    BY <2>3 DEF Entry
  <2>5. reply' \in [key : Key, value : Value \cup {Missing}]
    BY <1>1, <2>4 DEF Answer
  <2> QED BY <1>1, <1>3, <2>2, <2>5 DEF CacheTypeOK
<1> QED BY <1>1, <1>2, <1>3, <1>4, <1>5

(* What a set does: it may evict the first of the order, and only from a   *)
(* full cache that does not have the key.                                  *)
LEMMA SetStep ==
  ASSUME CacheIndInv, NEW n \in Namespace, NEW u \in UserKey, NEW v \in Value, NEW t \in Ttl,
         Set(n, u, v, t), NEW k, k = <<n, u>>
  PROVE  /\ k \in Key /\ Victims(k) \subseteq DOMAIN cache /\ k \notin Victims(k)
         /\ Victims(k) # {} => /\ k \notin DOMAIN cache /\ Victims(k) = {Oldest}
                               /\ DOMAIN cache \ {Oldest} \subseteq access_order[Oldest]
         /\ Victims(k) = {} => k \in DOMAIN cache \/ Cardinality(DOMAIN cache) < MaxSize
         /\ DOMAIN cache' = (DOMAIN cache \ Victims(k)) \cup {k}
         /\ cache'[k] \in Entry /\ cache'[k].value = v
         /\ cache'[k].expiry = Never \/ cache'[k].expiry > now
         /\ \A x \in DOMAIN cache' \ {k} : cache'[x] = cache[x]
<1> USE DEF CacheIndInv
<1>1. Cardinality(DOMAIN cache) \in Nat /\ MaxSize \in Nat /\ MaxSize > 0 /\ now \in Nat
  BY FS_CardinalityType, CacheSize DEF CacheTypeOK
<1>2. k \in Key /\ k = InternalKey(n, u)
  BY DEF Key, InternalKey
<1>3. DOMAIN access_order = DOMAIN cache /\ DOMAIN << >> = {}
  BY DEF Ordered
<1>4. ASSUME Victims(k) # {}
      PROVE  /\ k \notin DOMAIN cache /\ Victims(k) = {Oldest} /\ Oldest \in DOMAIN cache
             /\ DOMAIN cache \ {Oldest} \subseteq access_order[Oldest]
  <2>1. Cardinality(DOMAIN cache) >= MaxSize /\ k \notin DOMAIN cache /\ Victims(k) = {Oldest}
    BY <1>4 DEF Victims
  <2>2. DOMAIN cache # {}
    BY <1>1, <2>1, FS_EmptySet
  <2> QED BY <2>1, <2>2, OldestIsFirst
<1>5. ASSUME Victims(k) = {}
      PROVE  k \in DOMAIN cache \/ Cardinality(DOMAIN cache) < MaxSize
  <2> SUFFICES ASSUME k \notin DOMAIN cache, ~(Cardinality(DOMAIN cache) < MaxSize)
               PROVE  FALSE
    OBVIOUS
  <2>1. DOMAIN cache # {}
    BY <1>1, FS_EmptySet
  <2>2. access_order # << >>
    BY <1>3, <2>1
  <2> QED BY <1>1, <1>5, <2>2 DEF Victims
<1> DEFINE expiry == IF t > 0 THEN now + t ELSE Never
<1>6. t \in Int /\ (expiry = Never \/ (expiry \in Int /\ expiry > now))
  BY <1>1, CacheTtl
<1>7. /\ DOMAIN cache' = (DOMAIN cache \ Victims(k)) \cup {k}
      /\ cache'[k] = [value |-> v, expiry |-> expiry]
      /\ \A x \in DOMAIN cache' \ {k} : cache'[x] = cache[x]
  BY <1>2 DEF Set, Without
<1> HIDE DEF expiry
<1>8. /\ cache'[k] \in Entry /\ cache'[k].value = v
      /\ cache'[k].expiry = Never \/ cache'[k].expiry > now
  BY <1>6, <1>7 DEF Entry
<1> QED BY <1>2, <1>4, <1>5, <1>7, <1>8

LEMMA SetKeeps ==
  ASSUME CacheIndInv, NEW n \in Namespace, NEW u \in UserKey, NEW v \in Value, NEW t \in Ttl,
         Set(n, u, v, t)
  PROVE  CacheIndInv'
<1> USE DEF CacheIndInv
<1> DEFINE k == <<n, u>>
           D == DOMAIN cache \ Victims(k)
<1>1. /\ k \in Key /\ Victims(k) \subseteq DOMAIN cache /\ k \notin Victims(k)
      /\ Victims(k) # {} => k \notin DOMAIN cache /\ Victims(k) = {Oldest}
      /\ Victims(k) = {} => k \in DOMAIN cache \/ Cardinality(DOMAIN cache) < MaxSize
      /\ DOMAIN cache' = D \cup {k} /\ cache'[k] \in Entry
      /\ \A x \in DOMAIN cache' \ {k} : cache'[x] = cache[x]
  BY SetStep
<1>2. /\ access_order' = AtEnd(Unlinked(Unlinked(access_order, Victims(k)), {k}), k)
      /\ Used(k) /\ UNCHANGED <<now, reply>>
  BY DEF Set, InternalKey
<1> HIDE DEF k
<1>3. /\ Ordered(Unlinked(access_order, Victims(k)), D)
      /\ \A x \in D : Unlinked(access_order, Victims(k))[x] = access_order[x] \ Victims(k)
  BY UnlinkedOrdered DEF Unlinked, Ordered
<1> HIDE DEF D
<1>4. /\ Ordered(access_order', D \cup {k}) /\ access_order'[k] = {}
      /\ \A x \in D \ {k} :
           access_order'[x] = (Unlinked(access_order, Victims(k))[x] \ {k}) \cup {k}
  BY <1>2, <1>3, MovedToEnd
<1>5. \A x \in D \ {k} : access_order'[x] \subseteq access_order[x] \cup {k}
  BY <1>3, <1>4
<1>6. /\ DOMAIN access_order' = DOMAIN cache' /\ D \subseteq DOMAIN cache
      /\ DOMAIN cache' \subseteq Key
  BY <1>1, <1>4 DEF Ordered, D, CacheTypeOK
<1>7. UsedCovers'
  BY <1>1, <1>2, <1>4, <1>5, <1>6 DEF Used, UsedCovers
<1>8. CacheTypeOK'
  <2>1. \A x \in DOMAIN cache' : access_order'[x] \in SUBSET Key /\ cache'[x] \in Entry
    BY <1>1, <1>4, <1>6 DEF CacheTypeOK, Ordered
  <2>2. access_order' \in [DOMAIN access_order' -> SUBSET Key]
    BY <1>2, <1>6, <2>1 DEF AtEnd
  <2>3. cache' \in [DOMAIN cache' -> Entry]
    BY <2>1 DEF Set
  <2> QED BY <1>2, <1>6, <2>2, <2>3 DEF CacheTypeOK
<1>9. IsFiniteSet(DOMAIN cache') /\ Cardinality(DOMAIN cache') <= MaxSize
  <2>1. Cardinality(DOMAIN cache) \in Nat /\ MaxSize \in Nat
    BY FS_CardinalityType, CacheSize
  <2>2. CASE k \in DOMAIN cache
    <3>1. DOMAIN cache' = DOMAIN cache
      BY <1>1, <2>2 DEF D
    <3> QED BY <3>1
  <2>3. CASE k \notin DOMAIN cache /\ Victims(k) = {}
    <3>1. DOMAIN cache' = DOMAIN cache \cup {k}
      BY <1>1, <2>3 DEF D
    <3>2. /\ IsFiniteSet(DOMAIN cache \cup {k})
          /\ Cardinality(DOMAIN cache \cup {k}) = Cardinality(DOMAIN cache) + 1
      BY <2>3, FS_AddElement
    <3> QED BY <1>1, <2>1, <2>3, <3>1, <3>2
  <2>4. CASE Victims(k) # {}
    <3>1. /\ D = DOMAIN cache \ {Oldest} /\ Oldest \in DOMAIN cache /\ k \notin DOMAIN cache
          /\ k \notin D
      BY <1>1, <2>4 DEF D
    <3>2. IsFiniteSet(D) /\ Cardinality(D) = Cardinality(DOMAIN cache) - 1
      BY <3>1, FS_RemoveElement
    <3>3. IsFiniteSet(D \cup {k}) /\ Cardinality(D \cup {k}) = Cardinality(D) + 1
      BY <3>1, <3>2, FS_AddElement
    <3> QED BY <1>1, <2>1, <3>2, <3>3
  <2> QED BY <2>2, <2>3, <2>4
<1> QED BY <1>1, <1>4, <1>7, <1>8, <1>9

LEMMA CacheStepInv == CacheIndInv /\ [CacheNext]_cacheVars => CacheIndInv'
<1> SUFFICES ASSUME CacheIndInv, [CacheNext]_cacheVars PROVE CacheIndInv'
  OBVIOUS
<1>1. ASSUME NEW n \in Namespace, NEW k \in UserKey, GetExpired(n, k) PROVE CacheIndInv'
  <2>1. reply' \in [key : Key, value : Value \cup {Missing}] /\ now' = now
    BY <1>1 DEF GetExpired, Answer, Key
  <2> QED BY <1>1, <2>1, GoneKeeps DEF GetExpired
<1>2. ASSUME NEW n \in Namespace, NEW k \in UserKey, GetMissing(n, k) PROVE CacheIndInv'
  <2>1. reply' \in [key : Key, value : Value \cup {Missing}]
    BY <1>2 DEF GetMissing, Answer, Key
  <2> QED BY <1>2, <2>1 DEF GetMissing, CacheIndInv, CacheTypeOK, UsedCovers, Ordered
<1>3. ASSUME NEW keys, Gone(keys), UNCHANGED <<now, reply>> PROVE CacheIndInv'
  <2>1. reply' \in [key : Key, value : Value \cup {Missing}]
    BY <1>3 DEF CacheIndInv, CacheTypeOK
  <2> QED BY <1>3, <2>1, GoneKeeps
<1>4. CASE (\E n \in Namespace, k \in UserKey : Delete(n, k)) \/ (\E n \in Namespace : Flush(n)) \/ CleanUp
  BY <1>3, <1>4 DEF Delete, Flush, CleanUp
<1>5. CASE Tick \/ UNCHANGED cacheVars
  <2>1. now' \in Nat /\ UNCHANGED <<cache, access_order, reply, usedSince>>
    BY <1>5 DEF Tick, cacheVars, CacheIndInv, CacheTypeOK
  <2> QED BY <2>1 DEF CacheIndInv, CacheTypeOK, UsedCovers, Ordered
<1> QED BY <1>1, <1>2, <1>4, <1>5, SetKeeps, HitKeeps DEF CacheNext

LEMMA CacheInvariant == CacheSpec => []CacheIndInv
BY CacheInitInv, CacheStepInv, PTL DEF CacheSpec

(* For every size, every set of namespaces and keys and every sequence of  *)
(* operations, the order of use is a total order of exactly the entries,   *)
(* and there are never more than max_size of them.                         *)
THEOREM CacheCorrect == CacheSpec => []CacheInv
<1>1. CacheIndInv => CacheInv
  BY DEF CacheIndInv, CacheInv, Ordered, OrderTracksCache
<1> QED BY <1>1, CacheInvariant, PTL

(* A set evicts an entry only if every other entry was used since.         *)
THEOREM CacheEvictsLeastRecent == CacheSpec => EvictsLeastRecent
<1>1. ASSUME CacheIndInv, NEW n \in Namespace, NEW u \in UserKey, NEW v \in Value, NEW t \in Ttl,
             Set(n, u, v, t), NEW x \in DOMAIN cache \ DOMAIN cache'
      PROVE  DOMAIN cache \ {x} \subseteq usedSince[x]
  <2> DEFINE k == <<n, u>>
  <2>1. /\ DOMAIN cache' = (DOMAIN cache \ Victims(k)) \cup {k}
        /\ Victims(k) # {} => /\ Victims(k) = {Oldest}
                              /\ DOMAIN cache \ {Oldest} \subseteq access_order[Oldest]
    BY <1>1, SetStep
  <2>2. x \in Victims(k)
    BY <2>1
  <2> QED BY <1>1, <2>1, <2>2 DEF CacheIndInv, UsedCovers
<1>2. CacheIndInv /\ [CacheNext]_cacheVars =>
        [\A n \in Namespace, k \in UserKey, v \in Value, t \in Ttl :
           Set(n, k, v, t) =>
             \A x \in DOMAIN cache \ DOMAIN cache' :
               DOMAIN cache \ {x} \subseteq usedSince[x]]_cacheVars
  BY <1>1
<1> QED BY <1>2, CacheInvariant, PTL DEF CacheSpec, EvictsLeastRecent

----------------------------------------------------------------------------
(* The refinement: what is live is what the lossy map holds.               *)
Held == [k \in Live |-> cache[k].value]

LEMMA LossyInitStep == CacheInit => Map!LossyInit
<1> SUFFICES ASSUME CacheInit PROVE Map!LossyInit
  OBVIOUS
<1>1. DOMAIN cache = {}
  BY DEF CacheInit
<1>2. Live = {}
  BY <1>1 DEF Live
<1>3. [k \in Live |-> cache[k].value] = << >>
  BY <1>2
<1> QED BY <1>3 DEF CacheInit, Map!LossyInit

(* Entries that go, by whatever operation, and time that passes.           *)
LEMMA ForgetStep ==
  ASSUME Live' \subseteq Live, \A k \in Live' : cache'[k] = cache[k], reply' = reply
  PROVE  Map!Forget
<1>1. DOMAIN Held = Live
  BY DEF Held
<1>2. Held' = [k \in Live' |-> Held[k]]
  BY DEF Held
<1>3. Held' = Restrict(Held, Live')
  BY <1>2 DEF Restrict
<1>4. \E kept \in SUBSET DOMAIN Held : Held' = Restrict(Held, kept)
  BY <1>1, <1>3
<1> QED BY <1>4 DEF Map!Forget, Held, Restrict, Map!Restrict

LEMMA ReadStep ==
  ASSUME NEW k \in Key, Held' = Held,
         reply' = [key |-> k, value |-> IF k \in Live THEN cache[k].value ELSE Missing]
  PROVE  Map!LossyNext
<1>1. DOMAIN Held = Live /\ (k \in Live => Held[k] = cache[k].value)
  BY DEF Held
<1>2. Map!Read(k)
  BY <1>1 DEF Map!Read, Held
<1> QED BY <1>2 DEF Map!LossyNext

LEMMA LossyStep == CacheIndInv /\ [CacheNext]_cacheVars => [Map!LossyNext]_Map!mapVars
<1> SUFFICES ASSUME CacheIndInv, [CacheNext]_cacheVars
             PROVE  Map!LossyNext \/ UNCHANGED <<Held, reply>>
  BY DEF Map!mapVars, Held
<1>1. \A k \in DOMAIN cache : cache[k].expiry = Never \/ cache[k].expiry \in Int
  BY DEF CacheIndInv, CacheTypeOK, Entry
<1>2. ASSUME NEW n \in Namespace, NEW u \in UserKey, NEW v \in Value, NEW t \in Ttl,
             Set(n, u, v, t)
      PROVE  Map!LossyNext
  <2> DEFINE k == <<n, u>>
             lost == Victims(k) \cap Live
  <2>1. /\ k \in Key /\ Victims(k) \subseteq DOMAIN cache /\ k \notin Victims(k)
        /\ Victims(k) # {} => k \notin DOMAIN cache /\ Victims(k) = {Oldest}
        /\ DOMAIN cache' = (DOMAIN cache \ Victims(k)) \cup {k} /\ cache'[k].value = v
        /\ cache'[k].expiry = Never \/ cache'[k].expiry > now
        /\ \A x \in DOMAIN cache' \ {k} : cache'[x] = cache[x]
        /\ cache'[k] \in Entry
    BY <1>2, SetStep
  <2>2. now' = now /\ reply' = reply /\ now \in Nat
    BY <1>2 DEF Set, CacheIndInv, CacheTypeOK
  <2> HIDE DEF k
  <2>3. Live' = (Live \ lost) \cup {k}
    <3>1. k \in Live'
      <4>1. cache'[k].expiry = Never \/ cache'[k].expiry \in Int
        BY <2>1 DEF Entry
      <4>2. ~(cache'[k].expiry # Never /\ now > cache'[k].expiry)
        BY <2>1, <2>2, <4>1
      <4> QED BY <2>1, <2>2, <4>2 DEF Live, Expired
    <3>2. ASSUME NEW x, x # k PROVE x \in Live' <=> x \in Live \ lost
      BY <2>1, <2>2, <3>2 DEF Live, Expired
    <3> QED BY <3>1, <3>2
  <2>4. DOMAIN Held = Live /\ lost \in SUBSET (DOMAIN Held \ {k})
    BY <2>1 DEF Held
  <2>5. lost # {} => k \notin DOMAIN Held /\ Cardinality(lost) = 1
    <3>1. lost # {} => k \notin Live /\ lost = {Oldest}
      BY <2>1 DEF Live
    <3> QED BY <2>4, <3>1, FS_Singleton
  <2>6. Held' = [x \in (DOMAIN Held \ lost) \cup {k} |-> IF x = k THEN v ELSE Held[x]]
    <3>1. \A x \in (Live \ lost) \cup {k} :
            cache'[x].value = IF x = k THEN v ELSE Held[x]
      BY <2>1 DEF Held, Live
    <3>2. Held' = [x \in Live' |-> cache'[x].value]
      BY DEF Held
    <3> QED BY <2>3, <2>4, <3>1, <3>2
  <2> HIDE DEF lost
  <2>7. Map!Cardinality(lost) = Cardinality(lost)
    BY DEF Map!Cardinality, Cardinality
  <2>8. Map!Write(k, v)
    BY <2>2, <2>4, <2>5, <2>6, <2>7 DEF Map!Write, Held
  <2> QED BY <2>1, <2>8 DEF Map!LossyNext
<1>3. ASSUME NEW keys, Gone(keys), now' = now
      PROVE  Live' = Live \ keys /\ \A k \in Live' : cache'[k] = cache[k]
  BY <1>3 DEF Gone, Without, Live, Expired
<1>4. ASSUME NEW n \in Namespace, NEW u \in UserKey, GetExpired(n, u)
      PROVE  Map!LossyNext
  <2> DEFINE k == <<n, u>>
  <2>1. /\ k \in Key /\ Expired(k) /\ Gone({k}) /\ now' = now
        /\ reply' = [key |-> k, value |-> Missing]
    BY <1>4 DEF GetExpired, InternalKey, Answer, Key
  <2> HIDE DEF k
  <2>2. k \notin Live
    BY <2>1 DEF Live
  <2>3. Live' = Live /\ \A x \in Live : cache'[x] = cache[x]
    BY <1>3, <2>1, <2>2
  <2>4. Held' = Held
    BY <2>3 DEF Held
  <2> QED BY <2>1, <2>2, <2>4, ReadStep
<1>5. ASSUME NEW n \in Namespace, NEW u \in UserKey, GetHit(n, u) \/ GetMissing(n, u)
      PROVE  Map!LossyNext
  <2> DEFINE k == <<n, u>>
  <2>1. /\ k \in Key /\ UNCHANGED <<cache, now>>
        /\ reply' = [key |-> k, value |-> IF k \in Live THEN cache[k].value ELSE Missing]
    BY <1>5 DEF GetHit, GetMissing, InternalKey, Answer, Key, Live
  <2> HIDE DEF k
  <2>2. Held' = Held
    BY <2>1 DEF Held, Live, Expired
  <2> QED BY <2>1, <2>2, ReadStep
<1>6. ASSUME NEW keys, Gone(keys), UNCHANGED <<now, reply>>
      PROVE  Map!LossyNext
  <2>1. Live' \subseteq Live /\ \A k \in Live' : cache'[k] = cache[k]
    BY <1>3, <1>6
  <2> QED BY <1>6, <2>1, ForgetStep DEF Map!LossyNext
<1>7. CASE (\E n \in Namespace, k \in UserKey : Delete(n, k)) \/ (\E n \in Namespace : Flush(n)) \/ CleanUp
  BY <1>6, <1>7 DEF Delete, Flush, CleanUp
<1>8. CASE Tick
  <2>1. /\ now' = now + 1 /\ UNCHANGED <<cache, reply>> /\ now \in Nat
    BY <1>8 DEF Tick, CacheIndInv, CacheTypeOK
  <2>2. Live' \subseteq Live
    BY <1>1, <2>1 DEF Live, Expired
  <2> QED BY <2>1, <2>2, ForgetStep DEF Map!LossyNext
<1>9. CASE UNCHANGED cacheVars
  BY <1>9 DEF cacheVars, Held, Live, Expired
<1> QED BY <1>2, <1>4, <1>5, <1>7, <1>8, <1>9 DEF CacheNext

(* Whatever is set, evicted, expired, flushed or cleaned up, the block is  *)
(* a lossy map of its unexpired entries: it may forget and never lies.     *)
THEOREM CacheRefinesLossyMap == CacheSpec => CacheIsLossyMap
BY LossyInitStep, LossyStep, CacheInvariant, PTL DEF CacheSpec, CacheIsLossyMap, Map!LossySpec

----------------------------------------------------------------------------
(* AuditChain: for every number of instances and events.                   *)

(* A row is that of its event and is inserted once; a call that is being   *)
(* served belongs to an instance that is up.                               *)
Serving(e) == at[e] \in {"storing", "stored"}
RowsAreOwn ==
  /\ \A e \in Event : row[e].event = e
  /\ \A r \in audit_log : r = row[r.event] /\ at[r.event] \notin {"unsent", "storing"}
StoredIsThere ==
  database = "contract" => \A e \in Event : at[e] \in {"stored", "logged"} => row[e] \in audit_log
NumbersUnique == \A r, s \in audit_log : r.sequence = s.sequence => r = s
ServedByUp == \A e \in Event : Serving(e) => by[e] \in up

(* What "overlapped" is short for; and where the head of the chain is      *)
(* between taking the number and moving the head.                          *)
OneAtATime ==
  ~overlapped => /\ \A i, j \in up : i = j
                 /\ \A e, f \in Event : Serving(e) /\ Serving(f) => e = f
HeadWhileServing ==
  database = "contract" /\ ~overlapped => \A e \in Event :
    /\ at[e] = "storing" =>
         /\ \A r \in audit_log : r.sequence < row[e].sequence
         /\ row[e].sequence = event_count[by[e]] /\ row[e].previous_hash = last_hash[by[e]]
         /\ audit_log = {} => last_hash[by[e]] = Genesis
         /\ \A r \in audit_log : IsLast(r) => last_hash[by[e]] = r.event
    /\ at[e] = "stored" =>
         /\ \A r \in audit_log : r.sequence <= row[e].sequence
         /\ row[e].sequence = event_count[by[e]]

RowsSound == RowsAreOwn /\ StoredIsThere /\ NumbersUnique /\ (database # "contract" => audit_log = {})
CallsSound == ServedByUp /\ OneAtATime /\ HeadWhileServing
AuditIndInv == AuditTypeOK /\ RowsSound /\ CallsSound /\ VerifyIntact /\ HeadIsLast

LEMMA AuditInitInv == AuditInit => AuditIndInv
<1> SUFFICES ASSUME AuditInit PROVE AuditIndInv
  OBVIOUS
<1>1. AuditTypeOK
  BY DEF AuditInit, AuditTypeOK, Hash, Row
<1>2. RowsSound
  BY DEF AuditInit, RowsSound, RowsAreOwn, StoredIsThere, NumbersUnique
<1>3. CallsSound
  BY DEF AuditInit, CallsSound, ServedByUp, Serving, OneAtATime, HeadWhileServing
<1>4. VerifyIntact /\ HeadIsLast
  BY DEF AuditInit, VerifyIntact, HeadIsLast
<1> QED BY <1>1, <1>2, <1>3, <1>4 DEF AuditIndInv

LEMMA InitializeKeeps ==
  ASSUME AuditIndInv, NEW i \in Instance, Initialize(i)
  PROVE  AuditIndInv'
<1> USE DEF AuditIndInv
<1>1. /\ up' = up \cup {i} /\ i \notin up /\ overlapped' = (overlapped \/ up # {})
      /\ UNCHANGED <<database, audit_log, at, by, row>>
  BY DEF Initialize
<1>2. PICK n \in Nat, h \in Hash :
        /\ event_count' = [event_count EXCEPT ![i] = n]
        /\ last_hash' = [last_hash EXCEPT ![i] = h]
        /\ database = "contract" => /\ \A r \in audit_log : r.sequence <= n
                                    /\ audit_log = {} => h = Genesis
                                    /\ \A r \in audit_log : IsLast(r) => h = r.event
  <2>1. CASE audit_log = {} \/ database # "contract"
    <3>1. CASE event_count' = [event_count EXCEPT ![i] = 0] /\ last_hash' = [last_hash EXCEPT ![i] = Genesis]
      BY <2>1, <3>1 DEF Hash
    <3>2. CASE \E r \in audit_log : database = "contract"
      BY <2>1, <3>2
    <3> QED BY <3>1, <3>2 DEF Initialize
  <2>2. CASE ~(audit_log = {} \/ database # "contract")
    <3>1. PICK r \in audit_log : /\ IsLast(r)
                                 /\ event_count' = [event_count EXCEPT ![i] = r.sequence]
                                 /\ last_hash' = [last_hash EXCEPT ![i] = r.event]
      BY <2>2 DEF Initialize
    <3>2. r \in Row
      BY DEF AuditTypeOK
    <3>3. r.sequence \in Nat /\ r.event \in Hash
      BY <3>2 DEF Row, Hash
    <3>4. \A s \in audit_log : s.sequence \in Nat
      BY DEF AuditTypeOK, Row
    <3>5. ASSUME NEW s \in audit_log, IsLast(s) PROVE s.event = r.event
      <4>1. s.sequence = r.sequence
        BY <3>1, <3>3, <3>4, <3>5 DEF IsLast
      <4> QED BY <4>1 DEF RowsSound, NumbersUnique
    <3> QED BY <2>2, <3>1, <3>3, <3>5 DEF IsLast
  <2> QED BY <2>1, <2>2
<1>3. AuditTypeOK'
  BY <1>1, <1>2 DEF AuditTypeOK
<1>4. RowsSound'
  BY <1>1 DEF RowsSound, RowsAreOwn, StoredIsThere, NumbersUnique
<1>5. \A e \in Event : Serving(e) <=> Serving(e)'
  BY <1>1 DEF Serving
<1>6. ServedByUp'
  BY <1>1, <1>5 DEF CallsSound, ServedByUp
<1>7. ~overlapped' => ~overlapped /\ up = {} /\ \A e \in Event : ~Serving(e)
  BY <1>1, <1>5 DEF CallsSound, ServedByUp
<1>8. OneAtATime'
  BY <1>1, <1>5, <1>7 DEF OneAtATime
<1>9. HeadWhileServing'
  BY <1>1, <1>7 DEF HeadWhileServing, Serving
<1>10. VerifyIntact'
  BY <1>1, <1>7 DEF VerifyIntact, Adjacent
<1>11. HeadIsLast'
  <2> SUFFICES ASSUME database = "contract", ~overlapped'
               PROVE  \A j \in up' :
                        /\ \A r \in audit_log : r.sequence <= event_count'[j]
                        /\ audit_log = {} => last_hash'[j] = Genesis
                        /\ \A r \in audit_log : IsLast(r) => last_hash'[j] = r.event
    BY <1>1 DEF HeadIsLast, IsLast
  <2>1. event_count'[i] = n /\ last_hash'[i] = h /\ up' = {i}
    BY <1>1, <1>2, <1>7 DEF AuditTypeOK
  <2> QED BY <1>2, <2>1
<1> QED BY <1>3, <1>4, <1>6, <1>8, <1>9, <1>10, <1>11 DEF CallsSound

LEMMA BeginAuditKeeps ==
  ASSUME AuditIndInv, NEW e \in Event, NEW i \in Instance, Begin(e, i)
  PROVE  AuditIndInv'
<1> USE DEF AuditIndInv
<1> DEFINE x == [event |-> e, sequence |-> event_count[i] + 1, previous_hash |-> last_hash[i]]
<1>1. /\ i \in up /\ at[e] = "unsent" /\ overlapped' = (overlapped \/ Busy(i))
      /\ event_count' = [event_count EXCEPT ![i] = @ + 1] /\ row' = [row EXCEPT ![e] = x]
      /\ by' = [by EXCEPT ![e] = i] /\ at' = [at EXCEPT ![e] = "storing"]
      /\ UNCHANGED <<database, audit_log, up, last_hash>>
  BY DEF Begin
<1>2. event_count[i] \in Nat /\ last_hash[i] \in Hash
  BY DEF AuditTypeOK
<1>3. x \in Row /\ x.event = e /\ x.sequence = event_count[i] + 1 /\ x.previous_hash = last_hash[i]
  BY <1>2 DEF Row
<1> HIDE DEF x
<1>4. /\ row'[e] = x /\ by'[e] = i /\ at'[e] = "storing" /\ event_count'[i] = event_count[i] + 1
      /\ \A f \in Event \ {e} : row'[f] = row[f] /\ by'[f] = by[f] /\ at'[f] = at[f]
  BY <1>1 DEF AuditTypeOK
<1>5. AuditTypeOK'
  <2>1. event_count[i] + 1 \in Nat
    BY <1>2
  <2> QED BY <1>1, <1>3, <2>1 DEF AuditTypeOK
<1>6. \A r \in audit_log : r \in Row /\ r.event \in Event /\ r.event # e /\ r.sequence \in Nat
  BY <1>1 DEF RowsSound, RowsAreOwn, AuditTypeOK, Row
<1>7. RowsSound'
  <2>1. RowsAreOwn'
    BY <1>1, <1>3, <1>4, <1>6 DEF RowsSound, RowsAreOwn
  <2>2. StoredIsThere'
    BY <1>1, <1>4 DEF RowsSound, StoredIsThere
  <2> QED BY <1>1, <2>1, <2>2 DEF RowsSound, NumbersUnique
<1>8. ServedByUp'
  BY <1>1, <1>4 DEF CallsSound, ServedByUp, Serving
<1>9. ~overlapped' => ~overlapped /\ \A f \in Event : ~Serving(f)
  BY <1>1 DEF CallsSound, ServedByUp, OneAtATime, Busy, Serving
<1>10. OneAtATime'
  BY <1>1, <1>4, <1>9 DEF CallsSound, OneAtATime, Serving
<1>11. HeadWhileServing'
  <2> SUFFICES ASSUME database = "contract", ~overlapped', NEW f \in Event
               PROVE  HeadWhileServing!2!(f)'
    BY <1>1 DEF HeadWhileServing
  <2>1. /\ \A r \in audit_log : r.sequence <= event_count[i]
        /\ audit_log = {} => last_hash[i] = Genesis
        /\ \A r \in audit_log : IsLast(r) => last_hash[i] = r.event
    BY <1>1, <1>9 DEF HeadIsLast, Busy, Serving
  <2>2. CASE f = e
    <3>1. \A r \in audit_log : r.sequence < event_count[i] + 1
      BY <1>2, <1>6, <2>1
    <3> QED BY <1>1, <1>3, <1>4, <2>1, <2>2, <3>1 DEF IsLast
  <2>3. CASE f # e
    BY <1>4, <1>9, <2>3 DEF Serving
  <2> QED BY <2>2, <2>3
<1>12. VerifyIntact'
  BY <1>1, <1>9 DEF VerifyIntact, Adjacent
<1>13. HeadIsLast'
  <2> SUFFICES ASSUME ~overlapped', NEW j \in up PROVE Busy(j)'
    BY <1>1 DEF HeadIsLast
  <2>1. j = i
    BY <1>1, <1>9 DEF CallsSound, OneAtATime
  <2> QED BY <1>4, <2>1 DEF Busy
<1> QED BY <1>5, <1>7, <1>8, <1>10, <1>11, <1>12, <1>13 DEF CallsSound

(* The insert is where the chain grows.                                    *)
LEMMA InsertKeeps ==
  ASSUME AuditIndInv, NEW e \in Event, Insert(e)
  PROVE  AuditIndInv'
<1> USE DEF AuditIndInv
<1> DEFINE x == row[e]
<1>1. /\ at[e] = "storing" /\ at' = [at EXCEPT ![e] = "stored"]
      /\ database = "contract" => ~Taken(x.sequence) /\ audit_log' = audit_log \cup {x}
      /\ database # "contract" => audit_log' = {} /\ audit_log = {}
      /\ UNCHANGED <<database, up, event_count, last_hash, by, row, overlapped>>
  BY DEF Insert, RowsSound
<1>2. x \in Row /\ x.event = e /\ x.sequence \in Nat
  BY DEF RowsSound, RowsAreOwn, AuditTypeOK, Row
<1>3. at'[e] = "stored" /\ \A f \in Event \ {e} : at'[f] = at[f]
  BY <1>1 DEF AuditTypeOK
<1> HIDE DEF x
<1>4. AuditTypeOK'
  BY <1>1, <1>2 DEF AuditTypeOK
<1>5. \A r \in audit_log : /\ r \in Row /\ r.event \in Event /\ r.event # e /\ r.sequence \in Nat
                           /\ database = "contract" => r.sequence # x.sequence
  BY <1>1 DEF RowsSound, RowsAreOwn, AuditTypeOK, Row, Taken
<1>6. RowsSound'
  <2>1. RowsAreOwn'
    BY <1>1, <1>2, <1>3, <1>5 DEF RowsSound, RowsAreOwn, x
  <2>2. StoredIsThere'
    BY <1>1, <1>3 DEF RowsSound, StoredIsThere, x
  <2>3. NumbersUnique'
    BY <1>1, <1>5 DEF RowsSound, NumbersUnique
  <2> QED BY <1>1, <2>1, <2>2, <2>3 DEF RowsSound
<1>7. \A f \in Event : Serving(f)' <=> Serving(f)
  BY <1>1, <1>3 DEF Serving
<1>8. ServedByUp' /\ OneAtATime'
  BY <1>1, <1>7 DEF CallsSound, ServedByUp, OneAtATime
<1>9. ~overlapped => \A f \in Event : Serving(f) => f = e
  BY <1>1 DEF CallsSound, OneAtATime, Serving
<1>10. database = "contract" /\ ~overlapped =>
         /\ \A r \in audit_log : r.sequence < x.sequence
         /\ x.sequence = event_count[by[e]] /\ x.previous_hash = last_hash[by[e]]
         /\ \A r \in audit_log : IsLast(r) => last_hash[by[e]] = r.event
  BY <1>1 DEF CallsSound, HeadWhileServing, x
<1>11. HeadWhileServing'
  <2> SUFFICES ASSUME database = "contract", ~overlapped, NEW f \in Event
               PROVE  HeadWhileServing!2!(f)'
    BY <1>1 DEF HeadWhileServing
  <2>1. CASE f = e
    BY <1>1, <1>2, <1>3, <1>5, <1>10, <2>1 DEF x
  <2>2. CASE f # e
    BY <1>3, <1>9, <2>2 DEF Serving
  <2> QED BY <2>1, <2>2
<1>12. VerifyIntact'
  <2> SUFFICES ASSUME ~overlapped, database = "contract",
                      NEW r \in audit_log', NEW s \in audit_log', Adjacent(r, s)'
               PROVE  s.previous_hash = r.event
    BY <1>1 DEF VerifyIntact
  <2>1. /\ r.sequence < s.sequence
        /\ ~ \E y \in audit_log' : r.sequence < y.sequence /\ y.sequence < s.sequence
    BY DEF Adjacent
  <2>2. r # x
    BY <1>1, <1>2, <1>5, <1>10, <2>1
  <2>3. r \in audit_log
    BY <1>1, <2>2
  <2>4. CASE s = x
    <3>1. ASSUME NEW y \in audit_log PROVE y.sequence <= r.sequence
      BY <1>1, <1>2, <1>5, <1>10, <2>1, <2>3, <2>4
    <3>2. IsLast(r)
      BY <2>3, <3>1 DEF IsLast
    <3> QED BY <1>10, <2>3, <2>4, <3>2
  <2>5. CASE s # x
    <3>1. s \in audit_log
      BY <1>1, <2>5
    <3>2. Adjacent(r, s)
      BY <1>1, <2>1 DEF Adjacent
    <3> QED BY <2>3, <3>1, <3>2 DEF VerifyIntact
  <2> QED BY <2>4, <2>5
<1>13. HeadIsLast'
  <2> SUFFICES ASSUME database = "contract", ~overlapped, NEW i \in up PROVE Busy(i)'
    BY <1>1 DEF HeadIsLast
  <2>1. i = by[e]
    BY <1>1 DEF CallsSound, OneAtATime, ServedByUp, Serving
  <2> QED BY <1>1, <1>3, <2>1 DEF Busy
<1> QED BY <1>4, <1>6, <1>8, <1>11, <1>12, <1>13 DEF CallsSound

(* A call that is answered leaves the head where its instance put it.      *)
LEMMA AnswerKeeps ==
  ASSUME AuditIndInv, NEW e \in Event, InsertFails(e) \/ Confirm(e)
  PROVE  AuditIndInv'
<1> USE DEF AuditIndInv
<1>1. PICK to \in {"error", "logged"} :
        /\ at' = [at EXCEPT ![e] = to]
        /\ to = "logged" => at[e] = "stored" /\ last_hash' = [last_hash EXCEPT ![by[e]] = e]
        /\ to = "error" => at[e] = "storing" /\ last_hash' = last_hash
        /\ UNCHANGED <<database, audit_log, up, event_count, by, row, overlapped>>
  BY DEF InsertFails, Confirm
<1>2. at'[e] = to /\ \A f \in Event \ {e} : at'[f] = at[f]
  BY <1>1 DEF AuditTypeOK
<1>3. by[e] \in Instance /\ e \in Hash /\ Serving(e)
  BY <1>1 DEF AuditTypeOK, Hash, Serving
<1>4. AuditTypeOK'
  BY <1>1, <1>3 DEF AuditTypeOK
<1>5. \A r \in audit_log : r.event \in Event /\ r.sequence \in Nat
  BY DEF AuditTypeOK, Row
<1>6. RowsSound'
  <2>1. RowsAreOwn'
    BY <1>1, <1>2, <1>5 DEF RowsSound, RowsAreOwn
  <2>2. StoredIsThere'
    BY <1>1, <1>2 DEF RowsSound, StoredIsThere
  <2> QED BY <1>1, <2>1, <2>2 DEF RowsSound, NumbersUnique
<1>7. \A f \in Event : Serving(f)' <=> Serving(f) /\ f # e
  BY <1>1, <1>2 DEF Serving
<1>8. ServedByUp' /\ OneAtATime'
  BY <1>1, <1>7 DEF CallsSound, ServedByUp, OneAtATime
<1>9. ~overlapped => \A f \in Event : ~Serving(f)'
  BY <1>3, <1>7 DEF CallsSound, OneAtATime
<1>10. HeadWhileServing'
  BY <1>1, <1>9 DEF HeadWhileServing, Serving
<1>11. VerifyIntact'
  BY <1>1 DEF VerifyIntact, Adjacent
<1>12. HeadIsLast'
  <2> SUFFICES ASSUME database = "contract", ~overlapped, NEW i \in up
               PROVE  /\ \A r \in audit_log : r.sequence <= event_count[i]
                      /\ audit_log = {} => last_hash'[i] = Genesis
                      /\ \A r \in audit_log : IsLast(r) => last_hash'[i] = r.event
    BY <1>1 DEF HeadIsLast, IsLast
  <2>1. i = by[e]
    BY <1>3 DEF CallsSound, OneAtATime, ServedByUp
  <2>2. CASE to = "error"
    <3>1. /\ \A r \in audit_log : r.sequence < row[e].sequence
          /\ row[e].sequence = event_count[i]
          /\ audit_log = {} => last_hash[i] = Genesis
          /\ \A r \in audit_log : IsLast(r) => last_hash[i] = r.event
      BY <1>1, <2>1, <2>2 DEF CallsSound, HeadWhileServing
    <3>2. event_count[i] \in Nat
      BY <2>1, <1>3 DEF AuditTypeOK
    <3> QED BY <1>1, <1>5, <2>2, <3>1, <3>2
  <2>3. CASE to = "logged"
    <3>1. /\ \A r \in audit_log : r.sequence <= row[e].sequence
          /\ row[e].sequence = event_count[i] /\ row[e] \in audit_log /\ row[e].event = e
      BY <1>1, <2>1, <2>3 DEF CallsSound, HeadWhileServing, RowsSound, StoredIsThere, RowsAreOwn
    <3>2. last_hash'[i] = e
      BY <1>1, <1>3, <2>1, <2>3 DEF AuditTypeOK
    <3>3. ASSUME NEW r \in audit_log, IsLast(r) PROVE r.event = e
      <4>1. r.sequence = row[e].sequence
        BY <1>5, <3>1, <3>3 DEF IsLast
      <4> QED BY <3>1, <4>1 DEF RowsSound, NumbersUnique
    <3> QED BY <3>1, <3>2, <3>3
  <2> QED BY <2>2, <2>3
<1> QED BY <1>4, <1>6, <1>8, <1>10, <1>11, <1>12 DEF CallsSound

(* A crash takes every call of the instance with it.                       *)
LEMMA AuditCrashKeeps ==
  ASSUME AuditIndInv, NEW i \in Instance, Crash(i)
  PROVE  AuditIndInv'
<1> USE DEF AuditIndInv
<1>1. /\ up' = up \ {i} /\ i \in up
      /\ at' = [e \in Event |-> IF by[e] = i /\ at[e] \in {"storing", "stored"} THEN "lost" ELSE at[e]]
      /\ UNCHANGED <<database, audit_log, event_count, last_hash, by, row, overlapped>>
  BY DEF Crash
<1>2. \A e \in Event : \/ at'[e] = at[e] /\ (Serving(e) => by[e] # i)
                       \/ at'[e] = "lost" /\ Serving(e) /\ by[e] = i
  BY <1>1 DEF Serving
<1>3. AuditTypeOK'
  BY <1>1 DEF AuditTypeOK
<1>4. \A r \in audit_log : r.event \in Event
  BY DEF AuditTypeOK, Row
<1>5. RowsSound'
  <2>1. RowsAreOwn'
    BY <1>1, <1>2, <1>4 DEF RowsSound, RowsAreOwn
  <2>2. StoredIsThere'
    BY <1>1, <1>2 DEF RowsSound, StoredIsThere
  <2> QED BY <1>1, <2>1, <2>2 DEF RowsSound, NumbersUnique
<1>6. \A e \in Event : Serving(e)' => Serving(e) /\ by[e] # i
  BY <1>2 DEF Serving
<1>7. ServedByUp' /\ OneAtATime'
  BY <1>1, <1>6 DEF CallsSound, ServedByUp, OneAtATime
<1>8. ~overlapped => up' = {} /\ \A e \in Event : ~Serving(e)'
  BY <1>1, <1>6 DEF CallsSound, ServedByUp, OneAtATime
<1>9. HeadWhileServing'
  BY <1>1, <1>8 DEF HeadWhileServing, Serving
<1>10. VerifyIntact'
  BY <1>1 DEF VerifyIntact, Adjacent
<1>11. HeadIsLast'
  BY <1>1, <1>8 DEF HeadIsLast
<1> QED BY <1>3, <1>5, <1>7, <1>9, <1>10, <1>11 DEF CallsSound

LEMMA AuditStepInv == AuditIndInv /\ [AuditNext]_auditVars => AuditIndInv'
<1> SUFFICES ASSUME AuditIndInv, [AuditNext]_auditVars PROVE AuditIndInv'
  OBVIOUS
<1>1. CASE AuditNext
  BY <1>1, InitializeKeeps, AuditCrashKeeps, BeginAuditKeeps, InsertKeeps, AnswerKeeps DEF AuditNext
<1>2. CASE UNCHANGED auditVars
  BY <1>2 DEF auditVars, AuditIndInv, AuditTypeOK, RowsSound, RowsAreOwn, StoredIsThere,
     NumbersUnique, CallsSound, ServedByUp, Serving, OneAtATime, HeadWhileServing, IsLast,
     VerifyIntact, Adjacent, HeadIsLast, Busy
<1> QED BY <1>1, <1>2

(* However many events, instances, failed inserts, crashes and restarts:   *)
(* what was answered as logged is in the table, under a number of its own; *)
(* and as long as calls and instances do not overlap, the chain verifies.  *)
THEOREM AuditCorrect == AuditSpec => []AuditInv
<1>1. AuditIndInv => AuditInv
  <2> SUFFICES ASSUME AuditIndInv PROVE SequenceUnique /\ LoggedIsStored
    BY DEF AuditIndInv, AuditInv
  <2>1. SequenceUnique
    BY DEF AuditIndInv, RowsSound, RowsAreOwn, NumbersUnique, SequenceUnique
  <2>2. LoggedIsStored
    BY DEF AuditIndInv, RowsSound, StoredIsThere, LoggedIsStored
  <2> QED BY <2>1, <2>2
<1> QED BY AuditInitInv, AuditStepInv, <1>1, PTL DEF AuditSpec

----------------------------------------------------------------------------
(* RagBootstrap: for every number of askers, services and fixtures.        *)

(* Who waits for a service's lock, holds it or seeds under it asks a query *)
(* of that service, and the fixtures behind a seeder are in.               *)
HoldsAsAsker ==
  \A t \in Asker :
    /\ phase[t] = "return" => current \in made
    /\ phase[t] \in {"got", "lock", "locked", "seeding", "ready"} => mine[t] \in made
    /\ phase[t] \in {"lock", "locked"} => op[t] = "query"
    /\ phase[t] = "locked" \/ (phase[t] = "seeding" /\ op[t] = "query") => holder[mine[t]] = t
    /\ \A s \in Service : holder[s] = t => op[t] = "query"
SeededSoFar ==
  \A t \in Asker : phase[t] = "seeding" =>
    (\A k \in 1 .. next[t] - 1 : Indexed(Fixtures[k])) \/ excuse # {}

(* Who is about to put a layer back does so for the fixture it has come    *)
(* to, or for the user.                                                    *)
OwnWrite(t) ==
  \/ /\ phase[t] = "seeding" /\ next[t] <= Len(Fixtures)
     /\ write[t].layer = Fixtures[next[t]][1] /\ write[t].doc = Fixtures[next[t]][2]
  \/ phase[t] = "got" /\ op[t] = "ingest"
OwnWrites == \A t \in Asker : write[t] # NoWrite => OwnWrite(t)

(* Who is alone on a layer between reading it and putting it back has in   *)
(* hand what the layer has, and its own document.                          *)
WritesCurrent ==
  \A t \in Asker : write[t] # NoWrite /\ ~write[t].shared =>
    /\ Writers(write[t].layer) = {t}
    /\ \A d \in Doc : d = write[t].doc \/ Has(index[write[t].layer], d) => write[t].docs[d] # NoDoc

(* A corpus is partial because somebody is filling it, or for a reason.    *)
PartialExplained == Partial => Seeders # {} \/ excuse # {}
BootIndInv ==
  /\ BootTypeOK /\ HoldsAsAsker /\ SeededSoFar /\ OwnWrites
  /\ PartialExplained /\ ReadyMeansSeeded

LEMMA FixtureTypes ==
  /\ Len(Fixtures) \in Nat /\ DOMAIN Fixtures = 1 .. Len(Fixtures)
  /\ \A k \in DOMAIN Fixtures : Fixtures[k][1] \in Layer /\ Fixtures[k][2] \in Doc
BY BootFixtures

LEMMA BootInitInv == BootInit => BootIndInv
<1> SUFFICES ASSUME BootInit PROVE BootIndInv
  OBVIOUS
<1>1. 1 \in 1 .. Len(Fixtures) + 1
  BY FixtureTypes
<1>2. BootTypeOK
  BY <1>1 DEF BootInit, BootTypeOK, Docs, EmptyDocs, Op
<1>3. HoldsAsAsker /\ SeededSoFar /\ OwnWrites
  BY BootNobody DEF BootInit, HoldsAsAsker, SeededSoFar, OwnWrites
<1>4. PartialExplained /\ ReadyMeansSeeded
  BY DEF BootInit, PartialExplained, Partial, IndicesEmpty, ReadyMeansSeeded
<1> QED BY <1>2, <1>3, <1>4 DEF BootIndInv

(* What a write puts back, and what it means that nothing is dropped.      *)
LEMMA PutBackTypes ==
  ASSUME BootTypeOK, NEW t \in Asker, PutsBack(t)
  PROVE  index' \in [Layer -> Docs \cup {Torn}]
<1>1. write[t] \in Write
  BY DEF BootTypeOK, PutsBack
<1>2. PICK l \in Layer : l = write[t].layer
  BY <1>1 DEF Write
<1>3. PICK new \in Docs \cup {Torn} : index' = [index EXCEPT ![l] = new]
  <2>1. write[t].docs \in Docs
    BY <1>1 DEF Write
  <2>2. Mixed(l) \subseteq Docs \cup {Torn}
    BY DEF Mixed
  <2> QED BY <1>2, <2>1, <2>2 DEF PutsBack
<1> QED BY <1>3 DEF BootTypeOK

LEMMA NothingDropped ==
  ASSUME ~Drops
  PROVE  /\ \A j \in DOMAIN Fixtures : Indexed(Fixtures[j]) => Indexed(Fixtures[j])'
         /\ Seeded => Seeded'
<1>1. \A j \in DOMAIN Fixtures : Indexed(Fixtures[j]) => Indexed(Fixtures[j])'
  BY FixtureTypes DEF Drops, Indexed, Has
<1> QED BY <1>1 DEF Seeded

(* Steps that leave the index alone take no fixture from behind a seeder.  *)
LEMMA SeededSoFarKept ==
  ASSUME SeededSoFar, index' = index, excuse \subseteq excuse',
         \A t \in Asker : phase'[t] = "seeding" =>
           (phase[t] = "seeding" /\ next'[t] = next[t]) \/ next'[t] = 1
  PROVE  SeededSoFar'
<1> SUFFICES ASSUME NEW t \in Asker, phase'[t] = "seeding", excuse' = {}, NEW k \in 1 .. next'[t] - 1
             PROVE  Indexed(Fixtures[k])'
  BY DEF SeededSoFar
<1>1. CASE phase[t] = "seeding" /\ next'[t] = next[t]
  BY <1>1 DEF SeededSoFar, Indexed
<1>2. CASE next'[t] = 1
  BY <1>2
<1> QED BY <1>1, <1>2

(* A thread that ends no write and begins none leaves the writes alone.    *)
LEMMA OwnWritesKept ==
  ASSUME OwnWrites, NEW t \in Asker,
         \A u \in Asker \ {t} :
           /\ phase'[u] = phase[u] /\ op'[u] = op[u] /\ next'[u] = next[u]
           /\ write'[u] # NoWrite => /\ write[u] # NoWrite
                                     /\ write'[u].layer = write[u].layer
                                     /\ write'[u].doc = write[u].doc,
         write'[t] # NoWrite => OwnWrite(t)'
  PROVE  OwnWrites'
<1> SUFFICES ASSUME NEW u \in Asker, u # t, write'[u] # NoWrite PROVE OwnWrite(u)'
  BY DEF OwnWrites
<1>1. OwnWrite(u)
  BY DEF OwnWrites
<1> QED BY <1>1 DEF OwnWrite

(* Steps that touch neither the index nor what was said of it, and end no  *)
(* seeding.                                                                *)
LEMMA CorpusSame ==
  ASSUME BootIndInv, UNCHANGED <<index, flag, excuse>>, Seeders \subseteq Seeders'
  PROVE  PartialExplained' /\ ReadyMeansSeeded'
BY DEF BootIndInv, PartialExplained, ReadyMeansSeeded, Partial, IndicesEmpty, Seeded, Indexed, Has

LEMMA ArriveKeeps ==
  ASSUME BootIndInv, NEW t \in Asker, NEW o \in Op, Arrive(t, o)
  PROVE  BootIndInv'
<1>1. BootTypeOK /\ HoldsAsAsker /\ SeededSoFar /\ OwnWrites
  BY DEF BootIndInv
<1>2. BootTypeOK'
  BY <1>1, BootNobody DEF Arrive, Moves, BootTypeOK
<1>3. HoldsAsAsker'
  <2>1. \A s \in Service : holder[s] # t
    <3> SUFFICES ASSUME NEW s \in Service, holder[s] = t PROVE FALSE
      OBVIOUS
    <3>1. phase[t] = "idle" /\ holder[s] # NoAsker
      BY BootNobody DEF Arrive
    <3>2. phase[holder[s]] \in {"locked", "seeding"}
      BY <1>1, <3>1 DEF BootTypeOK
    <3> QED BY <3>1, <3>2
  <2>2. /\ phase'[t] = "get" /\ \A u \in Asker \ {t} : phase'[u] = phase[u] /\ op'[u] = op[u]
        /\ UNCHANGED <<current, made, holder, mine>>
    BY <1>1 DEF Arrive, Moves, BootTypeOK
  <2> QED BY <1>1, <2>1, <2>2 DEF HoldsAsAsker
<1>4. SeededSoFar' /\ Seeders \subseteq Seeders'
  <2>1. \A u \in Asker : phase'[u] = "seeding" =>
          (phase[u] = "seeding" /\ next'[u] = next[u]) \/ next'[u] = 1
    BY <1>1 DEF Arrive, Moves, BootTypeOK
  <2>2. index' = index /\ excuse' = excuse
    BY DEF Arrive, Moves
  <2>3. SeededSoFar'
    BY <1>1, <2>1, <2>2, SeededSoFarKept
  <2>4. Seeders \subseteq Seeders'
    BY <1>1 DEF Arrive, Moves, BootTypeOK, Seeders
  <2> QED BY <2>3, <2>4
<1>5. UNCHANGED <<index, flag, excuse>>
  BY DEF Arrive
<1>6. OwnWrites'
  <2>1. write[t] = NoWrite /\ write'[t] = NoWrite
    BY <1>1 DEF Arrive, OwnWrites, OwnWrite, BootTypeOK
  <2>2. \A u \in Asker \ {t} :
          phase'[u] = phase[u] /\ op'[u] = op[u] /\ next'[u] = next[u] /\ write'[u] = write[u]
    BY <1>1 DEF Arrive, Moves, BootTypeOK
  <2> QED BY <1>1, <2>1, <2>2, OwnWritesKept
<1> QED BY <1>2, <1>3, <1>4, <1>5, <1>6, CorpusSame DEF BootIndInv

LEMMA FindServiceKeeps ==
  ASSUME BootIndInv, NEW t \in Asker, FindService(t) \/ MakeService(t) \/ ReturnService(t)
  PROVE  BootIndInv'
<1>1. BootTypeOK /\ HoldsAsAsker /\ SeededSoFar /\ OwnWrites
  BY DEF BootIndInv
<1>2. BootTypeOK'
  <2>1. CASE FindService(t)
    BY <1>1, <2>1, BootNobody DEF FindService, Moves, BootTypeOK
  <2>2. CASE MakeService(t)
    BY <1>1, <2>2, BootNobody DEF MakeService, Moves, BootTypeOK
  <2>3. CASE ReturnService(t)
    BY <1>1, <2>3, BootNobody DEF ReturnService, Moves, BootTypeOK
  <2> QED BY <2>1, <2>2, <2>3
<1>3. HoldsAsAsker'
  <2>1. CASE FindService(t)
    BY <1>1, <2>1 DEF FindService, Moves, BootTypeOK, HoldsAsAsker
  <2>2. CASE MakeService(t)
    BY <1>1, <2>2 DEF MakeService, Moves, BootTypeOK, HoldsAsAsker
  <2>3. CASE ReturnService(t)
    BY <1>1, <2>3 DEF ReturnService, Moves, BootTypeOK, HoldsAsAsker
  <2> QED BY <2>1, <2>2, <2>3
<1>4. SeededSoFar' /\ Seeders \subseteq Seeders'
  <2>1. \A u \in Asker : phase'[u] = "seeding" =>
          (phase[u] = "seeding" /\ next'[u] = next[u]) \/ next'[u] = 1
    BY <1>1 DEF FindService, MakeService, ReturnService, Moves, BootTypeOK
  <2>2. index' = index /\ excuse' = excuse
    BY DEF FindService, MakeService, ReturnService, Moves
  <2>3. SeededSoFar'
    BY <1>1, <2>1, <2>2, SeededSoFarKept
  <2>4. Seeders \subseteq Seeders'
    BY <1>1 DEF FindService, MakeService, ReturnService, Moves, BootTypeOK, Seeders
  <2> QED BY <2>3, <2>4
<1>5. UNCHANGED <<index, flag, excuse>>
  BY DEF FindService, MakeService, ReturnService
<1>6. OwnWrites'
  <2>1. write[t] = NoWrite /\ write'[t] = NoWrite
    BY <1>1 DEF FindService, MakeService, ReturnService, OwnWrites, OwnWrite, BootTypeOK
  <2>2. \A u \in Asker \ {t} :
          phase'[u] = phase[u] /\ op'[u] = op[u] /\ next'[u] = next[u] /\ write'[u] = write[u]
    BY <1>1 DEF FindService, MakeService, ReturnService, Moves, BootTypeOK
  <2> QED BY <1>1, <2>1, <2>2, OwnWritesKept
<1> QED BY <1>2, <1>3, <1>4, <1>5, <1>6, CorpusSame DEF BootIndInv

LEMMA LockKeeps ==
  ASSUME BootIndInv, NEW t \in Asker, TestFlag(t) \/ TakeLock(t)
  PROVE  BootIndInv'
<1>1. BootTypeOK /\ HoldsAsAsker /\ SeededSoFar /\ OwnWrites
  BY DEF BootIndInv
<1>2. BootTypeOK'
  <2>1. CASE TestFlag(t)
    BY <1>1, <2>1, BootNobody DEF TestFlag, Moves, BootTypeOK
  <2>2. CASE TakeLock(t)
    BY <1>1, <2>2, BootNobody DEF TakeLock, Moves, BootTypeOK, HoldsAsAsker
  <2> QED BY <2>1, <2>2
<1>3. HoldsAsAsker'
  <2>1. CASE TestFlag(t)
    BY <1>1, <2>1 DEF TestFlag, Moves, BootTypeOK, HoldsAsAsker
  <2>2. CASE TakeLock(t)
    BY <1>1, <2>2, BootNobody DEF TakeLock, Moves, BootTypeOK, HoldsAsAsker
  <2> QED BY <2>1, <2>2
<1>4. SeededSoFar' /\ Seeders \subseteq Seeders'
  <2>1. \A u \in Asker : phase'[u] = "seeding" =>
          (phase[u] = "seeding" /\ next'[u] = next[u]) \/ next'[u] = 1
    BY <1>1 DEF TestFlag, TakeLock, Moves, BootTypeOK
  <2>2. index' = index /\ excuse' = excuse
    BY DEF TestFlag, TakeLock, Moves
  <2>3. SeededSoFar'
    BY <1>1, <2>1, <2>2, SeededSoFarKept
  <2>4. Seeders \subseteq Seeders'
    BY <1>1 DEF TestFlag, TakeLock, Moves, BootTypeOK, Seeders
  <2> QED BY <2>3, <2>4
<1>5. UNCHANGED <<index, flag, excuse>>
  BY DEF TestFlag, TakeLock
<1>6. OwnWrites'
  <2>1. write[t] = NoWrite /\ write'[t] = NoWrite
    BY <1>1 DEF TestFlag, TakeLock, OwnWrites, OwnWrite, BootTypeOK
  <2>2. \A u \in Asker \ {t} :
          phase'[u] = phase[u] /\ op'[u] = op[u] /\ next'[u] = next[u] /\ write'[u] = write[u]
    BY <1>1 DEF TestFlag, TakeLock, Moves, BootTypeOK
  <2> QED BY <1>1, <2>1, <2>2, OwnWritesKept
<1> QED BY <1>2, <1>3, <1>4, <1>5, <1>6, CorpusSame DEF BootIndInv

LEMMA BeginRouteKeeps ==
  ASSUME BootIndInv, NEW t \in Asker, BeginRoute(t)
  PROVE  BootIndInv'
<1>1. BootTypeOK /\ HoldsAsAsker /\ SeededSoFar /\ OwnWrites
  BY DEF BootIndInv
<1>2. BootTypeOK'
  BY <1>1, BootNobody, FixtureTypes DEF BeginRoute, Moves, BootTypeOK
<1>3. HoldsAsAsker'
  BY <1>1 DEF BeginRoute, Moves, BootTypeOK, HoldsAsAsker
<1>4. SeededSoFar' /\ Seeders \subseteq Seeders'
  <2>1. \A u \in Asker : phase'[u] = "seeding" =>
          (phase[u] = "seeding" /\ next'[u] = next[u]) \/ next'[u] = 1
    BY <1>1 DEF BeginRoute, Moves, BootTypeOK
  <2>2. index' = index /\ excuse' = excuse
    BY DEF BeginRoute, Moves
  <2>3. SeededSoFar'
    BY <1>1, <2>1, <2>2, SeededSoFarKept
  <2>4. Seeders \subseteq Seeders'
    BY <1>1 DEF BeginRoute, Moves, BootTypeOK, Seeders
  <2> QED BY <2>3, <2>4
<1>5. UNCHANGED <<index, flag, excuse>>
  BY DEF BeginRoute
<1>6. OwnWrites'
  <2>1. write[t] = NoWrite /\ write'[t] = NoWrite
    BY <1>1 DEF BeginRoute, OwnWrites, OwnWrite, BootTypeOK
  <2>2. \A u \in Asker \ {t} :
          phase'[u] = phase[u] /\ op'[u] = op[u] /\ next'[u] = next[u] /\ write'[u] = write[u]
    BY <1>1 DEF BeginRoute, Moves, BootTypeOK
  <2> QED BY <1>1, <2>1, <2>2, OwnWritesKept
<1> QED BY <1>2, <1>3, <1>4, <1>5, <1>6, CorpusSame DEF BootIndInv

LEMMA RetrieveKeeps ==
  ASSUME BootIndInv, NEW t \in Asker, Retrieve(t)
  PROVE  BootIndInv'
<1>1. BootTypeOK /\ HoldsAsAsker /\ SeededSoFar /\ OwnWrites
  BY DEF BootIndInv
<1>2. BootTypeOK'
  BY <1>1, BootNobody, FixtureTypes DEF Retrieve, Leaves, Moves, BootTypeOK, Op
<1>3. HoldsAsAsker'
  BY <1>1 DEF Retrieve, Leaves, Moves, BootTypeOK, HoldsAsAsker
<1>4. SeededSoFar' /\ Seeders \subseteq Seeders'
  <2>1. \A u \in Asker : phase'[u] = "seeding" =>
          (phase[u] = "seeding" /\ next'[u] = next[u]) \/ next'[u] = 1
    BY <1>1 DEF Retrieve, Leaves, Moves, BootTypeOK
  <2>2. index' = index /\ excuse' = excuse
    BY DEF Retrieve, Leaves, Moves
  <2>3. SeededSoFar'
    BY <1>1, <2>1, <2>2, SeededSoFarKept
  <2>4. Seeders \subseteq Seeders'
    BY <1>1 DEF Retrieve, Leaves, Moves, BootTypeOK, Seeders
  <2> QED BY <2>3, <2>4
<1>5. UNCHANGED <<index, flag, excuse>>
  BY DEF Retrieve
<1>6. OwnWrites'
  <2>1. write[t] = NoWrite /\ write'[t] = NoWrite
    BY <1>1 DEF Retrieve, Leaves, OwnWrites, OwnWrite, BootTypeOK
  <2>2. \A u \in Asker \ {t} :
          phase'[u] = phase[u] /\ op'[u] = op[u] /\ next'[u] = next[u] /\ write'[u] = write[u]
    BY <1>1 DEF Retrieve, Leaves, Moves, BootTypeOK
  <2> QED BY <1>1, <2>1, <2>2, OwnWritesKept
<1> QED BY <1>2, <1>3, <1>4, <1>5, <1>6, CorpusSame DEF BootIndInv

LEMMA TestAgainKeeps ==
  ASSUME BootIndInv, NEW t \in Asker, TestAgain(t)
  PROVE  BootIndInv'
<1> DEFINE s == mine[t]
<1>1. /\ BootTypeOK /\ HoldsAsAsker /\ SeededSoFar /\ OwnWrites
      /\ PartialExplained /\ ReadyMeansSeeded
      /\ phase[t] = "locked" /\ UNCHANGED <<index, current, made, op, mine, write>>
  BY DEF BootIndInv, TestAgain
<1>2. s \in Service /\ s \in made /\ holder[s] = t /\ op[t] = "query"
  BY <1>1 DEF HoldsAsAsker, BootTypeOK
<1>3. /\ Seeded' <=> Seeded
      /\ IndicesEmpty' <=> IndicesEmpty
      /\ \A k : Indexed(Fixtures[k])' <=> Indexed(Fixtures[k])
  BY <1>1 DEF Seeded, IndicesEmpty, Indexed, Has
<1>0. OwnWrites'
  <2>1. write[t] = NoWrite /\ write'[t] = NoWrite
    BY <1>1 DEF OwnWrites, OwnWrite
  <2>2. \A u \in Asker \ {t} :
          phase'[u] = phase[u] /\ op'[u] = op[u] /\ next'[u] = next[u] /\ write'[u] = write[u]
    BY <1>1 DEF TestAgain, Moves, BootTypeOK
  <2> QED BY <1>1, <2>1, <2>2, OwnWritesKept
<1>4. CASE flag[s] \/ RecordsFound
  <2>1. /\ flag[s] \/ ~IndicesEmpty
        /\ excuse' = IF ~flag[s] /\ Partial /\ Seeders # {} THEN excuse \cup {"race"} ELSE excuse
    BY <1>4 DEF TestAgain, RecordsFound, IndicesEmpty
  <2>2. CASE ~(phase'[t] = "seeding")
    <3>1. /\ flag' = [flag EXCEPT ![s] = TRUE] /\ holder' = [holder EXCEPT ![s] = NoAsker]
          /\ phase' = [phase EXCEPT ![t] = "ready"] /\ next' = next
      BY <1>1, <2>2 DEF TestAgain, Moves, BootTypeOK
    <3>2. BootTypeOK'
      BY <1>1, <1>2, <2>1, <3>1, BootNobody DEF BootTypeOK
    <3>3. HoldsAsAsker'
      BY <1>1, <1>2, <3>1, BootNobody DEF BootTypeOK, HoldsAsAsker
    <3>4. Seeders' = Seeders /\ excuse \subseteq excuse'
      BY <1>1, <2>1, <3>1 DEF BootTypeOK, Seeders
    <3>5. SeededSoFar'
      <4>1. \A u \in Asker : phase'[u] = "seeding" => phase[u] = "seeding" /\ next'[u] = next[u]
        BY <1>1, <3>1 DEF BootTypeOK
      <4> QED BY <1>1, <3>4, <4>1, SeededSoFarKept
    <3>6. PartialExplained'
      BY <1>1, <1>3, <3>4 DEF PartialExplained, Partial
    <3>7. Seeded \/ excuse' # {}
      BY <1>1, <1>2, <2>1 DEF PartialExplained, Partial, ReadyMeansSeeded
    <3>8. ReadyMeansSeeded'
      BY <1>1, <1>3, <3>7 DEF ReadyMeansSeeded
    <3> QED BY <1>0, <3>2, <3>3, <3>5, <3>6, <3>8 DEF BootIndInv
  <2>3. CASE phase'[t] = "seeding"
    BY <1>1, <1>4, <2>1, <2>3 DEF TestAgain, Moves, BootTypeOK
  <2> QED BY <2>2, <2>3
<1>5. CASE ~(flag[s] \/ RecordsFound)
  <2>1. /\ next' = [next EXCEPT ![t] = 1] /\ phase' = [phase EXCEPT ![t] = "seeding"]
        /\ flag' = flag /\ holder' = holder /\ excuse' = excuse
    BY <1>5 DEF TestAgain, Moves, Partial
  <2>2. BootTypeOK'
    BY <1>1, <1>2, <2>1, FixtureTypes DEF BootTypeOK
  <2>3. HoldsAsAsker'
    BY <1>1, <1>2, <2>1 DEF BootTypeOK, HoldsAsAsker
  <2>4. SeededSoFar' /\ Seeders \subseteq Seeders'
    BY <1>1, <1>3, <2>1 DEF BootTypeOK, SeededSoFar, Seeders
  <2> QED BY <1>0, <1>1, <2>1, <2>2, <2>3, <2>4, CorpusSame DEF BootIndInv
<1> QED BY <1>4, <1>5

(* A thread that reads a layer writes for itself, and tells the writers it *)
(* finds there that they have company.                                     *)
LEMMA ReadingTypes ==
  ASSUME BootTypeOK, NEW t \in Asker, NEW l \in Layer, NEW d \in Doc, NEW v \in {"fixture", "user"},
         ReadsLayer(t, l, d, v)
  PROVE  /\ write' \in [Asker -> Write \cup {NoWrite}]
         /\ write'[t] # NoWrite /\ write'[t].layer = l /\ write'[t].doc = d
         /\ \A u \in Asker \ {t} :
              write'[u] # NoWrite => /\ write[u] # NoWrite
                                     /\ write'[u].layer = write[u].layer
                                     /\ write'[u].doc = write[u].doc
<1>1. index[l] \in Docs /\ v \in Version
  BY BootVersions DEF BootTypeOK, ReadsLayer
<1>2. [index[l] EXCEPT ![d] = v] \in Docs
  BY <1>1 DEF Docs
<1>3. \A w \in Write : w # NoWrite
  BY BootNoWrite DEF Write, Docs
<1>4. PICK new : new = [layer |-> l, doc |-> d, docs |-> [index[l] EXCEPT ![d] = v],
                        shared |-> Writers(l) # {}]
  OBVIOUS
<1>5. new \in Write /\ new.layer = l /\ new.doc = d
  BY <1>2, <1>4 DEF Write
<1>6. \A u \in Asker : write'[u] = IF u = t THEN new
                       ELSE IF u \in Writers(l) THEN [write[u] EXCEPT !.shared = TRUE] ELSE write[u]
  BY <1>4 DEF ReadsLayer
<1>7. ASSUME NEW u \in Asker, u # t
      PROVE  /\ write'[u] \in Write \cup {NoWrite}
             /\ write'[u] # NoWrite => /\ write[u] # NoWrite
                                       /\ write'[u].layer = write[u].layer
                                       /\ write'[u].doc = write[u].doc
  <2>1. CASE u \in Writers(l)
    <3>1. write[u] # NoWrite /\ write[u] \in Write
      BY <2>1 DEF Writers, BootTypeOK
    <3>2. write'[u] = [write[u] EXCEPT !.shared = TRUE]
      BY <1>6, <1>7, <2>1
    <3> QED BY <3>1, <3>2 DEF Write
  <2>2. CASE u \notin Writers(l)
    BY <1>6, <1>7, <2>2 DEF BootTypeOK
  <2> QED BY <2>1, <2>2
<1>8. write' = [u \in Asker |-> write'[u]]
  BY DEF ReadsLayer
<1>9. \A u \in Asker : write'[u] \in Write \cup {NoWrite}
  BY <1>5, <1>6, <1>7
<1> QED BY <1>3, <1>5, <1>6, <1>7, <1>8, <1>9

LEMMA ReadsKeeps ==
  ASSUME BootIndInv, NEW t \in Asker, SeedReads(t) \/ UserReads(t)
  PROVE  BootIndInv'
<1>1. /\ BootTypeOK /\ HoldsAsAsker /\ SeededSoFar /\ OwnWrites
      /\ UNCHANGED <<index, current, made, flag, holder, phase, op, mine, next, excuse>>
  BY DEF BootIndInv, SeedReads, UserReads
<1>2. PICK l \in Layer, d \in Doc, v \in {"fixture", "user"} :
        /\ ReadsLayer(t, l, d, v)
        /\ \/ /\ phase[t] = "seeding" /\ next[t] <= Len(Fixtures)
              /\ l = Fixtures[next[t]][1] /\ d = Fixtures[next[t]][2]
           \/ phase[t] = "got" /\ op[t] = "ingest"
  <2>1. CASE SeedReads(t)
    <3>1. next[t] \in DOMAIN Fixtures
      BY <1>1, <2>1, FixtureTypes DEF SeedReads, BootTypeOK
    <3>2. Fixtures[next[t]][1] \in Layer /\ Fixtures[next[t]][2] \in Doc
      BY <3>1, FixtureTypes
    <3> QED BY <2>1, <3>2 DEF SeedReads
  <2>2. CASE UserReads(t)
    <3>1. PICK p \in UserDocs : ReadsLayer(t, p[1], p[2], "user")
      BY <2>2 DEF UserReads
    <3>2. p[1] \in Layer /\ p[2] \in Doc
      BY BootFixtures
    <3> QED BY <2>2, <3>1, <3>2 DEF UserReads
  <2> QED BY <2>1, <2>2
<1>3. /\ write' \in [Asker -> Write \cup {NoWrite}]
      /\ write'[t] # NoWrite /\ write'[t].layer = l /\ write'[t].doc = d
      /\ \A u \in Asker \ {t} :
           write'[u] # NoWrite => /\ write[u] # NoWrite
                                  /\ write'[u].layer = write[u].layer
                                  /\ write'[u].doc = write[u].doc
  BY <1>1, <1>2, ReadingTypes
<1>4. BootTypeOK'
  BY <1>1, <1>3 DEF BootTypeOK
<1>5. HoldsAsAsker'
  BY <1>1 DEF HoldsAsAsker
<1>6. SeededSoFar' /\ Seeders \subseteq Seeders'
  BY <1>1 DEF SeededSoFar, Indexed, Has, Seeders
<1>7. OwnWrites'
  <2>1. OwnWrite(t)'
    BY <1>1, <1>2, <1>3 DEF OwnWrite
  <2> QED BY <1>1, <1>3, <2>1, OwnWritesKept
<1> QED BY <1>1, <1>4, <1>5, <1>6, <1>7, CorpusSame DEF BootIndInv

(* Whoever puts back alone loses nothing.                                  *)
LEMMA AloneLosesNothing ==
  ASSUME BootTypeOK, WritesCurrent, NEW t \in Asker, PutsBack(t), ~Overlapped(t)
  PROVE  ~Drops /\ Has(index'[write[t].layer], write[t].doc)
<1>1. PICK w \in Write : w = write[t] /\ ~w.shared
  BY DEF BootTypeOK, PutsBack, Overlapped
<1>2. w.layer \in Layer /\ w.doc \in Doc /\ w.docs \in Docs /\ w.docs # Torn
  BY BootTorn DEF Write, Docs
<1>3. index' = [index EXCEPT ![w.layer] = w.docs]
  BY <1>1 DEF PutsBack
<1>4. \A l \in Layer : index'[l] = IF l = w.layer THEN w.docs ELSE index[l]
  BY <1>3 DEF BootTypeOK
<1>5. \A d \in Doc : d = w.doc \/ Has(index[w.layer], d) => w.docs[d] # NoDoc
  BY <1>1 DEF WritesCurrent, PutsBack
<1>6. ~Drops
  BY <1>2, <1>4, <1>5 DEF Drops, Has
<1> QED BY <1>1, <1>2, <1>4, <1>5, <1>6 DEF Has

(* Reading a layer others are about to put back gives all of them company; *)
(* putting it back is seen by no one who was alone on the layer.           *)
LEMMA ReadsStayCurrent ==
  ASSUME BootTypeOK, WritesCurrent, NEW t \in Asker, NEW l \in Layer, NEW d \in Doc,
         NEW v \in {"fixture", "user"}, ReadsLayer(t, l, d, v), index' = index
  PROVE  WritesCurrent'
<1>1. PICK new : new = [layer |-> l, doc |-> d, docs |-> [index[l] EXCEPT ![d] = v],
                        shared |-> Writers(l) # {}]
  OBVIOUS
<1>2. \A u \in Asker : write'[u] = IF u = t THEN new
                       ELSE IF u \in Writers(l) THEN [write[u] EXCEPT !.shared = TRUE] ELSE write[u]
  BY <1>1 DEF ReadsLayer
<1>3. \A w \in Write : w # NoWrite
  BY BootNoWrite DEF Write, Docs
<1>4. index[l] \in Docs /\ v \in Version /\ v # NoDoc
  BY BootVersions, NoDocIsNoVersion DEF BootTypeOK, ReadsLayer
<1>5. new \in Write /\ new # NoWrite /\ new.layer = l /\ new.doc = d
  BY <1>1, <1>3, <1>4 DEF Write, Docs
<1>8. Writers(l) # {} => new.shared
  BY <1>1
<1> SUFFICES ASSUME NEW u \in Asker, write'[u] # NoWrite, ~write'[u].shared
             PROVE  /\ Writers(write[u].layer)' = {u}
                    /\ \A x \in Doc : x = write'[u].doc \/ Has(index[write'[u].layer], x) =>
                                       write'[u].docs[x] # NoDoc
  BY DEF WritesCurrent
<1>6. CASE u = t
  <2>0. write'[u] = new
    BY <1>2, <1>6
  <2>1. write'[u] = new /\ Writers(l) = {}
    BY <1>8, <2>0
  <2>2. \A x \in Asker \ {t} : write'[x] = write[x]
    BY <1>2, <2>1
  <2>3. Writers(l)' = {t}
    BY <1>1, <1>5, <1>6, <2>1, <2>2 DEF Writers
  <2>4. \A x \in Doc : x = d \/ Has(index[l], x) => new.docs[x] # NoDoc
    BY <1>1, <1>4 DEF Docs, Has
  <2> QED BY <1>5, <1>6, <2>1, <2>3, <2>4
<1>7. CASE u # t
  <2>1. u \notin Writers(l)
    <3>1. SUFFICES ASSUME u \in Writers(l) PROVE FALSE
      OBVIOUS
    <3>2. write[u] \in Write /\ write'[u] = [write[u] EXCEPT !.shared = TRUE]
      BY <1>2, <1>7, <3>1 DEF Writers, BootTypeOK
    <3> QED BY <3>2 DEF Write
  <2>2. write'[u] = write[u] /\ write[u].layer # l
    BY <1>2, <1>7, <2>1 DEF Writers
  <2>3. Writers(write[u].layer) = {u} /\ \A x \in Doc :
          x = write[u].doc \/ Has(index[write[u].layer], x) => write[u].docs[x] # NoDoc
    BY <2>2 DEF WritesCurrent
  <2>4. ASSUME NEW x \in Asker, x # u, write'[x] # NoWrite
        PROVE  write'[x].layer # write[u].layer
    <3>1. CASE x = t
      BY <1>2, <1>5, <2>2, <3>1
    <3>2. CASE x # t /\ x \in Writers(l)
      <4>1. write[x] \in Write /\ write[x].layer = l
        BY <3>2 DEF Writers, BootTypeOK
      <4>2. write'[x].layer = l
        BY <1>2, <3>2, <4>1 DEF Write
      <4> QED BY <2>2, <4>2
    <3>3. CASE x # t /\ x \notin Writers(l)
      <4>1. write'[x] = write[x]
        BY <1>2, <3>3
      <4> QED BY <2>3, <2>4, <4>1 DEF Writers
    <3> QED BY <3>1, <3>2, <3>3
  <2> QED BY <2>2, <2>3, <2>4 DEF Writers
<1> QED BY <1>6, <1>7

LEMMA PutBackStaysCurrent ==
  ASSUME BootTypeOK, WritesCurrent, NEW t \in Asker, PutsBack(t),
         write' = [write EXCEPT ![t] = NoWrite]
  PROVE  WritesCurrent'
<1>1. \A u \in Asker : write'[u] = IF u = t THEN NoWrite ELSE write[u]
  BY DEF BootTypeOK
<1>2. PICK new : index' = [index EXCEPT ![write[t].layer] = new]
  BY DEF PutsBack
<1> SUFFICES ASSUME NEW u \in Asker, write'[u] # NoWrite, ~write'[u].shared
             PROVE  /\ Writers(write[u].layer)' = {u}
                    /\ \A x \in Doc : x = write'[u].doc \/ Has(index'[write'[u].layer], x) =>
                                       write'[u].docs[x] # NoDoc
  BY DEF WritesCurrent
<1>3. u # t /\ write'[u] = write[u] /\ write[u] # NoWrite
  BY <1>1
<1>4. Writers(write[u].layer) = {u} /\ \A x \in Doc :
        x = write[u].doc \/ Has(index[write[u].layer], x) => write[u].docs[x] # NoDoc
  BY <1>3 DEF WritesCurrent
<1>5. write[t].layer # write[u].layer
  BY <1>3, <1>4 DEF Writers, PutsBack
<1>6. index'[write[u].layer] = index[write[u].layer]
  <2>1. write[u].layer \in Layer
    BY <1>3 DEF BootTypeOK, Write
  <2> QED BY <1>2, <1>5, <2>1 DEF BootTypeOK
<1>7. Writers(write[u].layer)' = {u}
  BY <1>1, <1>3, <1>4 DEF Writers
<1> QED BY <1>3, <1>4, <1>6, <1>7

(* All other steps begin no write, and leave the index alone.              *)
LEMMA WritesStayCurrent ==
  ASSUME WritesCurrent, index' = index,
         \A u \in Asker : write'[u] # NoWrite => write'[u] = write[u]
  PROVE  WritesCurrent'
<1> SUFFICES ASSUME NEW u \in Asker, write'[u] # NoWrite, ~write'[u].shared
             PROVE  /\ Writers(write[u].layer)' = {u}
                    /\ \A x \in Doc : x = write'[u].doc \/ Has(index[write'[u].layer], x) =>
                                       write'[u].docs[x] # NoDoc
  BY DEF WritesCurrent
<1>1. write'[u] = write[u]
  OBVIOUS
<1>2. Writers(write[u].layer) = {u} /\ \A x \in Doc :
        x = write[u].doc \/ Has(index[write[u].layer], x) => write[u].docs[x] # NoDoc
  BY <1>1 DEF WritesCurrent
<1>3. Writers(write[u].layer)' = {u}
  BY <1>1, <1>2 DEF Writers
<1> QED BY <1>1, <1>2, <1>3

LEMMA SeedWritesKeeps ==
  ASSUME BootIndInv, WritesCurrent, NEW t \in Asker, SeedWrites(t)
  PROVE  BootIndInv'
<1>0. PICK k : k = next[t]
  OBVIOUS
<1>1. /\ BootTypeOK /\ HoldsAsAsker /\ SeededSoFar /\ OwnWrites
      /\ PartialExplained /\ ReadyMeansSeeded
      /\ phase[t] = "seeding" /\ next' = [next EXCEPT ![t] = k + 1]
      /\ write' = [write EXCEPT ![t] = NoWrite] /\ write[t] # NoWrite /\ PutsBack(t)
      /\ UNCHANGED <<current, made, flag, holder, phase, op, mine>>
  BY <1>0 DEF BootIndInv, SeedWrites, PutsBack
<1>2. /\ k \in Nat /\ k >= 1 /\ k \in DOMAIN Fixtures
      /\ write[t].layer = Fixtures[k][1] /\ write[t].doc = Fixtures[k][2]
  BY <1>0, <1>1, FixtureTypes DEF BootTypeOK, OwnWrites, OwnWrite
<1>3. index' \in [Layer -> Docs \cup {Torn}]
  BY <1>1, PutBackTypes
<1>4. /\ excuse' \in {excuse, excuse \cup {"lost"}}
      /\ excuse' = {} => ~Drops /\ Indexed(Fixtures[k])'
  <2>1. ~Overlapped(t) => ~Drops /\ Indexed(Fixtures[k])'
    BY <1>1, <1>2, AloneLosesNothing DEF Indexed
  <2> QED BY <1>2, <2>1 DEF SeedWrites, Indexed
<1>5. BootTypeOK'
  <2>1. next' \in [Asker -> 1 .. Len(Fixtures) + 1]
    BY <1>1, <1>2, FixtureTypes DEF BootTypeOK
  <2> QED BY <1>1, <1>3, <1>4, <2>1 DEF BootTypeOK
<1>6. HoldsAsAsker'
  BY <1>1 DEF HoldsAsAsker
<1>7. SeededSoFar'
  <2> SUFFICES ASSUME NEW u \in Asker, phase'[u] = "seeding", excuse' = {}, NEW j \in 1 .. next'[u] - 1
               PROVE  Indexed(Fixtures[j])'
    BY DEF SeededSoFar
  <2>1. phase[u] = "seeding" /\ next[u] \in Nat /\ next[u] <= Len(Fixtures) + 1
        /\ next'[u] = IF u = t THEN k + 1 ELSE next[u]
    BY <1>0, <1>1, FixtureTypes DEF BootTypeOK
  <2>2. j \in 1 .. next[u] - 1 \/ (u = t /\ j = k)
    BY <1>0, <1>2, <2>1
  <2>3. CASE j \in 1 .. next[u] - 1
    <3>1. Indexed(Fixtures[j])
      BY <1>1, <1>4, <2>1, <2>3 DEF SeededSoFar
    <3>2. j \in DOMAIN Fixtures
      BY <2>1, <2>3, FixtureTypes
    <3> QED BY <1>4, <3>1, <3>2, NothingDropped
  <2>4. CASE j = k
    BY <1>4, <2>4
  <2> QED BY <2>2, <2>3, <2>4
<1>8. OwnWrites'
  <2>1. \A u \in Asker \ {t} :
          phase'[u] = phase[u] /\ op'[u] = op[u] /\ next'[u] = next[u] /\ write'[u] = write[u]
    BY <1>1 DEF BootTypeOK
  <2>2. write'[t] = NoWrite
    BY <1>1 DEF BootTypeOK
  <2> QED BY <1>1, <2>1, <2>2, OwnWritesKept
<1>9. PartialExplained'
  BY <1>1 DEF PartialExplained, Seeders
<1>10. ReadyMeansSeeded'
  BY <1>1, <1>4, NothingDropped DEF ReadyMeansSeeded
<1> QED BY <1>5, <1>6, <1>7, <1>8, <1>9, <1>10 DEF BootIndInv

LEMMA FinishSeedingKeeps ==
  ASSUME BootIndInv, NEW t \in Asker, FinishSeeding(t)
  PROVE  BootIndInv'
<1> DEFINE s == mine[t]
<1>1. /\ BootTypeOK /\ HoldsAsAsker /\ SeededSoFar /\ OwnWrites
      /\ PartialExplained /\ ReadyMeansSeeded
      /\ phase[t] = "seeding" /\ next[t] = Len(Fixtures) + 1
      /\ UNCHANGED <<index, current, made, excuse>>
  BY DEF BootIndInv, FinishSeeding
<1>2. s \in Service /\ s \in made
  BY <1>1 DEF HoldsAsAsker, BootTypeOK
<1>3. (Seeded /\ Seeded') \/ excuse' # {}
  <2>1. next[t] - 1 = Len(Fixtures)
    BY <1>1, FixtureTypes
  <2> QED BY <1>1, <2>1, FixtureTypes DEF SeededSoFar, Seeded, Indexed, Has
<1>4. PartialExplained' /\ ReadyMeansSeeded'
  BY <1>3 DEF PartialExplained, Partial, ReadyMeansSeeded
<1>0. OwnWrites'
  <2>1. write[t] = NoWrite
    BY <1>1, FixtureTypes DEF OwnWrites, OwnWrite
  <2>2. write'[t] = NoWrite
    BY <1>1, <2>1 DEF FinishSeeding, Leaves, BootTypeOK
  <2>3. \A u \in Asker \ {t} :
          phase'[u] = phase[u] /\ op'[u] = op[u] /\ next'[u] = next[u] /\ write'[u] = write[u]
    BY <1>1 DEF FinishSeeding, Leaves, Moves, BootTypeOK
  <2> QED BY <1>1, <2>2, <2>3, OwnWritesKept
<1>5. CASE op[t] = "query"
  <2>1. /\ flag' = [flag EXCEPT ![s] = TRUE] /\ holder' = [holder EXCEPT ![s] = NoAsker]
        /\ phase' = [phase EXCEPT ![t] = "ready"] /\ UNCHANGED <<op, mine, next, write>>
    BY <1>5 DEF FinishSeeding, Moves
  <2>2. holder[s] = t
    BY <1>1, <1>5 DEF HoldsAsAsker
  <2>3. BootTypeOK'
    BY <1>1, <1>2, <2>1, <2>2, BootNobody DEF BootTypeOK
  <2>4. HoldsAsAsker'
    BY <1>1, <1>2, <2>1, <2>2, BootNobody DEF BootTypeOK, HoldsAsAsker
  <2>5. SeededSoFar'
    <3>1. \A u \in Asker : phase'[u] = "seeding" => phase[u] = "seeding" /\ next'[u] = next[u]
      BY <1>1, <2>1 DEF BootTypeOK
    <3> QED BY <1>1, <3>1, SeededSoFarKept
  <2> QED BY <1>0, <1>4, <2>3, <2>4, <2>5 DEF BootIndInv
<1>6. CASE op[t] # "query"
  <2>1. /\ phase' = [phase EXCEPT ![t] = "idle"] /\ op' = [op EXCEPT ![t] = "query"]
        /\ mine' = [mine EXCEPT ![t] = NoService] /\ next' = [next EXCEPT ![t] = 1]
        /\ write' = [write EXCEPT ![t] = NoWrite] /\ UNCHANGED <<flag, holder>>
    BY <1>6 DEF FinishSeeding, Leaves, Moves
  <2>2. \A x \in Service : holder[x] # t
    BY <1>1, <1>6 DEF HoldsAsAsker
  <2>3. BootTypeOK'
    BY <1>1, <2>1, <2>2, BootNobody, FixtureTypes DEF BootTypeOK, Op
  <2>4. HoldsAsAsker'
    BY <1>1, <2>1, <2>2 DEF BootTypeOK, HoldsAsAsker
  <2>5. SeededSoFar'
    <3>1. \A u \in Asker : phase'[u] = "seeding" => phase[u] = "seeding" /\ next'[u] = next[u]
      BY <1>1, <2>1 DEF BootTypeOK
    <3> QED BY <1>1, <3>1, SeededSoFarKept
  <2> QED BY <1>0, <1>4, <2>3, <2>4, <2>5 DEF BootIndInv
<1> QED BY <1>5, <1>6

(* A route that raises leaves what it has not put back as it was; what it  *)
(* has, or has left half done, is for a reason.                            *)
LEMMA RaisesKeeps ==
  ASSUME BootIndInv, WritesCurrent, NEW t \in Asker, Raises(t)
  PROVE  BootIndInv'
<1>1. /\ BootTypeOK /\ HoldsAsAsker /\ SeededSoFar /\ OwnWrites
      /\ PartialExplained /\ ReadyMeansSeeded
      /\ excuse' = excuse \cup UserExcuses(t)
                     \cup (IF phase[t] = "seeding" /\ Partial' THEN {"cut"} ELSE {})
      /\ holder' = [x \in Service |-> IF holder[x] = t THEN NoAsker ELSE holder[x]]
      /\ phase' = [phase EXCEPT ![t] = "idle"] /\ op' = [op EXCEPT ![t] = "query"]
      /\ mine' = [mine EXCEPT ![t] = NoService] /\ next' = [next EXCEPT ![t] = 1]
      /\ write' = [write EXCEPT ![t] = NoWrite]
      /\ UNCHANGED <<current, made, flag>>
  BY DEF BootIndInv, Raises, Released, Leaves, Moves
<1>2. index' = index \/ PutsBack(t)
  BY DEF Raises, Refuses, CannotRead, CannotRename
<1>3. index' \in [Layer -> Docs \cup {Torn}]
  BY <1>1, <1>2, PutBackTypes DEF BootTypeOK
<1>4. BootTypeOK'
  BY <1>1, <1>3, BootNobody, FixtureTypes DEF BootTypeOK, Op, UserExcuses
<1>5. HoldsAsAsker'
  <2> SUFFICES ASSUME NEW u \in Asker
               PROVE  /\ phase'[u] = "return" => current' \in made'
                      /\ phase'[u] \in {"got", "lock", "locked", "seeding", "ready"} => mine'[u] \in made'
                      /\ phase'[u] \in {"lock", "locked"} => op'[u] = "query"
                      /\ phase'[u] = "locked" \/ (phase'[u] = "seeding" /\ op'[u] = "query") =>
                           holder'[mine'[u]] = u
                      /\ \A x \in Service : holder'[x] = u => op'[u] = "query"
    BY DEF HoldsAsAsker
  <2>1. CASE u = t
    BY <1>1, <2>1 DEF BootTypeOK
  <2>2. CASE u # t
    <3>1. phase'[u] = phase[u] /\ op'[u] = op[u] /\ mine'[u] = mine[u]
      BY <1>1, <2>2 DEF BootTypeOK
    <3>2. \A x \in Service : holder'[x] = u <=> holder[x] = u
      BY <1>1, <2>2, BootNobody
    <3>3. mine[u] \in made => mine[u] \in Service
      BY <1>1 DEF BootTypeOK
    <3> QED BY <1>1, <3>1, <3>2, <3>3 DEF HoldsAsAsker
  <2> QED BY <2>1, <2>2
<1>6. OwnWrites'
  <2>1. write'[t] = NoWrite
    BY <1>1 DEF BootTypeOK
  <2>2. \A u \in Asker \ {t} :
          phase'[u] = phase[u] /\ op'[u] = op[u] /\ next'[u] = next[u] /\ write'[u] = write[u]
    BY <1>1 DEF BootTypeOK
  <2> QED BY <1>1, <2>1, <2>2, OwnWritesKept
<1>7. excuse' = {} => /\ excuse = {} /\ ~Drops
                      /\ index' = index \/ Seeded
                      /\ phase[t] = "seeding" => ~Partial'
  <2>1. Drops => Overlapped(t)
    BY <1>1, <1>2, AloneLosesNothing DEF Drops, Has
  <2> QED BY <1>1, <2>1 DEF UserExcuses
<1>8. SeededSoFar'
  <2> SUFFICES ASSUME NEW u \in Asker, phase'[u] = "seeding", excuse' = {}, NEW j \in 1 .. next'[u] - 1
               PROVE  Indexed(Fixtures[j])'
    BY DEF SeededSoFar
  <2>1. phase[u] = "seeding" /\ next'[u] = next[u] /\ next[u] \in Nat /\ next[u] <= Len(Fixtures) + 1
    BY <1>1, FixtureTypes DEF BootTypeOK
  <2>2. Indexed(Fixtures[j]) /\ j \in DOMAIN Fixtures
    BY <1>1, <1>7, <2>1, FixtureTypes DEF SeededSoFar
  <2> QED BY <1>7, <2>2, NothingDropped
<1>9. ReadyMeansSeeded'
  BY <1>1, <1>7, NothingDropped DEF ReadyMeansSeeded
<1>10. PartialExplained'
  <2> SUFFICES ASSUME Partial', excuse' = {} PROVE Seeders' # {}
    BY DEF PartialExplained
  <2>1. index' = index /\ phase[t] # "seeding"
    BY <1>7, NothingDropped DEF Partial
  <2>2. Partial
    BY <2>1 DEF Partial, IndicesEmpty, Seeded, Indexed, Has
  <2>3. Seeders \subseteq Seeders'
    BY <1>1, <2>1 DEF Seeders, BootTypeOK
  <2> QED BY <1>1, <1>7, <2>2, <2>3 DEF PartialExplained
<1> QED BY <1>4, <1>5, <1>6, <1>8, <1>9, <1>10 DEF BootIndInv

LEMMA UserWritesKeeps ==
  ASSUME BootIndInv, WritesCurrent, NEW t \in Asker, UserWrites(t)
  PROVE  BootIndInv'
<1>1. /\ BootTypeOK /\ HoldsAsAsker /\ SeededSoFar /\ OwnWrites
      /\ PartialExplained /\ ReadyMeansSeeded
      /\ phase[t] = "got" /\ PutsBack(t)
      /\ excuse' = excuse \cup UserExcuses(t)
      /\ phase' = [phase EXCEPT ![t] = "idle"] /\ op' = [op EXCEPT ![t] = "query"]
      /\ mine' = [mine EXCEPT ![t] = NoService] /\ next' = [next EXCEPT ![t] = 1]
      /\ write' = [write EXCEPT ![t] = NoWrite]
      /\ UNCHANGED <<current, made, flag, holder>>
  BY DEF BootIndInv, UserWrites, Leaves, Moves
<1>2. index' \in [Layer -> Docs \cup {Torn}]
  BY <1>1, PutBackTypes
<1>3. BootTypeOK'
  BY <1>1, <1>2, BootNobody, FixtureTypes DEF BootTypeOK, Op, UserExcuses
<1>4. HoldsAsAsker'
  BY <1>1 DEF BootTypeOK, HoldsAsAsker
<1>5. OwnWrites'
  <2>1. write'[t] = NoWrite
    BY <1>1 DEF BootTypeOK
  <2>2. \A u \in Asker \ {t} :
          phase'[u] = phase[u] /\ op'[u] = op[u] /\ next'[u] = next[u] /\ write'[u] = write[u]
    BY <1>1 DEF BootTypeOK
  <2> QED BY <1>1, <2>1, <2>2, OwnWritesKept
<1>6. excuse' = {} => excuse = {} /\ ~Drops /\ (index' = index \/ Seeded)
  BY <1>1, AloneLosesNothing DEF UserExcuses
<1>7. SeededSoFar'
  <2> SUFFICES ASSUME NEW u \in Asker, phase'[u] = "seeding", excuse' = {}, NEW j \in 1 .. next'[u] - 1
               PROVE  Indexed(Fixtures[j])'
    BY DEF SeededSoFar
  <2>1. phase[u] = "seeding" /\ next'[u] = next[u] /\ next[u] \in Nat /\ next[u] <= Len(Fixtures) + 1
    BY <1>1, FixtureTypes DEF BootTypeOK
  <2>2. Indexed(Fixtures[j]) /\ j \in DOMAIN Fixtures
    BY <1>1, <1>6, <2>1, FixtureTypes DEF SeededSoFar
  <2> QED BY <1>6, <2>2, NothingDropped
<1>8. ReadyMeansSeeded'
  BY <1>1, <1>6, NothingDropped DEF ReadyMeansSeeded
<1>9. PartialExplained'
  <2> SUFFICES ASSUME Partial', excuse' = {} PROVE Seeders' # {}
    BY DEF PartialExplained
  <2>1. index' = index
    BY <1>6, NothingDropped DEF Partial
  <2>2. Partial
    BY <2>1 DEF Partial, IndicesEmpty, Seeded, Indexed, Has
  <2>3. Seeders \subseteq Seeders'
    BY <1>1 DEF Seeders, BootTypeOK
  <2> QED BY <1>1, <1>6, <2>2, <2>3 DEF PartialExplained
<1> QED BY <1>3, <1>4, <1>5, <1>7, <1>8, <1>9 DEF BootIndInv

LEMMA DieSeedingKeeps ==
  ASSUME BootIndInv, DieSeeding
  PROVE  BootIndInv'
<1>1. BootTypeOK /\ PartialExplained
  BY DEF BootIndInv
<1>2. BootTypeOK'
  BY <1>1, FixtureTypes DEF DieSeeding, BootTypeOK, Op
<1>3. HoldsAsAsker' /\ SeededSoFar' /\ OwnWrites'
  BY BootNobody DEF DieSeeding, HoldsAsAsker, SeededSoFar, OwnWrites
<1>4. PartialExplained'
  BY <1>1 DEF DieSeeding, PartialExplained, Partial, IndicesEmpty, Seeded, Indexed, Has
<1>5. ReadyMeansSeeded'
  BY DEF DieSeeding, ReadyMeansSeeded
<1> QED BY <1>2, <1>3, <1>4, <1>5 DEF BootIndInv

LEMMA CurrentStep == BootIndInv /\ WritesCurrent /\ [BootNext]_bootVars => WritesCurrent'
<1> SUFFICES ASSUME BootIndInv, WritesCurrent, [BootNext]_bootVars PROVE WritesCurrent'
  OBVIOUS
<1>0. BootTypeOK
  BY DEF BootIndInv
<1>1. CASE UNCHANGED bootVars \/ DieSeeding
  <2>1. index' = index /\ \A u \in Asker : write'[u] # NoWrite => write'[u] = write[u]
    BY <1>1 DEF bootVars, DieSeeding
  <2> QED BY <2>1, WritesStayCurrent
<1>2. ASSUME NEW t \in Asker, (\E o \in Op : Arrive(t, o)) \/ FindService(t) \/ MakeService(t)
               \/ ReturnService(t) \/ TestFlag(t) \/ TakeLock(t) \/ TestAgain(t) \/ BeginRoute(t)
      PROVE  WritesCurrent'
  <2>1. index' = index /\ write' = write
    BY <1>2 DEF Arrive, FindService, MakeService, ReturnService, TestFlag, TakeLock, TestAgain, BeginRoute
  <2> QED BY <2>1, WritesStayCurrent
<1>3. ASSUME NEW t \in Asker, FinishSeeding(t) \/ Retrieve(t) PROVE WritesCurrent'
  <2>1. index' = index /\ \A u \in Asker : write'[u] # NoWrite => write'[u] = write[u]
    BY <1>0, <1>3 DEF FinishSeeding, Retrieve, Leaves, BootTypeOK
  <2> QED BY <2>1, WritesStayCurrent
<1>4. ASSUME NEW t \in Asker, SeedReads(t) \/ UserReads(t) PROVE WritesCurrent'
  <2>1. PICK l \in Layer, d \in Doc, v \in {"fixture", "user"} : ReadsLayer(t, l, d, v)
    <3>1. CASE SeedReads(t)
      <4>1. next[t] \in DOMAIN Fixtures
        BY <1>0, <3>1, FixtureTypes DEF SeedReads, BootTypeOK
      <4> QED BY <3>1, <4>1, FixtureTypes DEF SeedReads
    <3>2. CASE UserReads(t)
      BY <3>2, BootFixtures DEF UserReads
    <3> QED BY <1>4, <3>1, <3>2
  <2>2. index' = index
    BY <1>4 DEF SeedReads, UserReads
  <2> QED BY <1>0, <2>1, <2>2, ReadsStayCurrent
<1>5. ASSUME NEW t \in Asker, SeedWrites(t) \/ UserWrites(t) \/ Raises(t) PROVE WritesCurrent'
  <2>1. write' = [write EXCEPT ![t] = NoWrite]
    BY <1>5 DEF SeedWrites, UserWrites, Raises, Leaves
  <2>2. PutsBack(t) \/ index' = index
    BY <1>5 DEF SeedWrites, UserWrites, Raises, Refuses, CannotRead, CannotRename
  <2>3. \A u \in Asker : write'[u] # NoWrite => write'[u] = write[u]
    BY <1>0, <2>1 DEF BootTypeOK
  <2> QED BY <1>0, <2>1, <2>2, <2>3, PutBackStaysCurrent, WritesStayCurrent
<1> QED BY <1>1, <1>2, <1>3, <1>4, <1>5 DEF BootNext, BootStep

LEMMA BootStepInv == BootIndInv /\ WritesCurrent /\ [BootNext]_bootVars => BootIndInv'
<1>1. ASSUME BootIndInv, UNCHANGED bootVars PROVE BootIndInv'
  <2>1. UNCHANGED <<index, current, made, flag, holder, phase, op, mine, next, write, excuse>>
    BY <1>1 DEF bootVars
  <2>2. BootTypeOK' /\ HoldsAsAsker' /\ OwnWrites'
    BY <1>1, <2>1 DEF BootIndInv, BootTypeOK, HoldsAsAsker, OwnWrites, OwnWrite
  <2>3. SeededSoFar'
    BY <1>1, <2>1, SeededSoFarKept DEF BootIndInv
  <2>4. Seeders' = Seeders
    BY <2>1 DEF Seeders
  <2> QED BY <1>1, <2>1, <2>2, <2>3, <2>4, CorpusSame DEF BootIndInv
<1>2. ASSUME BootIndInv, WritesCurrent, NEW t \in Asker, BootStep(t) PROVE BootIndInv'
  BY <1>2, FindServiceKeeps, LockKeeps, TestAgainKeeps, BeginRouteKeeps, ReadsKeeps,
     SeedWritesKeeps, FinishSeedingKeeps, UserWritesKeeps, RetrieveKeeps, RaisesKeeps DEF BootStep
<1> QED BY <1>1, <1>2, ArriveKeeps, DieSeedingKeeps DEF BootNext

(* With any threads, services and documents: a service whose               *)
(* ensure_bootstrapped() has set the flag has all fixtures, unless a       *)
(* bootstrap was cut off, a user was first, somebody without its lock was  *)
(* still seeding, or an upsert that overlapped another on the layer lost a *)
(* document; and it seeds once at a time.                                  *)
THEOREM BootCorrect == BootSpec => []BootInv
<1>1. BootIndInv => BootInv
  BY DEF BootIndInv, BootInv, OneSeederPerService, Seeders, HoldsAsAsker
<1>2. BootInit => WritesCurrent
  BY DEF BootInit, WritesCurrent
<1> QED BY <1>1, <1>2, BootInitInv, BootStepInv, CurrentStep, PTL DEF BootSpec

----------------------------------------------------------------------------
(* HotelNotes: what an ingested note is read as, for every set of notes.   *)

Lost == {n \in ingested \ Separated : ~Read(n)}

(* An append cut off accounts for one note that is lost, before or after:  *)
(* the note after it, for what the file ends with then is no note answered *)
(* as ingested.                                                            *)
LostCounted ==
  /\ Cardinality(Lost) <= torn
  /\ unended => Cardinality(Lost) + 1 <= torn
EndsTorn ==
  unended => /\ line # << >>
             /\ \A n \in ingested : line[Len(line)] # Record(n)
RaisesExplained ==
  /\ undecodable => torn > 0
  /\ \A i \in DOMAIN line : line[i] = Scrap => sent \cap Scalar # {}
  /\ \A i \in DOMAIN line, n \in Note : line[i] = Record(n) => n \in sent
NotesIndInv == NotesTypeOK /\ IsFiniteSet(sent) /\ EndsTorn /\ RaisesExplained /\ LostCounted

LEMMA LinesDiffer ==
  /\ Scrap # Broken
  /\ \A n : Record(n) # Scrap /\ Record(n) # Broken
  /\ \A n, m : Record(n) = Record(m) => n = m
<1>1. Len(Scrap) = 1 /\ Len(Broken) = 1 /\ \A n : Len(Record(n)) = 2
  BY DEF Scrap, Broken, Record
<1>2. Scrap[1] = "scrap" /\ Broken[1] = "broken" /\ \A n : Record(n)[2] = n
  BY DEF Scrap, Broken, Record
<1> QED BY <1>1, <1>2

LEMMA LineElements ==
  /\ Broken \in Line /\ Scrap \in Line /\ \A n \in Note : Record(n) \in Line
BY DEF Line

(* Lines that a note could have left.                                      *)
LinesOf(n, text) ==
  \A k \in DOMAIN text : /\ text[k] = Scrap => n \in Scalar
                         /\ \A m : text[k] = Record(m) => m = n

(* The lines written for a note.                                           *)
LEMMA TextOf ==
  ASSUME NEW n \in Note
  PROVE  /\ Text(n) \in Seq(Line) /\ Len(Text(n)) \in 1..3
         /\ LinesOf(n, Text(n))
         /\ n \notin Separated => Text(n) = <<Record(n)>>
<1>1. CASE n \in Scalar
  BY <1>1, NotesMarked, LinesDiffer, LineElements DEF Text, LinesOf
<1>2. CASE n \notin Scalar /\ n \in Separated
  BY <1>2, LinesDiffer, LineElements DEF Text, LinesOf
<1>3. CASE n \notin Scalar /\ n \notin Separated
  <2>1. Text(n) = <<Record(n)>>
    BY <1>3 DEF Text
  <2>2. Record(n) \in Line
    BY LineElements
  <2> HIDE DEF Text
  <2>3. <<Record(n)>> \in Seq(Line) /\ Len(<<Record(n)>>) = 1 /\ DOMAIN <<Record(n)>> = {1}
        /\ <<Record(n)>>[1] = Record(n)
    BY <2>2
  <2> QED BY <2>1, <2>3, LinesDiffer DEF LinesOf
<1> QED BY <1>1, <1>2, <1>3

(* The file after an append has all lines but perhaps its last, the lines  *)
(* appended but perhaps the first, and else only broken ones.              *)
LEMMA AppendedLines ==
  ASSUME line \in Seq(Line), unended \in BOOLEAN, unended => line # << >>,
         NEW text \in Seq(Line), Len(text) > 0
  PROVE  /\ Appended(text) \in Seq(Line) /\ Appended(text) # << >>
         /\ \A i \in DOMAIN line : (unended /\ i = Len(line)) \/
              \E k \in DOMAIN Appended(text) : Appended(text)[k] = line[i]
         /\ \A k \in DOMAIN Appended(text) :
              \/ Appended(text)[k] = Broken
              \/ \E i \in DOMAIN line : Appended(text)[k] = line[i]
              \/ \E i \in DOMAIN text : Appended(text)[k] = text[i]
         /\ \/ Appended(text)[Len(Appended(text))] = Broken
            \/ Appended(text)[Len(Appended(text))] = text[Len(text)]
         /\ ~unended => \A i \in DOMAIN text :
              \E k \in DOMAIN Appended(text) : Appended(text)[k] = text[i]
<1> DEFINE m == Len(line)
           n == Len(text)
<1>1. /\ m \in Nat /\ n \in Nat /\ n > 0 /\ DOMAIN line = 1..m /\ DOMAIN text = 1..n
      /\ Broken \in Line
  BY LineElements
<1>2. CASE ~unended
  <2>1. Appended(text) = line \o text
    BY <1>2 DEF Appended
  <2>2. /\ line \o text \in Seq(Line) /\ Len(line \o text) = m + n
        /\ DOMAIN (line \o text) = 1..(m + n)
        /\ \A k \in 1..(m + n) : (line \o text)[k] = IF k <= m THEN line[k] ELSE text[k - m]
    BY <1>1
  <2> DEFINE all == line \o text
  <2>3. \A i \in 1..m : i \in 1..(m + n) /\ all[i] = line[i]
    BY <1>1, <2>2
  <2>4. \A i \in 1..n : m + i \in 1..(m + n) /\ all[m + i] = text[i]
    BY <1>1, <2>2
  <2>5. \A k \in 1..(m + n) : k \notin 1..m => (k - m) \in 1..n /\ all[k] = text[k - m]
    BY <1>1, <2>2
  <2>6. all[m + n] = text[n] /\ n \in 1..n
    BY <1>1, <2>4
  <2>7. all # << >>
    BY <1>1, <2>2
  <2>8. DOMAIN all = 1..(m + n) /\ all \in Seq(Line) /\ Len(all) = m + n
    BY <2>2
  <2> HIDE DEF all, m, n
  <2>9. \A k \in DOMAIN all : (\E i \in DOMAIN line : all[k] = line[i])
                              \/ \E i \in DOMAIN text : all[k] = text[i]
    <3>1. ASSUME NEW k \in DOMAIN all, k \in 1..m PROVE \E i \in DOMAIN line : all[k] = line[i]
      BY <1>1, <2>3, <3>1
    <3>2. ASSUME NEW k \in DOMAIN all, k \notin 1..m PROVE \E i \in DOMAIN text : all[k] = text[i]
      BY <1>1, <2>5, <2>8, <3>2
    <3> QED BY <3>1, <3>2
  <2>10. \A i \in DOMAIN line : \E k \in DOMAIN all : all[k] = line[i]
    BY <1>1, <2>3, <2>8
  <2>11. \A i \in DOMAIN text : \E k \in DOMAIN all : all[k] = text[i]
    BY <1>1, <2>4, <2>8
  <2>12. all[Len(all)] = text[Len(text)]
    BY <2>6, <2>8 DEF n
  <2>13. Appended(text) = all
    BY <2>1 DEF all
  <2> QED BY <1>2, <2>7, <2>8, <2>9, <2>10, <2>11, <2>12, <2>13
<1>3. CASE unended
  <2> DEFINE cut == [line EXCEPT ![Len(line)] = Broken]
             rest == Tail(text)
             all == cut \o rest
  <2>1. Appended(text) = all
    BY <1>3 DEF Appended
  <2>2. /\ cut \in Seq(Line) /\ Len(cut) = m /\ DOMAIN cut = 1..m /\ m >= 1
        /\ cut[m] = Broken /\ \A i \in 1..m : i # m => cut[i] = line[i]
    <3>1. m >= 1
      BY <1>1, <1>3
    <3>2. cut \in [1..m -> Line] /\ m \in 1..m
      BY <1>1, <3>1
    <3>3. cut \in Seq(Line) /\ Len(cut) = m /\ DOMAIN cut = 1..m
      <4> HIDE DEF cut, m
      <4>1. cut \in Seq(Line)
        BY <1>1, <3>2
      <4>2. DOMAIN cut = 1..m
        BY <3>2
      <4>3. Len(cut) = m
        BY <1>1, <4>1, <4>2
      <4> QED BY <4>1, <4>2, <4>3
    <3>4. cut[m] = Broken
      BY <1>1, <3>2
    <3>5. ASSUME NEW i \in 1..m, i # m PROVE cut[i] = line[i]
      BY <1>1, <3>5
    <3> QED BY <3>1, <3>3, <3>4, <3>5
  <2>3. /\ rest \in Seq(Line) /\ Len(rest) = n - 1 /\ DOMAIN rest = 1..(n - 1)
        /\ \A i \in 1..(n - 1) : rest[i] = text[i + 1]
    BY <1>1
  <2> HIDE DEF cut, rest
  <2>4. /\ all \in Seq(Line) /\ Len(all) = m + (n - 1) /\ DOMAIN all = 1..(m + (n - 1))
        /\ \A k \in 1..(m + (n - 1)) : all[k] = IF k <= m THEN cut[k] ELSE rest[k - m]
    <3> HIDE DEF m, n
    <3>1. all \in Seq(Line)
      BY <2>2, <2>3
    <3>2. Len(all) = m + (n - 1)
      <4>1. Len(all) = Len(cut) + Len(rest)
        <5>1. cut \in Seq(Line) /\ rest \in Seq(Line)
          BY <2>2, <2>3
        <5> QED BY <5>1, ConcatProperties
      <4> HIDE DEF all
      <4>2. Len(cut) = m /\ Len(rest) = n - 1
        BY <2>2, <2>3
      <4> QED BY <4>1, <4>2
    <3>3. DOMAIN all = 1..(m + (n - 1))
      BY <3>1, <3>2
    <3>4. ASSUME NEW k \in 1..(m + (n - 1))
          PROVE  all[k] = IF k <= m THEN cut[k] ELSE rest[k - m]
      BY <2>2, <2>3
    <3> QED BY <3>1, <3>2, <3>3, <3>4
  <2> HIDE DEF all, m, n
  <2>5. \A i \in 1..m : i \in 1..(m + (n - 1)) /\ all[i] = cut[i]
    BY <1>1, <2>4
  <2>6. \A k \in 1..(m + (n - 1)) : k \notin 1..m =>
          (k - m) \in 1..(n - 1) /\ all[k] = rest[k - m]
    BY <1>1, <2>4
  <2>7. \A i \in DOMAIN line : i = m \/ \E k \in DOMAIN all : all[k] = line[i]
    BY <1>1, <2>2, <2>4, <2>5
  <2>8. ASSUME NEW k \in DOMAIN all
        PROVE  \/ all[k] = Broken
               \/ \E i \in DOMAIN line : all[k] = line[i]
               \/ \E i \in DOMAIN text : all[k] = text[i]
    <3>1. CASE k \in 1..m
      BY <1>1, <2>2, <2>5, <3>1
    <3>2. CASE k \notin 1..m
      <4>1. (k - m) \in 1..(n - 1) /\ all[k] = rest[k - m]
        BY <2>4, <2>6, <3>2
      <4>2. all[k] = text[(k - m) + 1]
        BY <2>3, <4>1
      <4>3. \A j \in 1..(n - 1) : j + 1 \in 1..n
        BY <1>1
      <4> QED BY <1>1, <4>1, <4>2, <4>3
    <3> QED BY <3>1, <3>2
  <2>9. all[Len(all)] = Broken \/ all[Len(all)] = text[Len(text)]
    <3>1. CASE n = 1
      <4>1. m + (n - 1) = m /\ m \in 1..m
        BY <1>1, <2>2, <3>1
      <4> QED BY <2>2, <2>4, <2>5, <4>1
    <3>2. CASE n # 1
      <4>1. /\ m + (n - 1) \in 1..(m + (n - 1)) /\ m + (n - 1) \notin 1..m
            /\ (m + (n - 1)) - m = n - 1 /\ n - 1 \in 1..(n - 1) /\ (n - 1) + 1 = n
        BY <1>1, <3>2
      <4>2. all[m + (n - 1)] = rest[n - 1]
        BY <2>6, <4>1
      <4>3. rest[n - 1] = text[n]
        BY <2>3, <4>1
      <4> QED BY <2>4, <4>2, <4>3 DEF n
    <3> QED BY <3>1, <3>2
  <2>10. all # << >>
    BY <1>1, <2>2, <2>4
  <2>11. \A i \in DOMAIN line : (unended /\ i = Len(line)) \/ \E k \in DOMAIN all : all[k] = line[i]
    BY <1>3, <2>7 DEF m
  <2> QED BY <1>3, <2>1, <2>4, <2>8, <2>9, <2>10, <2>11
<1> QED BY <1>2, <1>3

(* Who sends, and the file after it: nothing that was read is lost but     *)
(* what the file ends with and what is merged with that.                   *)
LEMMA NotesInitInv == NotesInit => NotesIndInv
<1> SUFFICES ASSUME NotesInit PROVE NotesIndInv
  OBVIOUS
<1>1. /\ line = << >> /\ unended = FALSE /\ undecodable = FALSE
      /\ sent = {} /\ ingested = {} /\ torn = 0
  BY DEF NotesInit
<1>2. IsFiniteSet(sent)
  BY <1>1, FS_EmptySet
<1>3. Lost = {} /\ sent \ ingested = {}
  BY <1>1 DEF Lost
<1>4. Cardinality(Lost) = 0 /\ Cardinality(sent \ ingested) = 0
  BY <1>3, FS_EmptySet
<1>5. << >> \in Seq(Line) /\ DOMAIN << >> = {}
  OBVIOUS
<1>6. NotesTypeOK
  <2>1. torn \in 0 .. Cardinality(sent \ ingested)
    BY <1>1, <1>4
  <2>2. line \in Seq(Line)
    BY <1>1, <1>5
  <2> QED BY <1>1, <2>1, <2>2 DEF NotesTypeOK
<1>7. EndsTorn /\ RaisesExplained /\ LostCounted
  BY <1>1, <1>4, <1>5 DEF EndsTorn, RaisesExplained, LostCounted
<1> QED BY <1>2, <1>6, <1>7 DEF NotesIndInv

(* A note is read after an append if it was before and was answered.       *)
LEMMA StillRead ==
  ASSUME NotesIndInv, NEW text \in Seq(Line), Len(text) > 0, line' = Appended(text),
         NEW n \in ingested, Read(n)
  PROVE  Read(n)'
<1>1. /\ line \in Seq(Line) /\ unended \in BOOLEAN /\ (unended => line # << >>)
      /\ unended => line[Len(line)] # Record(n)
  BY DEF NotesIndInv, NotesTypeOK, EndsTorn
<1>2. PICK i \in DOMAIN line : line[i] = Record(n)
  BY DEF Read
<1>3. \E k \in DOMAIN Appended(text) : Appended(text)[k] = line[i]
  BY <1>1, <1>2, AppendedLines
<1> QED BY <1>2, <1>3 DEF Read

(* What an append of the lines of a note, or a part of them, does to what  *)
(* is explained.                                                           *)
LEMMA StillExplained ==
  ASSUME NotesIndInv, NEW n \in Note, NEW text \in Seq(Line), Len(text) > 0,
         line' = Appended(text), sent' = sent \cup {n},
         LinesOf(n, text),
         undecodable' => torn' > 0
  PROVE  RaisesExplained' /\ line' \in Seq(Line)
<1>1. /\ line \in Seq(Line) /\ unended \in BOOLEAN /\ (unended => line # << >>)
      /\ RaisesExplained
  BY DEF NotesIndInv, NotesTypeOK, EndsTorn
<1>2. /\ line' \in Seq(Line)
      /\ \A k \in DOMAIN line' :
           \/ line'[k] = Broken
           \/ \E i \in DOMAIN line : line'[k] = line[i]
           \/ \E i \in DOMAIN text : line'[k] = text[i]
  BY <1>1, AppendedLines
<1>3. ASSUME NEW k \in DOMAIN line', line'[k] = Scrap PROVE sent' \cap Scalar # {}
  BY <1>1, <1>2, <1>3, LinesDiffer DEF RaisesExplained, LinesOf
<1>4. ASSUME NEW k \in DOMAIN line', NEW m \in Note, line'[k] = Record(m) PROVE m \in sent'
  BY <1>1, <1>2, <1>4, LinesDiffer DEF RaisesExplained, LinesOf
<1> QED BY <1>2, <1>3, <1>4 DEF RaisesExplained

LEMMA LostFinite ==
  ASSUME NotesIndInv
  PROVE  /\ IsFiniteSet(ingested) /\ IsFiniteSet(Lost) /\ IsFiniteSet(sent \ ingested)
         /\ Cardinality(Lost) \in Nat /\ Cardinality(sent \ ingested) \in Nat
<1>1. IsFiniteSet(sent) /\ ingested \subseteq sent
  BY DEF NotesIndInv, NotesTypeOK
<1>2. Lost \subseteq sent /\ sent \ ingested \subseteq sent
  BY <1>1 DEF Lost
<1>3. IsFiniteSet(ingested) /\ IsFiniteSet(Lost) /\ IsFiniteSet(sent \ ingested)
  BY <1>1, <1>2, FS_Subset
<1> QED BY <1>3, FS_CardinalityType

LEMMA IngestNoteKeeps ==
  ASSUME NotesIndInv, NEW n \in Note, IngestNote(n)
  PROVE  NotesIndInv'
<1>1. /\ NotesTypeOK /\ IsFiniteSet(sent) /\ EndsTorn /\ RaisesExplained /\ LostCounted
      /\ n \notin sent /\ sent' = sent \cup {n} /\ ingested' = ingested \cup {n}
      /\ line' = Appended(Text(n)) /\ unended' = FALSE /\ undecodable' = undecodable /\ torn' = torn
  BY DEF NotesIndInv, IngestNote
<1>2. /\ Text(n) \in Seq(Line) /\ Len(Text(n)) > 0
      /\ LinesOf(n, Text(n))
      /\ n \notin Separated => Text(n) = <<Record(n)>>
  <2>1. Len(Text(n)) \in 1..3
    BY TextOf
  <2>2. Len(Text(n)) > 0
    BY <2>1
  <2> QED BY <2>2, TextOf
<1>3. undecodable' => torn' > 0
  BY <1>1 DEF RaisesExplained
<1>4. RaisesExplained' /\ line' \in Seq(Line)
  BY <1>1, <1>2, <1>3, StillExplained
<1>5. IsFiniteSet(sent')
  BY <1>1, FS_AddElement
<1>6. sent' \ ingested' = sent \ ingested
  BY <1>1 DEF NotesTypeOK
<1>7. NotesTypeOK'
  BY <1>1, <1>4, <1>6 DEF NotesTypeOK
<1>8. Lost' \subseteq Lost \cup {n}
  <2>1. ASSUME NEW m \in ingested, Read(m) PROVE Read(m)'
    BY <1>1, <1>2, <2>1, StillRead
  <2> QED BY <1>1, <2>1 DEF Lost
<1>9. ASSUME ~unended PROVE Lost' \subseteq Lost
  <2>1. CASE n \in Separated
    BY <1>1, <1>8, <2>1 DEF Lost
  <2>2. CASE n \notin Separated
    <3>1. Text(n) = <<Record(n)>> /\ 1 \in DOMAIN <<Record(n)>> /\ <<Record(n)>>[1] = Record(n)
      BY <1>2, <2>2
    <3>2. \E k \in DOMAIN Appended(Text(n)) : Appended(Text(n))[k] = Record(n)
      <4>1. \A i \in DOMAIN Text(n) : \E k \in DOMAIN Appended(Text(n)) : Appended(Text(n))[k] = Text(n)[i]
        BY <1>1, <1>2, <1>9, AppendedLines DEF NotesTypeOK
      <4> QED BY <3>1, <4>1
    <3>3. Read(n)'
      BY <1>1, <3>2 DEF Read
    <3> QED BY <1>8, <3>3 DEF Lost
  <2> QED BY <2>1, <2>2
<1>10. LostCounted'
  <2>1. IsFiniteSet(Lost) /\ Cardinality(Lost) \in Nat /\ torn \in Nat
    BY <1>1, LostFinite DEF NotesTypeOK
  <2>2. CASE ~unended
    <3>1. Cardinality(Lost') <= Cardinality(Lost) /\ Cardinality(Lost') \in Nat
      BY <1>9, <2>1, <2>2, FS_Subset, FS_CardinalityType
    <3> QED BY <1>1, <2>1, <3>1 DEF LostCounted
  <2>3. CASE unended
    <3>1. IsFiniteSet(Lost \cup {n}) /\ Cardinality(Lost \cup {n}) <= Cardinality(Lost) + 1
          /\ Cardinality(Lost \cup {n}) \in Nat
      <4>1. IsFiniteSet(Lost \cup {n})
        BY <2>1, FS_AddElement
      <4>2. Cardinality(Lost \cup {n}) = Cardinality(Lost) \/ Cardinality(Lost \cup {n}) = Cardinality(Lost) + 1
        BY <2>1, FS_AddElement
      <4> QED BY <2>1, <4>1, <4>2
    <3>2. Cardinality(Lost') <= Cardinality(Lost \cup {n}) /\ Cardinality(Lost') \in Nat
      BY <1>8, <3>1, FS_Subset, FS_CardinalityType
    <3> QED BY <1>1, <2>1, <2>3, <3>1, <3>2 DEF LostCounted
  <2> QED BY <2>2, <2>3
<1>11. EndsTorn'
  BY <1>1 DEF EndsTorn
<1> QED BY <1>4, <1>5, <1>7, <1>10, <1>11 DEF NotesIndInv

LEMMA AppendRaisesKeeps ==
  ASSUME NotesIndInv, NEW n \in Note, AppendRaises(n)
  PROVE  NotesIndInv'
<1>1. /\ NotesTypeOK /\ IsFiniteSet(sent) /\ EndsTorn /\ RaisesExplained /\ LostCounted
      /\ n \notin sent /\ sent' = sent \cup {n} /\ ingested' = ingested
      /\ unended' = TRUE /\ torn' = torn + 1
  BY DEF NotesIndInv, AppendRaises
<1>2. /\ Text(n) \in Seq(Line) /\ Len(Text(n)) \in Nat /\ DOMAIN Text(n) = 1..Len(Text(n))
      /\ LinesOf(n, Text(n))
  BY TextOf
<1>3. \E text \in Seq(Line) :
        /\ Len(text) > 0 /\ line' = Appended(text)
        /\ LinesOf(n, text)
  <2>1. PICK k \in DOMAIN Text(n) :
          \/ line' = Appended(SubSeq(Text(n), 1, k))
          \/ line' = Appended([SubSeq(Text(n), 1, k) EXCEPT ![k] = Broken])
    BY DEF AppendRaises
  <2> DEFINE whole == SubSeq(Text(n), 1, k)
             part == [whole EXCEPT ![k] = Broken]
  <2>2. k \in Nat /\ k >= 1 /\ k <= Len(Text(n)) /\ Broken \in Line
    BY <1>2, LineElements
  <2>3. /\ whole \in Seq(Line) /\ Len(whole) = k /\ DOMAIN whole = 1..k
        /\ \A i \in 1..k : whole[i] = Text(n)[i]
    BY <1>2, <2>2
  <2>4. \A i \in 1..k : i \in DOMAIN Text(n)
    BY <1>2, <2>2
  <2> HIDE DEF whole
  <2>5. part \in [1..k -> Line] /\ \A i \in 1..k : part[i] = whole[i] \/ part[i] = Broken
    BY <2>2, <2>3
  <2> HIDE DEF part
  <2>6. part \in Seq(Line) /\ DOMAIN part = 1..k
    BY <2>2, <2>5
  <2>7. Len(part) = k
    BY <2>2, <2>6
  <2>8. LinesOf(n, whole)
    BY <1>2, <2>3, <2>4 DEF LinesOf
  <2>9. LinesOf(n, part)
    <3> SUFFICES ASSUME NEW i \in DOMAIN part
                 PROVE  /\ part[i] = Scrap => n \in Scalar
                        /\ \A m : part[i] = Record(m) => m = n
      BY DEF LinesOf
    <3>1. i \in DOMAIN whole /\ (part[i] = whole[i] \/ part[i] = Broken)
      BY <2>3, <2>5, <2>6
    <3> QED BY <2>8, <3>1, LinesDiffer DEF LinesOf
  <2>10. Len(whole) > 0 /\ Len(part) > 0
    BY <2>2, <2>3, <2>7
  <2>11. line' = Appended(whole) \/ line' = Appended(part)
    BY <2>1 DEF whole, part
  <2> QED BY <2>3, <2>6, <2>8, <2>9, <2>10, <2>11
<1>4. PICK text \in Seq(Line) :
        /\ Len(text) > 0 /\ line' = Appended(text)
        /\ LinesOf(n, text)
  BY <1>3
<1>5. torn \in Nat /\ torn' > 0
  BY <1>1 DEF NotesTypeOK
<1>6. RaisesExplained' /\ line' \in Seq(Line)
  BY <1>1, <1>4, <1>5, StillExplained
<1>7. undecodable' \in BOOLEAN
  BY <1>1 DEF NotesTypeOK, AppendRaises
<1>8. IsFiniteSet(sent')
  BY <1>1, FS_AddElement
<1>9. Cardinality(sent' \ ingested') = Cardinality(sent \ ingested) + 1
  <2>1. sent' \ ingested' = (sent \ ingested) \cup {n} /\ n \notin sent \ ingested
    BY <1>1 DEF NotesTypeOK
  <2> QED BY <2>1, LostFinite, FS_AddElement
<1>10. NotesTypeOK'
  <2>1. torn' \in 0 .. Cardinality(sent' \ ingested')
    BY <1>1, <1>9, LostFinite DEF NotesTypeOK
  <2> QED BY <1>1, <1>6, <1>7, <2>1 DEF NotesTypeOK
<1>11. Lost' \subseteq Lost
  <2>1. ASSUME NEW m \in ingested, Read(m) PROVE Read(m)'
    BY <1>4, <2>1, StillRead
  <2> QED BY <1>1, <2>1 DEF Lost
<1>12. LostCounted'
  <2>1. IsFiniteSet(Lost) /\ Cardinality(Lost) \in Nat
    BY LostFinite
  <2>2. Cardinality(Lost') <= Cardinality(Lost) /\ Cardinality(Lost') \in Nat
    BY <1>11, <2>1, FS_Subset, FS_CardinalityType
  <2> QED BY <1>1, <1>5, <2>1, <2>2 DEF LostCounted
<1>13. EndsTorn'
  <2>1. /\ line' # << >>
        /\ line'[Len(line')] = Broken \/ line'[Len(line')] = text[Len(text)]
    BY <1>1, <1>4, AppendedLines DEF NotesTypeOK, EndsTorn
  <2>2. Len(text) \in DOMAIN text
    BY <1>4
  <2>3. ASSUME NEW m \in ingested' PROVE line'[Len(line')] # Record(m)
    <3>1. m # n
      BY <1>1 DEF NotesTypeOK
    <3> QED BY <1>4, <2>1, <2>2, <3>1, LinesDiffer DEF LinesOf
  <2> QED BY <2>1, <2>3 DEF EndsTorn
<1> QED BY <1>6, <1>8, <1>10, <1>12, <1>13 DEF NotesIndInv

LEMMA NotesStepInv == NotesIndInv /\ [NotesNext]_notesVars => NotesIndInv'
<1>1. ASSUME NotesIndInv, UNCHANGED notesVars PROVE NotesIndInv'
  BY <1>1 DEF NotesIndInv, notesVars, NotesTypeOK, EndsTorn, RaisesExplained, LostCounted, Lost, Read
<1> QED BY <1>1, IngestNoteKeeps, AppendRaisesKeeps DEF NotesNext

(* Each append cut off takes at most one note answered as ingested with    *)
(* it, and queries fail as a whole only after one or after a text with a   *)
(* value between separators.                                               *)
THEOREM NotesCorrect == NotesSpec => []NotesFound
<1>1. NotesIndInv => NotesFound
  BY DEF NotesIndInv, NotesFound, QueryRaises, RaisesExplained, LostCounted, Lost
<1> QED BY <1>1, NotesInitInv, NotesStepInv, PTL DEF NotesSpec

----------------------------------------------------------------------------
(* PlatformStartup: the server serves with all of its tables and never     *)
(* records the revision, for every list of entities.                       *)

StartupTypeOK ==
  /\ tables \subseteq AllTables
  /\ stamp \in {"absent", "empty", Baseline}
  /\ proc \in [Process -> [pc : {"down", "ensure", "upgrade", "again", "create", "serving"},
                           i : Nat \ {0}]]

(* Whoever creates tables has created those before the entity it is at.    *)
BehindAreMade ==
  \A p \in Process : proc[p].pc \in {"ensure", "again", "create"} =>
    \A k \in DOMAIN Entities : k < proc[p].i => Entities[k] \in tables
(* The server's upgrade begins with all tables, so it gets no further than *)
(* the first.                                                              *)
UpgradeIsLate ==
  /\ proc["server"].pc \in {"upgrade", "create", "serving"} => tables = AllTables
  /\ proc["server"].pc = "create" => proc["server"].i = 1
OnlyServerServes == proc["alembic"].pc \in {"down", "upgrade", "create"}
StampedIsWhole == stamp = Baseline => tables = AllTables
StartupIndInv ==
  StartupTypeOK /\ BehindAreMade /\ UpgradeIsLate /\ OnlyServerServes /\ StampedIsWhole

USE DEF Baseline, Process, Doing

LEMMA SomeEntity == /\ Len(Entities) \in Nat \ {0} /\ DOMAIN Entities = 1 .. Len(Entities)
                    /\ \A k \in 1 .. Len(Entities) : Entities[k] \in AllTables
  BY StartupEntities DEF AllTables

(* Past the last entity all of them are made.                              *)
LEMMA PastTheLast ==
  ASSUME StartupIndInv, NEW p \in Process, proc[p].pc \in {"ensure", "again", "create"},
         proc[p].i > Len(Entities)
  PROVE  tables = AllTables
<1>1. \A k \in DOMAIN Entities : Entities[k] \in tables
  BY SomeEntity DEF StartupIndInv, StartupTypeOK, BehindAreMade
<1> QED BY <1>1 DEF StartupIndInv, StartupTypeOK, AllTables

LEMMA StartupInitInv == StartupInit => StartupIndInv
  BY DEF StartupInit, StartupIndInv, StartupTypeOK, BehindAreMade, UpgradeIsLate, OnlyServerServes,
         StampedIsWhole

(* A process that goes to its first entity: nothing lies behind it.        *)
LEMMA EnterKeeps ==
  ASSUME StartupIndInv, NEW p \in Process,
         NEW pc \in {"down", "ensure", "upgrade", "again", "create", "serving"},
         Enter(p, pc), tables' = tables,
         stamp' \in {stamp, "empty"} \/ (stamp' = Baseline /\ tables = AllTables),
         p = "alembic" => pc \in {"down", "upgrade", "create"},
         p = "server" /\ pc \in {"upgrade", "create", "serving"} => tables = AllTables
  PROVE  StartupIndInv'
<1>1. /\ proc'[p] = [pc |-> pc, i |-> 1]
      /\ \A q \in Process \ {p} : proc'[q] = proc[q]
  BY DEF Enter, StartupIndInv, StartupTypeOK
<1>2. StartupTypeOK'
  BY DEF Enter, StartupIndInv, StartupTypeOK, AllTables
<1>3. BehindAreMade'
  BY <1>1, SomeEntity DEF StartupIndInv, BehindAreMade
<1>4. UpgradeIsLate'
  BY <1>1 DEF StartupIndInv, UpgradeIsLate, AllTables
<1>5. OnlyServerServes' /\ StampedIsWhole'
  BY <1>1 DEF StartupIndInv, OnlyServerServes, StampedIsWhole, AllTables
<1> QED BY <1>2, <1>3, <1>4, <1>5 DEF StartupIndInv

(* A process that makes the table of its entity and goes to the next.      *)
LEMMA MakeKeeps ==
  ASSUME StartupIndInv, NEW p \in Process, proc[p].pc \in {"ensure", "again", "create"},
         proc[p].i \in 1 .. Len(Entities), stamp' = stamp,
         tables' = tables \cup {Entities[proc[p].i]},
         proc' = [proc EXCEPT ![p].i = @ + 1],
         p = "server" => proc[p].pc # "create"
  PROVE  StartupIndInv'
<1>1. /\ proc'[p].pc = proc[p].pc /\ proc'[p].i = proc[p].i + 1
      /\ \A q \in Process \ {p} : proc'[q] = proc[q]
  BY DEF StartupIndInv, StartupTypeOK
<1>2. AllTables' = AllTables /\ tables' \subseteq AllTables /\ tables \subseteq tables'
  BY SomeEntity DEF StartupIndInv, StartupTypeOK, AllTables
<1>3. StartupTypeOK'
  BY <1>2 DEF StartupIndInv, StartupTypeOK
<1>4. BehindAreMade'
  <2> SUFFICES ASSUME NEW q \in Process, proc'[q].pc \in {"ensure", "again", "create"},
                      NEW k \in DOMAIN Entities, k < proc'[q].i
               PROVE  Entities[k] \in tables'
    BY DEF BehindAreMade
  <2>1. CASE q = p
    BY <1>1, <2>1, SomeEntity DEF StartupIndInv, StartupTypeOK, BehindAreMade
  <2>2. CASE q # p
    BY <1>1, <2>2 DEF StartupIndInv, BehindAreMade
  <2> QED BY <2>1, <2>2
<1>5. UpgradeIsLate'
  BY <1>1, <1>2 DEF StartupIndInv, UpgradeIsLate
<1>6. OnlyServerServes' /\ StampedIsWhole'
  BY <1>1, <1>2 DEF StartupIndInv, OnlyServerServes, StampedIsWhole
<1> QED BY <1>3, <1>4, <1>5, <1>6 DEF StartupIndInv

LEMMA EnsureKeeps ==
  ASSUME StartupIndInv, EnsureSchema("ensure", "upgrade") \/ EnsureSchema("again", "serving")
  PROVE  StartupIndInv'
<1>0. proc["server"].i \in Nat \ {0}
  BY DEF StartupIndInv, StartupTypeOK
<1>1. CASE proc["server"].i > Len(Entities)
  BY <1>1, PastTheLast, EnterKeeps DEF EnsureSchema
<1>2. CASE ~ proc["server"].i > Len(Entities)
  BY <1>0, <1>2, SomeEntity, MakeKeeps DEF EnsureSchema
<1> QED BY <1>1, <1>2

(* The server's first statement fails; the command line makes tables.      *)
LEMMA CreateKeeps ==
  ASSUME StartupIndInv, NEW p \in Process, CreateTable(p)
  PROVE  StartupIndInv'
<1>1. proc[p].i \in 1 .. Len(Entities) /\ Entities[proc[p].i] \in AllTables
  BY SomeEntity DEF CreateTable, StartupIndInv, StartupTypeOK
<1>2. CASE Entities[proc[p].i] \in tables
  BY <1>2, EnterKeeps DEF CreateTable, Raise
<1>3. CASE Entities[proc[p].i] \notin tables
  <2>1. p # "server"
    BY <1>1, <1>3 DEF CreateTable, StartupIndInv, UpgradeIsLate
  <2> QED BY <1>1, <1>3, <2>1, MakeKeeps DEF CreateTable
<1> QED BY <1>2, <1>3

LEMMA UpgradeKeeps ==
  ASSUME StartupIndInv, NEW p \in Process,
         Upgrade(p) \/ StampBaseline(p) \/ UpgradeRaises(p) \/ Die(p)
  PROVE  StartupIndInv'
<1>1. CASE Upgrade(p)
  <2>1. CASE stamp = Baseline
    BY <1>1, <2>1, EnterKeeps DEF Upgrade, Finished, StartupIndInv, UpgradeIsLate
  <2>2. CASE stamp # Baseline
    BY <1>1, <2>2, EnterKeeps DEF Upgrade, StartupIndInv, UpgradeIsLate
  <2> QED BY <2>1, <2>2
<1>2. CASE StampBaseline(p)
  BY <1>2, PastTheLast, EnterKeeps DEF StampBaseline, Finished
<1>3. CASE UpgradeRaises(p)
  BY <1>3, EnterKeeps DEF UpgradeRaises, Raise
<1>4. CASE Die(p)
  BY <1>4, EnterKeeps DEF Die
<1> QED BY <1>1, <1>2, <1>3, <1>4

LEMMA BeginStartupKeeps ==
  ASSUME StartupIndInv, Lifespan \/ CommandLine
  PROVE  StartupIndInv'
  BY EnterKeeps DEF Lifespan, CommandLine

LEMMA StartupNextKeeps == StartupIndInv /\ [StartupNext]_startupVars => StartupIndInv'
<1> SUFFICES ASSUME StartupIndInv, [StartupNext]_startupVars PROVE StartupIndInv'
  OBVIOUS
<1>1. CASE UNCHANGED startupVars
  BY <1>1 DEF startupVars, StartupIndInv, StartupTypeOK, BehindAreMade, UpgradeIsLate,
              OnlyServerServes, StampedIsWhole, AllTables
<1>2. CASE StartupNext
  BY <1>2, BeginStartupKeeps, EnsureKeeps, CreateKeeps, UpgradeKeeps DEF StartupNext
<1> QED BY <1>1, <1>2

LEMMA Invariant == StartupSpec => []StartupIndInv
  BY StartupInitInv, StartupNextKeeps, PTL DEF StartupSpec

(* Whatever was killed or failed before, a server that serves has every    *)
(* table, and so has a database whose revision is recorded.                *)
THEOREM ServingIsWhole == StartupSpec => []ServingHasTables
<1>1. StartupIndInv => ServingHasTables
  BY DEF StartupIndInv, UpgradeIsLate, StampedIsWhole, ServingHasTables
<1> QED BY Invariant, <1>1, PTL

(* Only a command line ever records the revision.                          *)
THEOREM NeverStamps == StartupSpec => ServerNeverStamps
<1> DEFINE Stamps == stamp' = Baseline /\ stamp # Baseline
           ByCommandLine == Doing("alembic", "create") /\ ~ Doing("alembic", "create")'
<1>1. ASSUME StartupIndInv, StartupNext, Stamps
      PROVE  ByCommandLine
  <2>1. PICK p \in Process : StampBaseline(p)
    BY <1>1 DEF StartupNext, Lifespan, CommandLine, EnsureSchema, Upgrade, CreateTable,
                UpgradeRaises, Die
  <2>2. p # "server"
    BY <1>1, <2>1, SomeEntity DEF StampBaseline, StartupIndInv, StartupTypeOK, UpgradeIsLate
  <2>3. p = "alembic" /\ Enter(p, "down")
    BY <2>1, <2>2 DEF StampBaseline, Finished
  <2>4. proc'[p].pc = "down"
    BY <1>1, <2>3 DEF Enter, StartupIndInv, StartupTypeOK
  <2> QED BY <2>1, <2>3, <2>4 DEF StampBaseline
<1>2. StartupIndInv /\ [StartupNext]_startupVars => [Stamps => ByCommandLine]_startupVars
  BY <1>1
<1> QED BY Invariant, <1>2, PTL DEF StartupSpec, ServerNeverStamps

----------------------------------------------------------------------------
(* StewardSchema: the database is what its recorded revision says and a    *)
(* server that was called ready stays so, for every number of upgrades,    *)
(* every earlier release and every configuration.                          *)

Under == [pc : {"running"}, at : 0 .. Latest, from : 0 .. Latest - 1,
          made : SUBSET Parts, money : {"same", "numeric"}]
Rest == [pc : {"new", "done", "failed"}]

SchemaTypeOK ==
  /\ schema \in Schema
  /\ profile \in Profile
  /\ wasReady \in BOOLEAN
  /\ upgrade \in [Runner -> Under \cup Rest]

(* What the schema would be if r committed now.                            *)
Would(r) == [revision |-> upgrade[r].at, parts |-> schema.parts \cup upgrade[r].made,
             money |-> IF upgrade[r].money = "same" THEN schema.money ELSE upgrade[r].money]

(* Whoever began at the revision that is still recorded is on its way to   *)
(* the schema of the revision it has reached.  A commit records the head,  *)
(* so nobody else's was between.                                           *)
OnItsWay ==
  \A r \in Runner : Running(r) /\ schema.revision = upgrade[r].from =>
    IsItsRevision(Would(r))
ReadyIsHead ==
  wasReady => schema.revision = Latest /\ ~profile.bypass /\ ~profile.admin
SchemaIndInv == SchemaTypeOK /\ IsItsRevision(schema) /\ OnItsWay /\ ReadyIsHead

USE DEF Latest, Parts, Running, Rest, Under

LEMMA RecordOfRunner ==
  ASSUME SchemaTypeOK, NEW r \in Runner
  PROVE  /\ Running(r) => upgrade[r] \in Under
         /\ ~Running(r) => upgrade[r] \in Rest
  BY DEF SchemaTypeOK

LEMMA SchemaInitInv == SchemaInit => SchemaIndInv
<1> SUFFICES ASSUME SchemaInit PROVE SchemaIndInv
  OBVIOUS
<1>1. SchemaTypeOK /\ IsItsRevision(schema) /\ \A r \in Runner : ~Running(r)
  BY SchemaReleases DEF SchemaInit, SchemaTypeOK, NotRun
<1> QED BY <1>1 DEF SchemaInit, SchemaIndInv, OnItsWay, ReadyIsHead

(* A step of one runner that leaves the schema alone.                      *)
LEMMA RunnerKeeps ==
  ASSUME SchemaIndInv, NEW r \in Runner, NEW u \in Under \cup Rest,
         upgrade' = [upgrade EXCEPT ![r] = u], UNCHANGED <<schema, profile, wasReady>>,
         u.pc = "running" /\ schema.revision = u.from =>
           IsItsRevision([revision |-> u.at, parts |-> schema.parts \cup u.made,
                          money |-> IF u.money = "same" THEN schema.money ELSE u.money])
  PROVE  SchemaIndInv'
<1>1. SchemaTypeOK'
  BY DEF SchemaIndInv, SchemaTypeOK
<1>2. upgrade'[r] = u /\ \A q \in Runner \ {r} : upgrade'[q] = upgrade[q]
  BY DEF SchemaIndInv, SchemaTypeOK
<1>3. OnItsWay'
  BY <1>2 DEF SchemaIndInv, OnItsWay, Would, IsItsRevision
<1> QED BY <1>1, <1>3 DEF SchemaIndInv, ReadyIsHead, IsItsRevision

LEMMA BeginUpgradeKeeps ==
  ASSUME SchemaIndInv, NEW r \in Runner, RunMigrations(r)
  PROVE  SchemaIndInv'
<1>1. CASE schema.revision = Latest
  <2>1. [pc |-> "done"] \in Under \cup Rest /\ [pc |-> "done"].pc # "running"
    OBVIOUS
  <2> QED BY <1>1, <2>1, RunnerKeeps DEF RunMigrations
<1>2. CASE schema.revision # Latest
  <2> DEFINE u == [pc |-> "running", at |-> schema.revision, from |-> schema.revision,
                   made |-> {}, money |-> "same"]
  <2>1. u \in Under \cup Rest
    BY <1>2 DEF SchemaIndInv, SchemaTypeOK, Schema
  <2>2. IsItsRevision([revision |-> u.at, parts |-> schema.parts \cup u.made,
                       money |-> IF u.money = "same" THEN schema.money ELSE u.money])
    BY <1>2 DEF SchemaIndInv, SchemaTypeOK, Schema, IsItsRevision
  <2>3. upgrade' = [upgrade EXCEPT ![r] = u] /\ UNCHANGED <<schema, profile, wasReady>>
    BY <1>2 DEF RunMigrations
  <2> HIDE DEF u
  <2> QED BY <2>1, <2>2, <2>3, RunnerKeeps
<1> QED BY <1>1, <1>2

(* Each revision creates what is missing of its release.                   *)
LEMMA ReviseKeeps ==
  ASSUME SchemaIndInv, NEW r \in Runner, Revise(r)
  PROVE  SchemaIndInv'
<1> DEFINE step == upgrade[r].at + 1
           missing == Creates(step) \ (schema.parts \cup upgrade[r].made)
           money == IF "knowledge" \in missing \/ step = 3 THEN "numeric" ELSE upgrade[r].money
           u == [pc |-> "running", at |-> step, from |-> upgrade[r].from,
                 made |-> upgrade[r].made \cup missing, money |-> money]
<1>1. upgrade[r] \in Under /\ upgrade[r].at \in 0 .. Latest - 1
  BY RecordOfRunner DEF Revise, SchemaIndInv
<1>2. step \in 1 .. Latest /\ missing \subseteq Parts /\ money \in {"same", "numeric"}
  BY <1>1 DEF Creates
<1>3. u \in Under
  BY <1>1, <1>2
<1>4. ASSUME schema.revision = u.from
      PROVE  IsItsRevision([revision |-> u.at, parts |-> schema.parts \cup u.made,
                            money |-> IF u.money = "same" THEN schema.money ELSE u.money])
  <2>1. IsItsRevision(Would(r))
    BY <1>4 DEF Revise, SchemaIndInv, OnItsWay
  <2>2. /\ upgrade[r].at >= 1 => "knowledge" \in schema.parts \cup upgrade[r].made
        /\ upgrade[r].at >= 2 => "auth" \in schema.parts \cup upgrade[r].made
    BY <2>1 DEF Would, IsItsRevision
  <2>3. Creates(step) \subseteq schema.parts \cup u.made
    OBVIOUS
  <2>4. /\ step >= 1 => "knowledge" \in schema.parts \cup u.made
        /\ step >= 2 => "auth" \in schema.parts \cup u.made
        /\ step = 3 => "audit" \in schema.parts \cup u.made
    BY <1>1, <2>2, <2>3 DEF Creates
  <2>5. step = 3 => u.money = "numeric"
    OBVIOUS
  <2>6. schema.parts \cup u.made \subseteq Parts
    BY <1>1, <1>2 DEF SchemaIndInv, SchemaTypeOK, Schema
  <2>7. u.at = step
    OBVIOUS
  <2> HIDE DEF step, u
  <2> QED BY <2>4, <2>5, <2>6, <2>7, <1>2 DEF IsItsRevision
<1>5. upgrade' = [upgrade EXCEPT ![r] = u] /\ UNCHANGED <<schema, profile, wasReady>>
  <2>1. /\ DOMAIN upgrade' = Runner /\ \A q \in Runner \ {r} : upgrade'[q] = upgrade[q]
        /\ upgrade' = [q \in Runner |-> upgrade'[q]]
    BY DEF Revise, SchemaIndInv, SchemaTypeOK
  <2>2. upgrade'[r] = [upgrade[r] EXCEPT !.at = step, !.made = @ \cup missing, !.money = money]
    BY DEF Revise, SchemaIndInv, SchemaTypeOK
  <2>3. upgrade'[r] = u
    <3> HIDE DEF step, missing, money
    <3> QED BY <1>1, <2>2
  <2>4. upgrade' = [upgrade EXCEPT ![r] = u]
    <3> HIDE DEF u
    <3> QED BY <2>1, <2>3 DEF SchemaIndInv, SchemaTypeOK
  <2> QED BY <2>4 DEF Revise
<1> HIDE DEF u
<1> QED BY <1>3, <1>4, <1>5, RunnerKeeps

(* Only a commit changes the schema, and only to the head.                 *)
LEMMA CommitUpgradeKeeps ==
  ASSUME SchemaIndInv, NEW r \in Runner, CommitUpgrade(r)
  PROVE  SchemaIndInv'
<1>1. [pc |-> "failed"] \in Under \cup Rest /\ [pc |-> "failed"].pc # "running"
      /\ [pc |-> "done"] \in Rest /\ [pc |-> "done"].pc # "running"
  OBVIOUS
<1>2. CASE schema.revision # upgrade[r].from
  BY <1>1, <1>2, RunnerKeeps DEF CommitUpgrade
<1>3. CASE schema.revision = upgrade[r].from
  <2>1. upgrade[r] \in Under /\ upgrade[r].at = Latest
    BY RecordOfRunner DEF CommitUpgrade, SchemaIndInv
  <2>2. schema' = Would(r) /\ upgrade' = [upgrade EXCEPT ![r] = [pc |-> "done"]]
        /\ UNCHANGED <<profile, wasReady>>
    BY <1>3, <2>1 DEF CommitUpgrade, Would
  <2>3. schema'.revision = Latest /\ schema' \in Schema
    BY <2>1, <2>2 DEF Would, SchemaIndInv, SchemaTypeOK, Schema
  <2>4. IsItsRevision(schema')
    BY <1>3, <2>2 DEF CommitUpgrade, SchemaIndInv, OnItsWay
  <2>5. SchemaTypeOK'
    BY <1>1, <2>2, <2>3 DEF SchemaIndInv, SchemaTypeOK
  <2>6. OnItsWay'
    <3> SUFFICES ASSUME NEW q \in Runner, Running(q)'
                 PROVE  schema'.revision # upgrade'[q].from
      BY DEF OnItsWay
    <3>1. q # r /\ upgrade'[q] = upgrade[q]
      BY <1>1, <2>2 DEF SchemaIndInv, SchemaTypeOK
    <3> QED BY <2>3, <3>1, RecordOfRunner DEF SchemaIndInv
  <2>7. ReadyIsHead'
    BY <2>2, <2>3 DEF SchemaIndInv, ReadyIsHead
  <2> QED BY <2>4, <2>5, <2>6, <2>7 DEF SchemaIndInv, IsItsRevision
<1> QED BY <1>2, <1>3

LEMMA ProbesKeep ==
  ASSUME SchemaIndInv, \/ \E r \in Runner : AbortUpgrade(r) \/ RunAgain(r)
                 \/ Probe \/ Reconfigure
  PROVE  SchemaIndInv'
<1>1. ASSUME NEW r \in Runner, AbortUpgrade(r) \/ RunAgain(r)
      PROVE  SchemaIndInv'
  <2>1. \A pc \in {"new", "failed"} : [pc |-> pc] \in Under \cup Rest /\ [pc |-> pc].pc # "running"
    OBVIOUS
  <2> QED BY <1>1, <2>1, RunnerKeeps DEF AbortUpgrade, RunAgain, NotRun
<1>2. CASE Probe
  BY <1>2 DEF Probe, ReadinessChecks, SchemaIndInv, SchemaTypeOK, OnItsWay, Would, ReadyIsHead,
              IsItsRevision
<1>3. CASE Reconfigure
  BY <1>3 DEF Reconfigure, SchemaIndInv, SchemaTypeOK, OnItsWay, Would, ReadyIsHead, IsItsRevision
<1> QED BY <1>1, <1>2, <1>3

LEMMA SchemaNextKeeps == SchemaIndInv /\ [SchemaNext]_schemaVars => SchemaIndInv'
<1> SUFFICES ASSUME SchemaIndInv, [SchemaNext]_schemaVars PROVE SchemaIndInv'
  OBVIOUS
<1>1. CASE UNCHANGED schemaVars
  BY <1>1 DEF schemaVars, SchemaIndInv, SchemaTypeOK, OnItsWay, Would, ReadyIsHead, IsItsRevision
<1>2. CASE SchemaNext
  BY <1>2, BeginUpgradeKeeps, ReviseKeeps, CommitUpgradeKeeps, ProbesKeep DEF SchemaNext
<1> QED BY <1>1, <1>2

(* However many upgrades run side by side, abort or are repeated: the      *)
(* recorded revision is what the tables are, and once the probe has said   *)
(* ready under a configuration, the tables of a request are there.         *)
THEOREM SchemaIsRecorded == SchemaSpec => []SchemaInv
<1>1. SchemaIndInv => SchemaInv
  BY DEF SchemaIndInv, SchemaTypeOK, ReadyIsHead, IsItsRevision, SchemaInv, ReadyStaysReady
<1> QED BY SchemaInitInv, SchemaNextKeeps, <1>1, PTL DEF SchemaSpec
=============================================================================
