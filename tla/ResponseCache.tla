--------------------------- MODULE ResponseCache ---------------------------
(***************************************************************************)
(* The cache of GET answers (backend/src/middleware/cache.ts) between the  *)
(* readers it serves and the vault operations that invalidate it           *)
(* (vaultEndpoints.ts).  The data is a version number: a vault operation   *)
(* invalidates, changes the data, and invalidates again if it succeeds.    *)
(* A reader that misses computes its answer across awaits and stores it    *)
(* when it answers.  Its key is the path below the router that answers it, *)
(* and the patterns name whole paths: they match the keys of routes that   *)
(* the application declares itself, and no key of a mounted router.        *)
(***************************************************************************)
EXTENDS Naturals, FiniteSets

CONSTANTS CacheKeys, CacheReads, CacheWrites,
          Matched,       \* the keys that the operations' patterns match
          CacheMax,      \* CACHE_MAX_ENTRIES
          CacheTtl,      \* ttl
          CacheMaxTime   \* bound: ticks of the clock

ASSUME CacheAssumption ==
    /\ CacheMax \in Nat \ {0} /\ CacheTtl \in Nat \ {0} /\ Matched \subseteq CacheKeys
    /\ CacheMaxTime \in Nat /\ IsFiniteSet(CacheWrites)

VARIABLES
    cacheNow,
    cacheStore,   \* the Map: key -> [version, expiresAt, lastUsed, raced]
    cacheReads,   \* GET requests that missed: read -> [key, version or 0]
    cacheWrites,  \* vault operations: write -> "todo", "begun", the version it
                  \* has written, or "done"
    dataVersion,  \* the data as it is
    cleaned,      \* history: version -> when its operation succeeded
    unclean       \* history: versions of operations that failed after writing

cacheVars == <<cacheNow, cacheStore, cacheReads, cacheWrites, dataVersion, cleaned, unclean>>
writeHistory == <<cleaned, unclean>>

CacheEntry ==
    [version: 1..(1 + Cardinality(CacheWrites)), expiresAt: 0..(CacheMaxTime + CacheTtl),
     lastUsed: 0..CacheMaxTime, raced: BOOLEAN]

CacheTypeOK ==
    /\ cacheNow \in 0..CacheMaxTime /\ DOMAIN cacheStore \subseteq CacheKeys
    /\ Cardinality(DOMAIN cacheStore) <= CacheMax
    /\ \A k \in DOMAIN cacheStore : cacheStore[k] \in CacheEntry
    /\ DOMAIN cacheReads \subseteq CacheReads
    /\ DOMAIN cacheWrites = CacheWrites
    /\ dataVersion \in 1..(1 + Cardinality(CacheWrites))
    /\ DOMAIN cleaned \cap unclean = {}
    /\ \A v \in DOMAIN cleaned : cleaned[v] \in 0..cacheNow

CacheInit ==
    /\ cacheNow = 0 /\ cacheStore = << >> /\ cacheReads = << >>
    /\ cacheWrites = [w \in CacheWrites |-> <<"todo">>]
    /\ dataVersion = 1 /\ cleaned = << >> /\ unclean = {}

-----------------------------------------------------------------------------
\* A look-up counts as a use even when the entry has expired.
cacheGet(key) ==
    [k \in DOMAIN cacheStore |->
        IF k = key THEN [cacheStore[k] EXCEPT !.lastUsed = cacheNow] ELSE cacheStore[k]]

Hit(key) == key \in DOMAIN cacheStore /\ cacheStore[key].expiresAt > cacheNow

\* The keys one of which may go: of entries used in the same tick, which is
\* longer than a millisecond, it may be any.
evictLru ==
    {k \in DOMAIN cacheStore :
        \A j \in DOMAIN cacheStore : cacheStore[k].lastUsed <= cacheStore[j].lastUsed}

\* What the map is without the entry that makes room for key, if there has to be room.
Room(key) ==
    IF key \in DOMAIN cacheStore \/ Cardinality(DOMAIN cacheStore) < CacheMax
      THEN {DOMAIN cacheStore} ELSE {DOMAIN cacheStore \ {old} : old \in evictLru}

cacheSet(key, e) ==
    \E kept \in Room(key) :
        cacheStore' = [k \in kept \cup {key} |-> IF k = key THEN e ELSE cacheStore[k]]

\* A GET that is answered from the cache, and one that goes on to its handler.
cacheHit(key) ==
    /\ Hit(key) /\ cacheStore' = cacheGet(key)
    /\ UNCHANGED <<cacheNow, cacheReads, cacheWrites, dataVersion, writeHistory>>

cacheMiss(r, key) ==
    /\ r \notin DOMAIN cacheReads /\ ~Hit(key)
    /\ cacheStore' = cacheGet(key)
    /\ cacheReads' = [s \in DOMAIN cacheReads \cup {r} |->
                         IF s = r THEN [key |-> key, version |-> 0] ELSE cacheReads[s]]
    /\ UNCHANGED <<cacheNow, cacheWrites, dataVersion, writeHistory>>

handlerReads(r) ==
    /\ r \in DOMAIN cacheReads /\ cacheReads[r].version = 0
    /\ cacheReads' = [cacheReads EXCEPT ![r].version = dataVersion]
    /\ UNCHANGED <<cacheNow, cacheStore, cacheWrites, dataVersion, writeHistory>>

Writing == \E w \in CacheWrites : cacheWrites[w] \notin {<<"todo">>, <<"done">>}

\* The handler answers: a success is stored, an error is not.
responseJson(r, ok) ==
    /\ r \in DOMAIN cacheReads /\ cacheReads[r].version # 0
    /\ IF ok THEN cacheSet(cacheReads[r].key,
                           [version |-> cacheReads[r].version,
                            expiresAt |-> cacheNow + CacheTtl, lastUsed |-> cacheNow,
                            raced |-> \E v \in DOMAIN cleaned : v > cacheReads[r].version])
             ELSE UNCHANGED cacheStore
    /\ cacheReads' = [s \in DOMAIN cacheReads \ {r} |-> cacheReads[s]]
    /\ UNCHANGED <<cacheNow, cacheWrites, dataVersion, writeHistory>>

\* Mutant: nothing is removed.
invalidateCache_never(keys) == cacheStore

\* The keys a pattern matches, or all of them.
invalidateCache(keys) == [k \in DOMAIN cacheStore \ keys |-> cacheStore[k]]

invalidateReadCaches(w) ==
    /\ cacheWrites[w] = <<"todo">>
    /\ cacheWrites' = [cacheWrites EXCEPT ![w] = <<"begun">>]
    /\ cacheStore' = invalidateCache(Matched)
    /\ UNCHANGED <<cacheNow, cacheReads, dataVersion, writeHistory>>

\* The operation's row is in the database.
operationWrites(w) ==
    /\ cacheWrites[w] = <<"begun">>
    /\ cacheWrites' = [cacheWrites EXCEPT ![w] = <<"written", dataVersion + 1>>]
    /\ dataVersion' = dataVersion + 1
    /\ UNCHANGED <<cacheNow, cacheStore, cacheReads, writeHistory>>

\* The rest of the operation succeeds, and the caches are invalidated, or it
\* fails, before its row or after, and they are not.
operationSucceeds(w) ==
    /\ cacheWrites[w][1] = "written"
    /\ cacheWrites' = [cacheWrites EXCEPT ![w] = <<"done">>]
    /\ cacheStore' = invalidateCache(Matched)
    /\ cleaned' = [v \in DOMAIN cleaned \cup {cacheWrites[w][2]} |->
                     IF v = cacheWrites[w][2] THEN cacheNow ELSE cleaned[v]]
    /\ UNCHANGED <<cacheNow, cacheReads, dataVersion, unclean>>

operationFails(w) ==
    /\ cacheWrites[w][1] \in {"begun", "written"}
    /\ cacheWrites' = [cacheWrites EXCEPT ![w] = <<"done">>]
    /\ unclean' = IF cacheWrites[w][1] = "begun" THEN unclean
                                                ELSE unclean \cup {cacheWrites[w][2]}
    /\ UNCHANGED <<cacheNow, cacheStore, cacheReads, dataVersion, cleaned>>

\* The administrator's routes: by pattern, or everything.
deleteAdminCache(keys) ==
    /\ cacheStore' = invalidateCache(keys) /\ cacheStore' # cacheStore
    /\ UNCHANGED <<cacheNow, cacheReads, cacheWrites, dataVersion, writeHistory>>

cacheTick ==
    /\ cacheNow < CacheMaxTime /\ cacheNow' = cacheNow + 1
    /\ UNCHANGED <<cacheStore, cacheReads, cacheWrites, dataVersion, writeHistory>>

CacheNext ==
    \/ \E r \in CacheReads : \/ \E key \in CacheKeys : cacheMiss(r, key)
                             \/ handlerReads(r) \/ \E ok \in BOOLEAN : responseJson(r, ok)
    \/ \E key \in CacheKeys : cacheHit(key)
    \/ \E w \in CacheWrites : \/ invalidateReadCaches(w) \/ operationWrites(w)
                              \/ operationSucceeds(w) \/ operationFails(w)
    \/ \E keys \in SUBSET CacheKeys : deleteAdminCache(keys)
    \/ cacheTick

-----------------------------------------------------------------------------
(* Properties. *)

\* Two invalidations bracket a vault operation.  Once no operation is under
\* way, a cached answer older than the data is one of three: an answer computed
\* before a write and stored after its last invalidation; one left by an
\* operation that failed after its row was written; or one of a mounted router,
\* which no operation invalidates and which its time to live alone ends: it is
\* not served longer than that after the operation it misses has succeeded.
StaleIsExplained ==
    ~Writing => \A k \in DOMAIN cacheStore :
        LET e == cacheStore[k]
        IN e.version < dataVersion =>
             \/ e.raced
             \/ \E v \in unclean : v > e.version
             \/ /\ k \notin Matched
                /\ \A v \in DOMAIN cleaned :
                     v > e.version => e.expiresAt <= cleaned[v] + CacheTtl
=============================================================================
