---------------------------- MODULE ConsoleProofs ----------------------------
(***************************************************************************)
(* Theorems about the server's handlers around the vault operations, for   *)
(* any number of administrators, keys, sessions, requests and changes.     *)
(* Each is about Spec of MCConsole; every part is proved about on its own, *)
(* since a step of another leaves it alone.                                *)
(***************************************************************************)
EXTENDS MCConsole, Sums, SequenceTheorems

LEMMA PartsRun ==
    [Next]_vars =>
        /\ [ImpNext]_impVars /\ [KeyNext]_keyVars /\ [AdNext]_adVars
        /\ [PipeNext]_pipeVars /\ [CacheNext]_cacheVars
        /\ [LimNext]_limVars /\ [NonceNext]_nonceAll
        /\ [ExportNext]_exportVars /\ [CodesNext \/ YieldNext]_refVars
        /\ [ListNext]_listVars /\ [PageNext]_pageVars /\ [DlNext]_dlVars
  BY DEF Next, vars, OnNonces, OnImpersonation, OnKeys, OnChanges, OnLimits, OnPipeline, OnLists,
     OnPages, OnReferrals, OnExports, OnCache, OnDeliveries

-----------------------------------------------------------------------------
(* The response cache *)

\* An operation under way that has written version v.
WrittenBy(w, v) == cacheWrites[w] = <<"written", v>>

\* Where an operation may be.
WriteStates == {<<"todo">>, <<"begun">>, <<"done">>} \cup {<<"written", v>> : v \in Nat}

\* What an answer older than an operation that has succeeded may still be.
Excused(k, v) ==
    v > cacheStore[k].version =>
        \/ cacheStore[k].raced
        \/ k \notin Matched /\ cacheStore[k].expiresAt <= cleaned[v] + CacheTtl

\* Every version after the first is of an operation under way, of one that has
\* succeeded, or of one that failed after its row; and an answer that was in
\* the cache when one succeeded is gone, or is of a mounted router and on its
\* time to live.
RInv ==
    /\ dataVersion \in Nat \ {0} /\ cacheWrites \in [CacheWrites -> WriteStates]
    /\ cacheNow \in Nat /\ \A v \in DOMAIN cleaned : cleaned[v] \in Nat /\ cleaned[v] <= cacheNow
    /\ \A v \in 2..dataVersion :
          v \in DOMAIN cleaned \cup unclean \/ \E w \in CacheWrites : WrittenBy(w, v)
    /\ DOMAIN cacheStore \subseteq CacheKeys
    /\ \A k \in DOMAIN cacheStore :
          /\ cacheStore[k].version \in Nat \ {0}
          /\ cacheStore[k].expiresAt \in Nat /\ cacheStore[k].expiresAt <= cacheNow + CacheTtl
    /\ \A k \in DOMAIN cacheStore, v \in DOMAIN cleaned : Excused(k, v)
    /\ \A r \in DOMAIN cacheReads :
          cacheReads[r].key \in CacheKeys /\ cacheReads[r].version \in Nat

LEMMA RInvInit == CacheInit => RInv
  BY DEF CacheInit, RInv, WriteStates, Excused

\* The store loses entries, or the clock marks one as used.
LEMMA StoreShrinks ==
    ASSUME RInv, DOMAIN cacheStore' \subseteq DOMAIN cacheStore,
           \A k \in DOMAIN cacheStore' : /\ cacheStore'[k].version = cacheStore[k].version
                                         /\ cacheStore'[k].raced = cacheStore[k].raced
                                         /\ cacheStore'[k].expiresAt = cacheStore[k].expiresAt,
           cacheNow' \in Nat, cacheNow <= cacheNow',
           UNCHANGED <<dataVersion, cacheWrites, cleaned, unclean>>,
           \A r \in DOMAIN cacheReads' :
               cacheReads'[r].key \in CacheKeys /\ cacheReads'[r].version \in Nat
    PROVE  RInv'
  <1>1. \A v \in DOMAIN cleaned' : cleaned'[v] \in Nat /\ cleaned'[v] <= cacheNow'
    BY DEF RInv
  <1>2. \A k \in DOMAIN cacheStore' :
            /\ cacheStore'[k].version \in Nat \ {0}
            /\ cacheStore'[k].expiresAt \in Nat /\ cacheStore'[k].expiresAt <= cacheNow' + CacheTtl
    BY CacheAssumption DEF RInv
  <1>3. \A k \in DOMAIN cacheStore', v \in DOMAIN cleaned' : Excused(k, v)'
    BY DEF RInv, Excused
  <1> QED
    BY <1>1, <1>2, <1>3 DEF RInv, WrittenBy

LEMMA CacheLookup ==
    ASSUME RInv, NEW key \in CacheKeys, cacheStore' = cacheGet(key)
    PROVE  /\ DOMAIN cacheStore' = DOMAIN cacheStore
           /\ \A k \in DOMAIN cacheStore' : /\ cacheStore'[k].version = cacheStore[k].version
                                            /\ cacheStore'[k].raced = cacheStore[k].raced
                                            /\ cacheStore'[k].expiresAt = cacheStore[k].expiresAt
  BY DEF cacheGet

LEMMA ResponseStored ==
    ASSUME RInv, NEW r \in CacheReads, NEW ok \in BOOLEAN, responseJson(r, ok)
    PROVE  RInv'
  <1> DEFINE x == cacheReads[r]
             raced == \E v \in DOMAIN cleaned : v > x.version
             e == [version |-> x.version, expiresAt |-> cacheNow + CacheTtl,
                   lastUsed |-> cacheNow, raced |-> raced]
  <1>1. /\ r \in DOMAIN cacheReads /\ x.version # 0
        /\ cacheReads' = [s \in DOMAIN cacheReads \ {r} |-> cacheReads[s]]
        /\ UNCHANGED <<cacheNow, dataVersion, cacheWrites, cleaned, unclean>>
    BY DEF responseJson, writeHistory
  <1>2. \A s \in DOMAIN cacheReads' :
            cacheReads'[s].key \in CacheKeys /\ cacheReads'[s].version \in Nat
    BY <1>1 DEF RInv
  <1>3. CASE ok
    <2>1. cacheSet(x.key, e)
      BY <1>3 DEF responseJson
    <2>2. x.key \in CacheKeys /\ x.version \in Nat \ {0}
      BY <1>1 DEF RInv
    <2>3. /\ e.version = x.version /\ e.raced = raced
          /\ e.expiresAt = cacheNow + CacheTtl /\ cacheNow + CacheTtl \in Nat
      BY CacheAssumption DEF RInv
    <2>4. \A v \in DOMAIN cleaned : v > x.version => raced
      OBVIOUS
    <2> HIDE DEF e, raced
    <2>5. PICK kept \in Room(x.key) :
            cacheStore' = [k \in kept \cup {x.key} |-> IF k = x.key THEN e ELSE cacheStore[k]]
      BY <2>1 DEF cacheSet
    <2>6. kept \subseteq DOMAIN cacheStore
      BY <2>5 DEF Room
    <2>7. \A k \in DOMAIN cacheStore' :
             (k = x.key /\ cacheStore'[k] = e) \/ (k \in DOMAIN cacheStore /\ cacheStore'[k] = cacheStore[k])
      BY <2>5, <2>6
    <2>8. DOMAIN cacheStore' \subseteq CacheKeys
      BY <2>2, <2>5, <2>6 DEF RInv
    <2>9. \A k \in DOMAIN cacheStore' :
             /\ cacheStore'[k].version \in Nat \ {0}
             /\ cacheStore'[k].expiresAt \in Nat /\ cacheStore'[k].expiresAt <= cacheNow' + CacheTtl
      BY <1>1, <2>2, <2>3, <2>7 DEF RInv
    <2>10. \A k \in DOMAIN cacheStore', v \in DOMAIN cleaned' : Excused(k, v)'
      BY <1>1, <2>3, <2>4, <2>7 DEF RInv, Excused
    <2> HIDE DEF x
    <2> QED
      BY <1>1, <1>2, <2>8, <2>9, <2>10 DEF RInv, WrittenBy
  <1>4. CASE ~ok
    <2>1. UNCHANGED cacheStore /\ cacheNow \in Nat
      BY <1>4 DEF responseJson, RInv
    <2> QED
      BY <1>1, <1>2, <2>1, StoreShrinks
  <1> QED
    BY <1>3, <1>4

LEMMA RInvStep == RInv /\ [CacheNext]_cacheVars => RInv'
  <1> SUFFICES ASSUME RInv, [CacheNext]_cacheVars PROVE RInv'
    OBVIOUS
  <1>a. /\ DOMAIN cacheStore \subseteq CacheKeys
        /\ \A r \in DOMAIN cacheReads :
              cacheReads[r].key \in CacheKeys /\ cacheReads[r].version \in Nat
        /\ dataVersion \in Nat \ {0} /\ cacheWrites \in [CacheWrites -> WriteStates]
        /\ cacheNow \in Nat
    BY DEF RInv
  <1>1. ASSUME NEW r \in CacheReads, NEW key \in CacheKeys, cacheMiss(r, key) PROVE RInv'
    <2>1. /\ cacheStore' = cacheGet(key) /\ UNCHANGED <<cacheNow, dataVersion, cacheWrites, cleaned, unclean>>
          /\ cacheReads' = [s \in DOMAIN cacheReads \cup {r} |->
                              IF s = r THEN [key |-> key, version |-> 0] ELSE cacheReads[s]]
      BY <1>1 DEF cacheMiss, writeHistory
    <2>2. \A s \in DOMAIN cacheReads' :
            cacheReads'[s].key \in CacheKeys /\ cacheReads'[s].version \in Nat
      BY <1>a, <2>1
    <2> QED
      BY <1>a, <2>1, <2>2, CacheLookup, StoreShrinks
  <1>2. ASSUME NEW r \in CacheReads, handlerReads(r) PROVE RInv'
    <2>1. /\ UNCHANGED <<cacheNow, cacheStore, dataVersion, cacheWrites, cleaned, unclean>>
          /\ r \in DOMAIN cacheReads
          /\ cacheReads' = [cacheReads EXCEPT ![r].version = dataVersion]
      BY <1>2 DEF handlerReads, writeHistory
    <2>2. \A s \in DOMAIN cacheReads' :
            cacheReads'[s].key \in CacheKeys /\ cacheReads'[s].version \in Nat
      BY <1>a, <2>1
    <2> QED
      BY <1>a, <2>1, <2>2, StoreShrinks
  <1>3. ASSUME NEW key \in CacheKeys, cacheHit(key) PROVE RInv'
    <2>1. /\ cacheStore' = cacheGet(key)
          /\ UNCHANGED <<cacheNow, cacheReads, dataVersion, cacheWrites, cleaned, unclean>>
      BY <1>3 DEF cacheHit, writeHistory
    <2> QED
      BY <1>a, <2>1, CacheLookup, StoreShrinks
  <1>4. ASSUME NEW w \in CacheWrites, invalidateReadCaches(w) PROVE RInv'
    <2>1. /\ cacheWrites[w] = <<"todo">> /\ cacheWrites' = [cacheWrites EXCEPT ![w] = <<"begun">>]
          /\ DOMAIN cacheStore' \subseteq DOMAIN cacheStore
          /\ \A k \in DOMAIN cacheStore' : cacheStore'[k] = cacheStore[k]
          /\ UNCHANGED <<cacheNow, cacheReads, dataVersion, cleaned, unclean>>
      BY <1>4, <1>a DEF invalidateReadCaches, invalidateCache, writeHistory
    <2>2. cacheWrites' \in [CacheWrites -> WriteStates]
      BY <1>a, <2>1 DEF WriteStates
    <2>3. \A u \in CacheWrites, v \in Nat : WrittenBy(u, v) => WrittenBy(u, v)'
      BY <1>a, <2>1 DEF WrittenBy
    <2> QED
      BY <2>1, <2>2, <2>3 DEF RInv, Excused
  <1>5. ASSUME NEW w \in CacheWrites, operationWrites(w) PROVE RInv'
    <2> DEFINE n == dataVersion + 1
    <2>1. /\ cacheWrites[w] = <<"begun">> /\ dataVersion' = n
          /\ cacheWrites' = [cacheWrites EXCEPT ![w] = <<"written", n>>]
          /\ UNCHANGED <<cacheNow, cacheStore, cacheReads, cleaned, unclean>>
      BY <1>5 DEF operationWrites, writeHistory
    <2>2. n \in Nat \ {0} /\ \A v \in 2..n : v \in 2..dataVersion \/ v = n
      BY <1>a
    <2> HIDE DEF n
    <2>3. cacheWrites' \in [CacheWrites -> WriteStates] /\ cacheWrites'[w] = <<"written", n>>
      BY <1>a, <2>1, <2>2 DEF WriteStates
    <2>4. \A u \in CacheWrites, v \in Nat : WrittenBy(u, v) => WrittenBy(u, v)'
      BY <1>a, <2>1 DEF WrittenBy
    <2>5. \A v \in 2..dataVersion' :
             v \in DOMAIN cleaned' \cup unclean' \/ \E u \in CacheWrites : WrittenBy(u, v)'
      <3> SUFFICES ASSUME NEW v \in 2..dataVersion'
                   PROVE  v \in DOMAIN cleaned' \cup unclean' \/ \E u \in CacheWrites : WrittenBy(u, v)'
        OBVIOUS
      <3>1. CASE v = n
        BY <2>3, <3>1 DEF WrittenBy
      <3>2. CASE v \in 2..dataVersion
        BY <1>a, <2>1, <2>4, <3>2 DEF RInv
      <3> QED
        BY <2>1, <2>2, <3>1, <3>2
    <2> QED
      BY <2>1, <2>2, <2>3, <2>5 DEF RInv, Excused
  <1>6. ASSUME NEW w \in CacheWrites, operationSucceeds(w) PROVE RInv'
    <2>1. /\ cacheWrites[w][1] = "written" /\ cacheWrites' = [cacheWrites EXCEPT ![w] = <<"done">>]
          /\ DOMAIN cacheStore' \subseteq DOMAIN cacheStore
          /\ \A k \in DOMAIN cacheStore' : cacheStore'[k] = cacheStore[k] /\ k \notin Matched
          /\ DOMAIN cleaned' = DOMAIN cleaned \cup {cacheWrites[w][2]}
          /\ \A v \in DOMAIN cleaned' : cleaned'[v] = IF v = cacheWrites[w][2] THEN cacheNow ELSE cleaned[v]
          /\ UNCHANGED <<cacheNow, cacheReads, dataVersion, unclean>>
      BY <1>6, <1>a DEF operationSucceeds, invalidateCache
    <2>2. cacheWrites' \in [CacheWrites -> WriteStates]
      BY <1>a, <2>1 DEF WriteStates
    <2>3. \A u \in CacheWrites, v \in Nat : WrittenBy(u, v) => WrittenBy(u, v)' \/ v \in DOMAIN cleaned'
      BY <1>a, <2>1 DEF WrittenBy
    <2>4. \A v \in 2..dataVersion' :
             v \in DOMAIN cleaned' \cup unclean' \/ \E u \in CacheWrites : WrittenBy(u, v)'
      BY <2>1, <2>3 DEF RInv
    <2>5. \A v \in DOMAIN cleaned' : cleaned'[v] \in Nat /\ cleaned'[v] <= cacheNow'
      BY <1>a, <2>1 DEF RInv
    <2>6. \A k \in DOMAIN cacheStore', v \in DOMAIN cleaned' : Excused(k, v)'
      BY <1>a, <2>1 DEF RInv, Excused
    <2> QED
      BY <2>1, <2>2, <2>4, <2>5, <2>6 DEF RInv
  <1>7. ASSUME NEW w \in CacheWrites, operationFails(w) PROVE RInv'
    <2>1. /\ cacheWrites[w][1] \in {"begun", "written"}
          /\ cacheWrites' = [cacheWrites EXCEPT ![w] = <<"done">>]
          /\ unclean' = (IF cacheWrites[w][1] = "begun" THEN unclean
                                                      ELSE unclean \cup {cacheWrites[w][2]})
          /\ UNCHANGED <<cacheNow, cacheStore, cacheReads, dataVersion, cleaned>>
      BY <1>7 DEF operationFails
    <2>2. cacheWrites' \in [CacheWrites -> WriteStates]
      BY <1>a, <2>1 DEF WriteStates
    <2>3. \A u \in CacheWrites, v \in Nat : WrittenBy(u, v) => WrittenBy(u, v)' \/ v \in unclean'
      BY <1>a, <2>1 DEF WrittenBy
    <2>4. unclean \subseteq unclean'
      BY <2>1
    <2>5. \A v \in 2..dataVersion' :
             v \in DOMAIN cleaned' \cup unclean' \/ \E u \in CacheWrites : WrittenBy(u, v)'
      BY <2>1, <2>3, <2>4 DEF RInv
    <2> QED
      BY <2>1, <2>2, <2>5 DEF RInv, Excused
  <1>8. ASSUME NEW keys \in SUBSET CacheKeys, deleteAdminCache(keys) PROVE RInv'
    <2>1. /\ cacheStore' = [k \in DOMAIN cacheStore \ keys |-> cacheStore[k]]
          /\ UNCHANGED <<cacheNow, cacheReads, dataVersion, cacheWrites, cleaned, unclean>>
      BY <1>8 DEF deleteAdminCache, invalidateCache, writeHistory
    <2> QED
      BY <1>a, <2>1, StoreShrinks
  <1>9. CASE cacheTick \/ UNCHANGED cacheVars
    <2>1. UNCHANGED <<cacheStore, cacheReads, dataVersion, cacheWrites, cleaned, unclean>>
      BY <1>9 DEF cacheTick, cacheVars, writeHistory
    <2>2. cacheNow' \in Nat /\ cacheNow <= cacheNow'
      BY <1>9, <1>a DEF cacheTick, cacheVars
    <2> QED
      BY <1>a, <2>1, <2>2, StoreShrinks
  <1> QED
    BY <1>1, <1>2, <1>3, <1>4, <1>5, <1>6, <1>7, <1>8, <1>9, ResponseStored DEF CacheNext

(* cacheMiddleware, invalidateReadCaches: once no vault operation is under *)
(* way, an answer older than the data was computed before a write and      *)
(* stored after its last invalidation, is left by an operation that failed *)
(* after its row was written, or is one of a mounted router, which expires *)
(* within its time to live of every operation it misses.                   *)
THEOREM StalenessIsExplained == Spec => []StaleIsExplained
  <1>1. Init => RInv
    BY RInvInit DEF Init
  <1>2. RInv /\ [Next]_vars => RInv'
    BY PartsRun, RInvStep
  <1>3. RInv => StaleIsExplained
    <2> SUFFICES ASSUME RInv, ~Writing, NEW k \in DOMAIN cacheStore,
                        cacheStore[k].version < dataVersion,
                        ~cacheStore[k].raced, ~\E v \in unclean : v > cacheStore[k].version
                 PROVE  /\ k \notin Matched
                        /\ \A v \in DOMAIN cleaned :
                             v > cacheStore[k].version => cacheStore[k].expiresAt <= cleaned[v] + CacheTtl
      BY DEF StaleIsExplained
    <2>1. \A w \in CacheWrites, v \in Nat : ~WrittenBy(w, v)
      BY DEF Writing, WrittenBy
    <2>2. dataVersion \in 2..dataVersion /\ dataVersion \in Nat /\ dataVersion > cacheStore[k].version
      BY DEF RInv
    <2>3. dataVersion \in DOMAIN cleaned
      BY <2>1, <2>2 DEF RInv
    <2> QED
      BY <2>2, <2>3 DEF RInv, Excused
  <1> QED
    BY <1>1, <1>2, <1>3, PTL DEF Spec

-----------------------------------------------------------------------------
(* Impersonation *)

\* The start of a session is in a ledger, lost to a restart, or about to be noted.
Trail(s) == Noted(s, "started") \/ BeingNoted(s, "started")

ImpCallRec == [op : {"none", "start", "end", "view"}, at : {"idle", "persist", "read", "note", "show"},
               session : ImpSessions \cup {NoSession}, snap : ImpStatus \cup {"none"},
               event : ImpEvents \cup {"none"}]

\* A request that is about to store a session under a new id.
Starting(c) == impCalls[c].at = "persist" /\ impCalls[c].event = "started"

\* The database has the session, and not as active.
Over(s) == s \in DOMAIN impDb /\ impDb[s] # "active"

\* What is known of the session a request works on.
CallOK(c) ==
    LET r == impCalls[c]
    IN /\ r.at \in {"persist", "note"} => r.session \in impStarted /\ r.event # "none"
       /\ r.at = "persist" => r.event # "access"
       /\ r.at = "read" => r.session \in ImpSessions
       /\ r.at \in {"persist", "note"} /\ r.event # "started" => Trail(r.session)
       /\ r.at = "read" /\ r.snap # "none" => Trail(r.session)
       /\ r.at = "show" => IF r.session = NoSession
                             THEN ~storageSet
                             ELSE Noted(r.session, "access") /\ Trail(r.session)
       /\ impFaults = 0 /\ ((r.at = "note" /\ r.event = "ended") \/ (r.at = "read" /\ r.snap = "ended"))
            => Over(r.session)

StoresNoted ==
    /\ \A s \in DOMAIN impDb : impDb[s] \in ImpStatus /\ Trail(s)
    /\ \A s \in DOMAIN impMem : impMem[s] \in ImpStatus /\ Trail(s)

\* A session that is stored anywhere, was read, or has ended, has the trail of
\* its start; one whose wallet is about to be shown, that of the look as well.
\* Nothing has the trail of a session that is yet to be stored.  Without a
\* failed call, what was answered as ended is in the database, and over.
MInv ==
    /\ impCalls \in [ImpCalls -> ImpCallRec] /\ impFaults \in Nat
    /\ impStarted \subseteq ImpSessions /\ \A s : Trail(s) => s \in impStarted
    /\ StoresNoted /\ \A s \in impEnded : Trail(s)
    /\ \A c \in ImpCalls : CallOK(c)
    /\ \A c \in ImpCalls : Starting(c) =>
          /\ ~Trail(impCalls[c].session)
          /\ \A d \in ImpCalls : d # c /\ Starting(d) => impCalls[d].session # impCalls[c].session
    /\ ViewsAreInLedger
    /\ impFaults = 0 => \A s \in impEnded : Over(s)

NothingUnnoted == \A s, e : Noted(s, e) => Noted(s, e)'

LEMMA MInvInit == ImpInit => MInv
  <1> SUFFICES ASSUME ImpInit PROVE MInv
    OBVIOUS
  <1>1. \A c \in ImpCalls : impCalls[c] = ImpIdle
    BY DEF ImpInit
  <1>2. /\ ImpIdle \in ImpCallRec /\ ImpIdle.at = "idle" /\ ImpIdle.event = "none"
        /\ impCalls \in [ImpCalls -> ImpCallRec]
    BY <1>1 DEF ImpInit, ImpIdle, ImpCallRec, ImpStatus
  <1>3. \A s : ~Trail(s)
    BY <1>1, <1>2 DEF ImpInit, Trail, Noted, BeingNoted
  <1>4. \A c \in ImpCalls : CallOK(c) /\ ~Starting(c)
    BY <1>1, <1>2 DEF CallOK, Starting
  <1> QED
    BY <1>2, <1>3, <1>4 DEF ImpInit, MInv, StoresNoted, ViewsAreInLedger

\* A request moves on: what that must leave true of the stores, the ledgers
\* and the request itself.
LEMMA ImpMoves ==
    ASSUME MInv, NEW c \in ImpCalls, NEW x \in ImpCallRec, impCalls' = [impCalls EXCEPT ![c] = x],
           impFaults' \in Nat, impFaults' = 0 => impFaults = 0, UNCHANGED storageSet,
           impStarted \subseteq impStarted', impStarted' \subseteq ImpSessions,
           NothingUnnoted, \A s : Trail(s) => Trail(s)',
           \A s : Trail(s)' => Trail(s) \/ (Starting(c) /\ s = impCalls[c].session),
           CallOK(c)', StoresNoted', \A s \in impEnded' : Trail(s)',
           Starting(c)' => x.session \notin impStarted,
           ViewsAreInLedger',
           impFaults' = 0 => \A s : Trail(s) /\ Over(s) => Over(s)',
           impFaults' = 0 => \A s \in impEnded' : Over(s)'
    PROVE  MInv'
  <1>1. impCalls' \in [ImpCalls -> ImpCallRec] /\ impCalls'[c] = x
        /\ \A d \in ImpCalls : d # c => impCalls'[d] = impCalls[d]
    BY DEF MInv
  <1>2. \A s : Trail(s)' => s \in impStarted'
    BY DEF MInv, CallOK, Starting
  <1>3. ASSUME NEW d \in ImpCalls, d # c PROVE CallOK(d)'
    <2>1. CallOK(d) /\ impCalls'[d] = impCalls[d]
      BY <1>1, <1>3 DEF MInv
    <2>2. impFaults' = 0 /\ ((impCalls[d].at = "note" /\ impCalls[d].event = "ended")
                             \/ (impCalls[d].at = "read" /\ impCalls[d].snap = "ended"))
            => Over(impCalls[d].session)'
      BY <2>1 DEF CallOK
    <2> QED
      BY <2>1, <2>2 DEF CallOK, NothingUnnoted
  <1>4. ASSUME NEW d \in ImpCalls, Starting(d)'
        PROVE  /\ ~Trail(impCalls[d].session)'
               /\ \A b \in ImpCalls : b # d /\ Starting(b)' => impCalls'[b].session # impCalls'[d].session
    <2>1. \A b \in ImpCalls : Starting(b) => impCalls[b].session \in impStarted /\ ~Trail(impCalls[b].session)
      BY DEF MInv, CallOK, Starting
    <2>2. \A b \in ImpCalls : b # c => (Starting(b)' <=> Starting(b))
      BY <1>1 DEF Starting
    <2>3. CASE d = c
      <3>1. x.session \notin impStarted /\ impCalls'[d] = x
        BY <1>1, <1>4, <2>3
      <3>2. ~Trail(x.session) /\ (Starting(c) => impCalls[c].session # x.session)
        BY <2>1, <3>1 DEF MInv
      <3> QED
        BY <1>1, <2>1, <2>2, <2>3, <3>1, <3>2
    <2>4. CASE d # c
      <3>1. Starting(d) /\ impCalls'[d] = impCalls[d]
        BY <1>1, <1>4, <2>2, <2>4
      <3>2. ~Trail(impCalls[d].session) /\ impCalls[d].session \in impStarted
        BY <2>1, <3>1
      <3>3. \A b \in ImpCalls : b # d /\ Starting(b) => impCalls[b].session # impCalls[d].session
        BY <3>1 DEF MInv
      <3>4. Starting(c)' => impCalls'[c].session # impCalls[d].session
        BY <1>1, <3>2
      <3> QED
        BY <1>1, <2>2, <2>4, <3>1, <3>2, <3>3, <3>4
    <2> QED
      BY <2>3, <2>4
  <1> QED
    BY <1>1, <1>2, <1>3, <1>4 DEF MInv

\* A request moves on and nothing is written, except a look at a wallet.
LEMMA ImpQuiet ==
    ASSUME MInv, NEW c \in ImpCalls, NEW x \in ImpCallRec, impCalls' = [impCalls EXCEPT ![c] = x],
           impFaults' \in Nat, impFaults' = 0 => impFaults = 0,
           UNCHANGED <<storageSet, impDb, impMem, impDbLedger, impMemLedger, impLost>>,
           impStarted \subseteq impStarted', impStarted' \subseteq ImpSessions,
           impCalls[c].at # "note", x.at = "note" => x.event # "started",
           CallOK(c)', \A s \in impEnded' : Trail(s),
           Starting(c)' => x.session \notin impStarted,
           \A s \in impViews' : s \in impViews \/ (impCalls[c].at = "show" /\ s = impCalls[c].session),
           impFaults' = 0 => \A s \in impEnded' : Over(s)
    PROVE  MInv'
  <1>1. impCalls'[c] = x /\ \A d \in ImpCalls : d # c => impCalls'[d] = impCalls[d]
    BY DEF MInv
  <1>2. \A s, e : Noted(s, e)' <=> Noted(s, e)
    BY DEF Noted
  <1>3. \A s : BeingNoted(s, "started")' <=> BeingNoted(s, "started")
    BY <1>1 DEF BeingNoted
  <1>4. \A s : Trail(s)' <=> Trail(s)
    BY <1>2, <1>3 DEF Trail
  <1>5. StoresNoted' /\ NothingUnnoted
    BY <1>2, <1>4 DEF MInv, StoresNoted, NothingUnnoted
  <1>6. ViewsAreInLedger'
    <2> SUFFICES ASSUME NEW s \in impViews'
                 PROVE  IF s = NoSession THEN ~storageSet ELSE Noted(s, "access") /\ Trail(s)
      BY <1>2, <1>3 DEF ViewsAreInLedger, Trail
    <2>1. CASE s \in impViews
      BY <2>1 DEF MInv, ViewsAreInLedger, Trail
    <2>2. CASE impCalls[c].at = "show" /\ s = impCalls[c].session
      BY <2>2 DEF MInv, CallOK
    <2> QED
      BY <2>1, <2>2
  <1>7. \A s : Over(s)' <=> Over(s)
    BY DEF Over
  <1> QED
    BY <1>4, <1>5, <1>6, <1>7, ImpMoves

\* The session is stored: only one that is starting gets a trail by it.
LEMMA SessionPersisted ==
    ASSUME MInv, NEW c \in ImpCalls, NEW a \in Outcomes, persistSession(c, a) PROVE MInv'
  <1> DEFINE r == impCalls[c]
             s == r.session
             status == StatusAt(r.event)
             x == [r EXCEPT !.at = "note"]
  <1>1. /\ r \in ImpCallRec /\ r.at = "persist" /\ r.event \in {"started", "ended", "expired"}
        /\ s \in impStarted /\ CallOK(c)
    BY DEF MInv, persistSession, CallOK, ImpCallRec, ImpEvents
  <1>2. /\ impCalls' = [impCalls EXCEPT ![c] = x] /\ DbAnswers(a)
        /\ impDb' = impDb \/ impDb' = With(impDb, s, status)
        /\ impMem' = impMem \/ impMem' = With(impMem, s, status)
        /\ a = "done" => impDb' = With(impDb, s, status)
        /\ UNCHANGED <<storageSet, impDbLedger, impMemLedger, impStarted, impEnded, impViews, impLost>>
    BY Zenon DEF persistSession, Step, Stored, Outcomes
  <1>3. status \in ImpStatus /\ (status = "active" => r.event = "started") /\ Starting(c) = (r.event = "started")
    BY <1>1 DEF StatusAt, ImpStatus, Starting
  <1>4. x \in ImpCallRec /\ x.at = "note" /\ x.session = s /\ x.event = r.event
    BY <1>1 DEF ImpCallRec
  <1>5. impCalls'[c] = x /\ \A d \in ImpCalls : d # c => impCalls'[d] = impCalls[d]
    BY <1>2 DEF MInv
  <1>6. impFaults' \in Nat /\ (impFaults' = 0 => impFaults = 0 /\ a = "done")
    BY <1>2 DEF MInv, DbAnswers
  <1> HIDE DEF x, status
  <1>7. \A t, e : Noted(t, e)' <=> Noted(t, e)
    BY <1>2 DEF Noted
  <1>8. /\ \A t : Trail(t) => Trail(t)'
        /\ \A t : Trail(t)' => Trail(t) \/ (Starting(c) /\ t = s)
        /\ \A t : BeingNoted(t, "started") => BeingNoted(t, "started")'
    BY <1>1, <1>3, <1>4, <1>5, <1>7 DEF Trail, BeingNoted
  <1>9. \A t : t = s => Trail(t)'
    <2> SUFFICES ASSUME NEW t, t = s PROVE Trail(t)'
      OBVIOUS
    <2>1. CASE r.event = "started"
      BY <1>4, <1>5, <2>1 DEF Trail, BeingNoted
    <2>2. CASE r.event # "started"
      BY <1>1, <1>8, <2>2 DEF CallOK
    <2> QED
      BY <2>1, <2>2
  <1>10. StoresNoted'
    BY <1>2, <1>3, <1>8, <1>9 DEF MInv, StoresNoted, With
  <1>11. impFaults' = 0 => \A t : (Trail(t) /\ Over(t)) \/ (t = s /\ r.event # "started") => Over(t)'
    <2> SUFFICES ASSUME impFaults' = 0, NEW t, (Trail(t) /\ Over(t)) \/ (t = s /\ r.event # "started")
                 PROVE  Over(t)'
      OBVIOUS
    <2>1. impDb' = With(impDb, s, status)
      BY <1>2, <1>6
    <2>2. Starting(c) => ~Trail(s)
      BY DEF MInv
    <2>3. CASE t = s
      BY <1>3, <2>1, <2>2, <2>3 DEF Over, With
    <2>4. CASE t # s
      BY <2>1, <2>4 DEF Over, With
    <2> QED
      BY <2>3, <2>4
  <1>12. CallOK(c)'
    BY <1>1, <1>2, <1>4, <1>5, <1>8, <1>9, <1>11 DEF CallOK
  <1>13. ViewsAreInLedger'
    BY <1>2, <1>7, <1>8 DEF MInv, ViewsAreInLedger
  <1>14. ~Starting(c)'
    BY <1>4, <1>5 DEF Starting
  <1>15. /\ \A t \in impEnded' : Trail(t)'
         /\ impFaults' = 0 => \A t \in impEnded' : Over(t)'
    BY <1>2, <1>6, <1>8, <1>11 DEF MInv
  <1>16. impStarted \subseteq impStarted' /\ impStarted' \subseteq ImpSessions /\ NothingUnnoted
    BY <1>2, <1>7 DEF MInv, NothingUnnoted
  <1> QED
    BY <1>2, <1>4, <1>6, <1>8, <1>10, <1>11, <1>12, <1>13, <1>14, <1>15, <1>16, ImpMoves

\* The entry is in a ledger: what was about to be noted is.
LEMMA EntryAppended ==
    ASSUME MInv, NEW c \in ImpCalls, NEW a \in Outcomes, appendLedgerEntry(c, a) PROVE MInv'
  <1> DEFINE r == impCalls[c]
             s == r.session
             x == afterEntry(r)
  <1>1. /\ r \in ImpCallRec /\ r.at = "note" /\ r.event \in ImpEvents
        /\ s \in impStarted /\ s \in ImpSessions /\ CallOK(c)
    BY DEF MInv, appendLedgerEntry, CallOK, ImpCallRec
  <1>2. /\ impCalls' = [impCalls EXCEPT ![c] = x] /\ DbAnswers(a)
        /\ impDbLedger' \cup impMemLedger' = (impDbLedger \cup impMemLedger) \cup {<<s, r.event>>}
        /\ impEnded' = IF r.event = "ended" THEN impEnded \cup {s} ELSE impEnded
        /\ UNCHANGED <<storageSet, impDb, impMem, impStarted, impViews, impLost>>
    <2>1. /\ a # "refused" \/ a # "done"
          /\ impDbLedger' = IF a = "refused" THEN impDbLedger ELSE impDbLedger \cup {<<s, r.event>>}
          /\ impMemLedger' = IF a = "done" THEN impMemLedger ELSE impMemLedger \cup {<<s, r.event>>}
      BY DEF appendLedgerEntry
    <2>2. impDbLedger' \cup impMemLedger' = (impDbLedger \cup impMemLedger) \cup {<<s, r.event>>}
      BY <2>1
    <2> QED
      BY <2>2 DEF appendLedgerEntry, Step
  <1>3. /\ x \in ImpCallRec /\ x.at \in {"idle", "show"}
        /\ x.at = "show" => x.session = s /\ r.event = "access"
    BY <1>1 DEF ImpCallRec, afterEntry, ImpIdle, ImpStatus
  <1>4. impCalls'[c] = x /\ \A d \in ImpCalls : d # c => impCalls'[d] = impCalls[d]
    BY <1>2 DEF MInv
  <1>5. impFaults' \in Nat /\ (impFaults' = 0 => impFaults = 0)
    BY <1>2 DEF MInv, DbAnswers
  <1> HIDE DEF x
  <1>6. \A t, e : Noted(t, e)' <=> (Noted(t, e) \/ (t = s /\ e = r.event))
    BY <1>2 DEF Noted
  <1>7. Trail(s)
    BY <1>1 DEF CallOK, Trail, BeingNoted
  <1>8. /\ \A t : Trail(t) => Trail(t)'
        /\ \A t : Trail(t)' => Trail(t)
    BY <1>1, <1>3, <1>4, <1>6, <1>7 DEF Trail, BeingNoted
  <1>9. StoresNoted' /\ NothingUnnoted /\ \A t : Over(t)' <=> Over(t)
    BY <1>2, <1>6, <1>8 DEF MInv, StoresNoted, NothingUnnoted, Over
  <1>10. CallOK(c)' /\ ~Starting(c)'
    BY <1>1, <1>3, <1>4, <1>6, <1>7, <1>8, ImpAssumption DEF CallOK, Starting
  <1>11. ViewsAreInLedger'
    BY <1>2, <1>6, <1>8 DEF MInv, ViewsAreInLedger, Trail
  <1>12. /\ \A t \in impEnded' : Trail(t)'
         /\ impFaults' = 0 => \A t \in impEnded' : Over(t)'
    BY <1>1, <1>2, <1>5, <1>7, <1>8, <1>9 DEF MInv, CallOK
  <1>13. impStarted \subseteq impStarted' /\ impStarted' \subseteq ImpSessions
    BY <1>2 DEF MInv
  <1> QED
    BY <1>2, <1>3, <1>5, <1>8, <1>9, <1>10, <1>11, <1>12, <1>13, ImpMoves

\* What memory had, and what was about to be written, is lost and known to be.
LEMMA ImpRestarts == MInv /\ impRestart => MInv'
  <1> SUFFICES ASSUME MInv, impRestart PROVE MInv'
    OBVIOUS
  <1>1. /\ impMem' = << >> /\ impMemLedger' = {} /\ impCalls' = [c \in ImpCalls |-> ImpIdle]
        /\ impLost' = impLost \cup ((impMemLedger \cup Unwritten) \ impDbLedger)
        /\ UNCHANGED <<storageSet, impDb, impDbLedger, impStarted, impEnded, impViews, impFaults>>
    BY DEF impRestart
  <1>2. ImpIdle \in ImpCallRec /\ ImpIdle.at = "idle"
    BY DEF ImpIdle, ImpCallRec, ImpStatus
  <1>3. /\ impCalls' \in [ImpCalls -> ImpCallRec]
        /\ \A c \in ImpCalls : impCalls'[c].at = "idle" /\ CallOK(c)' /\ ~Starting(c)'
    BY <1>1, <1>2 DEF CallOK, Starting
  <1>4. \A s, e : BeingNoted(s, e) => <<s, e>> \in Unwritten
    BY DEF BeingNoted, Unwritten
  <1>5. \A s, e : Noted(s, e) \/ BeingNoted(s, e) => Noted(s, e)'
    BY <1>1, <1>4 DEF Noted
  <1>6. \A s, e : Noted(s, e)' => Noted(s, e) \/ BeingNoted(s, e)
    <2> SUFFICES ASSUME NEW s, NEW e, Noted(s, e)', ~Noted(s, e) PROVE BeingNoted(s, e)
      OBVIOUS
    <2>1. <<s, e>> \in Unwritten
      BY <1>1 DEF Noted
    <2>2. PICK c \in ImpCalls : impCalls[c].at = "note" /\ <<s, e>> = <<impCalls[c].session, impCalls[c].event>>
      BY <2>1 DEF Unwritten
    <2> QED
      BY <2>2 DEF BeingNoted
  <1>7. \A s : Trail(s)' <=> Trail(s)
    BY <1>3, <1>5, <1>6 DEF Trail, BeingNoted
  <1>8. StoresNoted' /\ \A s : Over(s)' <=> Over(s)
    BY <1>1, <1>7 DEF MInv, StoresNoted, Over
  <1>9. ViewsAreInLedger'
    BY <1>1, <1>5 DEF MInv, ViewsAreInLedger
  <1> QED
    BY <1>1, <1>3, <1>7, <1>8, <1>9 DEF MInv

LEMMA MInvStep == MInv /\ [ImpNext]_impVars => MInv'
  <1> SUFFICES ASSUME MInv, [ImpNext]_impVars PROVE MInv'
    OBVIOUS
  <1>a. /\ ImpIdle \in ImpCallRec /\ ImpIdle.at = "idle" /\ ImpIdle.session = NoSession
        /\ impCalls \in [ImpCalls -> ImpCallRec] /\ impFaults \in Nat /\ impStarted \subseteq ImpSessions
    BY DEF MInv, ImpIdle, ImpCallRec, ImpStatus
  <1>b. ASSUME NEW c \in ImpCalls, impCalls' = [impCalls EXCEPT ![c] = ImpIdle]
        PROVE  CallOK(c)' /\ ~Starting(c)'
    BY <1>a, <1>b DEF CallOK, Starting
  <1>c. /\ \A s \in impEnded : Trail(s) /\ (impFaults = 0 => Over(s))
        /\ \A c \in ImpCalls : CallOK(c)
    BY DEF MInv
  <1>1. ASSUME NEW s \in ImpSessions, NEW c \in ImpCalls, startImpersonationSession(c, s)
        PROVE  MInv'
    <2> DEFINE x == [op |-> "start", at |-> "persist", session |-> s, snap |-> "none", event |-> "started"]
    <2>1. /\ impCalls' = [impCalls EXCEPT ![c] = x] /\ impStarted' = impStarted \cup {s}
          /\ impCalls[c].at = "idle" /\ s \notin impStarted
          /\ UNCHANGED <<storageSet, impDb, impMem, impDbLedger, impMemLedger, impEnded, impViews,
                         impLost, impFaults>>
      BY <1>1 DEF startImpersonationSession, Step, storesUnchanged
    <2>2. /\ x \in ImpCallRec /\ x.at = "persist" /\ x.session = s /\ x.event = "started" /\ x.snap = "none"
          /\ impCalls'[c] = x
      BY <1>a, <2>1 DEF ImpCallRec, ImpEvents
    <2> HIDE DEF x
    <2>3. CallOK(c)'
      BY <2>1, <2>2 DEF CallOK
    <2> QED
      BY <1>a, <1>c, <2>1, <2>2, <2>3, ImpQuiet
  <1>2. ASSUME UNCHANGED <<storageSet, impDb, impMem, impDbLedger, impMemLedger, impCalls, impStarted,
                           impEnded, impViews, impLost, impFaults>>
        PROVE  MInv'
    BY <1>2 DEF MInv, StoresNoted, CallOK, Starting, Over, Trail, Noted, BeingNoted, ViewsAreInLedger
  <1>3. ASSUME NEW c \in ImpCalls, NEW a \in Outcomes, NEW s \in ImpSessions, NEW op \in {"end", "view"},
               ImpRead(c, op, s, a)
        PROVE  MInv'
    <2> DEFINE x == [op |-> op, at |-> "read", session |-> s, snap |-> getSessionById(s, a),
                     event |-> "none"]
    <2>1. /\ impCalls' = [impCalls EXCEPT ![c] = x] /\ DbAnswers(a) /\ impCalls[c].at = "idle"
          /\ UNCHANGED <<storageSet, impDb, impMem, impDbLedger, impMemLedger, impStarted, impEnded,
                         impViews, impLost>>
      BY <1>3 DEF ImpRead, Step, storesUnchanged
    <2>2. /\ getSessionById(s, a) \in ImpStatus \cup {"none"}
          /\ getSessionById(s, a) # "none" => Trail(s)
          /\ a = "done" /\ getSessionById(s, a) = "ended" => Over(s)
      BY DEF getSessionById, Found, MInv, StoresNoted, Over, ImpStatus
    <2>3. /\ x \in ImpCallRec /\ x.at = "read" /\ x.session = s /\ x.snap = getSessionById(s, a)
          /\ impCalls'[c] = x
      BY <1>a, <2>1, <2>2 DEF ImpCallRec
    <2> HIDE DEF x
    <2>4. impFaults' \in Nat /\ (impFaults' = 0 => impFaults = 0 /\ a = "done")
      BY <1>a, <2>1 DEF DbAnswers
    <2>5. Trail(s) => Trail(s)'
      BY <1>a, <2>1, <2>3 DEF Trail, Noted, BeingNoted
    <2>6. CallOK(c)' /\ ~Starting(c)'
      BY <2>1, <2>2, <2>3, <2>4, <2>5 DEF CallOK, Starting, Over
    <2> QED
      BY <1>a, <1>c, <2>1, <2>3, <2>4, <2>6, ImpQuiet
  <1>4. ASSUME NEW c \in ImpCalls, NEW x \in ImpCallRec, impCalls[c].at = "read",
               x \in {[impCalls[c] EXCEPT !.at = "persist", !.event = "ended"],
                      [impCalls[c] EXCEPT !.at = "persist", !.event = "expired"],
                      [impCalls[c] EXCEPT !.at = "note", !.event = "access"]} => impCalls[c].snap # "none",
               x \in {[impCalls[c] EXCEPT !.at = "persist", !.event = "ended"],
                      [impCalls[c] EXCEPT !.at = "persist", !.event = "expired"],
                      [impCalls[c] EXCEPT !.at = "note", !.event = "access"], ImpIdle},
               impCalls' = [impCalls EXCEPT ![c] = x],
               impEnded' \in {impEnded, impEnded \cup {impCalls[c].session}},
               impEnded' # impEnded => impCalls[c].snap = "ended",
               UNCHANGED <<storageSet, impDb, impMem, impDbLedger, impMemLedger, impStarted, impViews,
                           impLost, impFaults>>
        PROVE  MInv'
    <2>1. impCalls'[c] = x /\ impCalls[c] \in ImpCallRec /\ CallOK(c)
      BY <1>a, <1>4 DEF MInv
    <2>2. x = ImpIdle \/ (/\ x.at \in {"persist", "note"} /\ x.event \in {"ended", "expired", "access"}
                          /\ x.session = impCalls[c].session /\ Trail(x.session)
                          /\ x.at = "persist" => x.event # "access"
                          /\ x.at = "note" => x.event = "access")
      BY <1>4, <2>1 DEF CallOK, ImpCallRec
    <2>3. \A s : Trail(s) => Trail(s)'
      BY <1>a, <1>4, <2>1 DEF Trail, Noted, BeingNoted
    <2>4. CallOK(c)' /\ ~Starting(c)' /\ (x.at = "note" => x.event # "started")
      BY <1>a, <1>4, <2>1, <2>2, <2>3 DEF CallOK, Starting, MInv
    <2>5. \A s \in impEnded' : Trail(s) /\ (impFaults = 0 => Over(s))
      BY <1>c, <1>4, <2>1 DEF CallOK
    <2>6. \A s \in impEnded' : Trail(s)
      BY <2>5
    <2>7. impFaults' = 0 => \A s \in impEnded' : Over(s)
      BY <1>4, <2>5
    <2> QED
      BY <1>a, <1>4, <2>4, <2>6, <2>7, ImpQuiet
  <1>5. ASSUME NEW c \in ImpCalls, endImpersonationSession(c) PROVE MInv'
    <2> DEFINE x == IF Effective(c) = "active" THEN [impCalls[c] EXCEPT !.at = "persist", !.event = "ended"]
                                               ELSE ImpIdle
    <2>1. /\ impCalls[c].at = "read" /\ impCalls' = [impCalls EXCEPT ![c] = x]
          /\ impEnded' \in {impEnded, impEnded \cup {impCalls[c].session}}
          /\ impEnded' # impEnded => Effective(c) = "ended"
          /\ UNCHANGED <<storageSet, impDb, impMem, impDbLedger, impMemLedger, impStarted, impViews,
                         impLost, impFaults>>
      BY <1>5 DEF endImpersonationSession, Step, ImpDone, storesUnchanged
    <2>2. /\ Effective(c) = "active" => impCalls[c].snap = "active"
          /\ Effective(c) = "ended" => impCalls[c].snap = "ended"
      BY DEF Effective, resolveEffectiveStatus
    <2>3. x \in ImpCallRec
      BY <1>a DEF ImpCallRec, ImpEvents
    <2>4. Effective(c) # "active" => x.at = "idle"
      BY <1>a
    <2>5. Effective(c) = "active" \/ x = ImpIdle
      OBVIOUS
    <2>6. x \in {[impCalls[c] EXCEPT !.at = "persist", !.event = "ended"], ImpIdle}
      OBVIOUS
    <2>7. impCalls[c].snap = "none" => x = ImpIdle
      BY <2>2, <2>5
    <2>8. ImpIdle \notin {[impCalls[c] EXCEPT !.at = "persist", !.event = "ended"],
                          [impCalls[c] EXCEPT !.at = "persist", !.event = "expired"],
                          [impCalls[c] EXCEPT !.at = "note", !.event = "access"]}
      BY <1>a DEF ImpCallRec
    <2> HIDE DEF x
    <2> QED
      BY <1>4, <2>1, <2>2, <2>3, <2>6, <2>7, <2>8
  <1>6. ASSUME NEW c \in ImpCalls, validateImpersonationSession(c) PROVE MInv'
    <2>1. PICK x \in {[impCalls[c] EXCEPT !.at = "persist", !.event = "expired"],
                      [impCalls[c] EXCEPT !.at = "note", !.event = "access"], ImpIdle} :
            /\ impCalls' = [impCalls EXCEPT ![c] = x]
            /\ x # ImpIdle => Effective(c) \in {"active", "expired"}
      <3>1. CASE Effective(c) = "active"
        BY <1>6, <3>1 DEF validateImpersonationSession, Step, noteAccess
      <3>2. CASE Effective(c) = "expired" /\ impCalls[c].snap # "expired"
        BY <1>6, <3>2 DEF validateImpersonationSession, Step, markSessionExpired
      <3>3. CASE Effective(c) # "active" /\ ~(Effective(c) = "expired" /\ impCalls[c].snap # "expired")
        BY <1>6, <3>3 DEF validateImpersonationSession, Step
      <3> QED
        BY <3>1, <3>2, <3>3
    <2>2. /\ impCalls[c].at = "read"
          /\ UNCHANGED <<storageSet, impDb, impMem, impDbLedger, impMemLedger, impStarted, impViews,
                         impEnded, impLost, impFaults>>
      BY <1>6 DEF validateImpersonationSession, storesUnchanged
    <2>3. Effective(c) \in {"active", "expired"} => impCalls[c].snap # "none"
      BY DEF Effective, resolveEffectiveStatus
    <2>4. x \in ImpCallRec
      <3>1. impCalls[c] \in ImpCallRec
        BY <1>a
      <3>2. /\ [impCalls[c] EXCEPT !.at = "persist", !.event = "expired"] \in ImpCallRec
            /\ [impCalls[c] EXCEPT !.at = "note", !.event = "access"] \in ImpCallRec
        BY <3>1 DEF ImpCallRec, ImpEvents
      <3> QED
        BY <1>a, <2>1, <3>2
    <2>5. ImpIdle \notin {[impCalls[c] EXCEPT !.at = "persist", !.event = "ended"],
                          [impCalls[c] EXCEPT !.at = "persist", !.event = "expired"],
                          [impCalls[c] EXCEPT !.at = "note", !.event = "access"]}
      BY <1>a DEF ImpCallRec
    <2> QED
      BY <1>4, <2>1, <2>2, <2>3, <2>4, <2>5
  <1>7. ASSUME NEW c \in ImpCalls, viewWithoutSession(c) PROVE MInv'
    <2> DEFINE x == [ImpIdle EXCEPT !.op = "view", !.at = "show"]
    <2>1. /\ impCalls' = [impCalls EXCEPT ![c] = x] /\ impCalls[c].at = "idle" /\ ~storageSet
          /\ UNCHANGED <<storageSet, impDb, impMem, impDbLedger, impMemLedger, impStarted, impEnded,
                         impViews, impLost, impFaults>>
      BY <1>7 DEF viewWithoutSession, Step, storesUnchanged
    <2>2. x \in ImpCallRec /\ x.at = "show" /\ x.session = NoSession /\ impCalls'[c] = x
      BY <1>a, <2>1 DEF ImpCallRec, ImpIdle
    <2> HIDE DEF x
    <2>3. CallOK(c)' /\ ~Starting(c)'
      BY <2>1, <2>2 DEF CallOK, Starting
    <2> QED
      BY <1>a, <1>c, <2>1, <2>2, <2>3, ImpQuiet
  <1>8. ASSUME NEW c \in ImpCalls, ImpShow(c) PROVE MInv'
    <2>1. /\ impCalls[c].at = "show" /\ impViews' = impViews \cup {impCalls[c].session}
          /\ impCalls' = [impCalls EXCEPT ![c] = ImpIdle]
          /\ UNCHANGED <<storageSet, impDb, impMem, impDbLedger, impMemLedger, impStarted, impEnded,
                         impLost, impFaults>>
      BY <1>8 DEF ImpShow, ImpDone, Step, storesUnchanged
    <2> QED
      BY <1>a, <1>b, <1>c, <2>1, ImpQuiet
  <1>9. ASSUME NEW s \in ImpSessions, ImpExpires(s) PROVE MInv'
    BY <1>2, <1>9 DEF ImpExpires, storesUnchanged
  <1>10. CASE UNCHANGED impVars
    BY <1>2, <1>10 DEF impVars
  <1> QED
    BY <1>1, <1>3, <1>5, <1>6, <1>7, <1>8, <1>9, <1>10, SessionPersisted, EntryAppended, ImpRestarts
    DEF ImpNext

(* GET /admin/impersonate/:wallet: what is shown of a wallet in a session   *)
(* has its entries in a ledger, or a restart lost them; without a session  *)
(* it is shown only where the mode of the storage is not configured.       *)
LEMMA ViewsNoted == Spec => []ViewsAreInLedger
  <1>1. Init => MInv
    BY MInvInit DEF Init
  <1>2. MInv /\ [Next]_vars => MInv'
    BY PartsRun, MInvStep
  <1>3. MInv => ViewsAreInLedger
    BY DEF MInv
  <1> QED
    BY <1>1, <1>2, <1>3, PTL DEF Spec

(* endImpersonationSession: a request that begins after the answer that a  *)
(* session is over is not shown its wallet, unless a call of the database  *)
(* failed.                                                                 *)
THEOREM EndLasts == Spec => EndedIsOver
  <1>1. Init => MInv
    BY MInvInit DEF Init
  <1>2. MInv /\ [Next]_vars => MInv'
    BY PartsRun, MInvStep
  <1>3. ASSUME MInv, [ImpNext]_impVars, NEW c \in ImpCalls,
               impCalls[c].at = "idle", MayShow(c)', impCalls'[c].session \in impEnded
        PROVE  impFaults' > 0
    <2>1. impCalls \in [ImpCalls -> ImpCallRec] /\ impFaults \in Nat /\ ImpIdle.at = "idle"
      BY <1>3 DEF MInv, ImpIdle
    <2>2. impCalls'[c].at = "read" /\ impCalls'[c].snap = "active"
      BY <1>3 DEF MayShow, Effective, resolveEffectiveStatus
    <2>3. ASSUME NEW d \in ImpCalls, NEW x, impCalls' = [impCalls EXCEPT ![d] = x],
                 x.at # "read" \/ impCalls[d].at # "idle"
          PROVE  FALSE
      BY <1>3, <2>1, <2>2, <2>3
    <2>4. ~UNCHANGED impCalls
      BY <1>3, <2>2
    <2>5. PICK d \in ImpCalls, a \in Outcomes, s \in ImpSessions, op \in {"end", "view"} : ImpRead(d, op, s, a)
      <3>1. \A s \in ImpSessions, d \in ImpCalls : ~startImpersonationSession(d, s) /\ ~ImpExpires(s)
        <4>1. \A s : [op |-> "start", at |-> "persist", session |-> s, snap |-> "none",
                      event |-> "started"].at # "read"
          OBVIOUS
        <4> QED
          BY <2>3, <2>4, <4>1 DEF startImpersonationSession, ImpExpires, Step
      <3>2. \A d \in ImpCalls : ~endImpersonationSession(d) /\ ~validateImpersonationSession(d)
        BY <2>3 DEF endImpersonationSession, validateImpersonationSession, ImpDone, Step
      <3>3. \A d \in ImpCalls, a \in Outcomes : ~persistSession(d, a) /\ ~appendLedgerEntry(d, a)
        BY <2>3 DEF persistSession, appendLedgerEntry, Step
      <3>4. \A d \in ImpCalls : ~ImpShow(d) /\ ~viewWithoutSession(d)
        <4>1. ImpIdle.at # "read" /\ [ImpIdle EXCEPT !.op = "view", !.at = "show"].at # "read"
          BY <2>1 DEF ImpIdle
        <4> QED
          BY <2>3, <4>1 DEF ImpShow, viewWithoutSession, ImpDone, Step
      <3>5. ~UNCHANGED impVars
        BY <2>4 DEF impVars
      <3>6. ~impRestart
        BY <1>3, <2>1, <2>2 DEF impRestart
      <3> QED
        BY <1>3, <3>1, <3>2, <3>3, <3>4, <3>5, <3>6 DEF ImpNext
    <2>6. d = c
      BY <1>3, <2>1, <2>2, <2>5 DEF ImpRead, Step
    <2>7. /\ impCalls'[c].session = s /\ getSessionById(s, a) = "active" /\ DbAnswers(a)
      BY <2>1, <2>2, <2>5, <2>6 DEF ImpRead, Step
    <2>8. CASE impFaults = 0 /\ a = "done"
      BY <1>3, <2>7, <2>8 DEF MInv, getSessionById, Found, Over
    <2> QED
      BY <2>1, <2>7, <2>8 DEF DbAnswers
  <1>4. MInv /\ [Next]_vars =>
          [\A c \in ImpCalls :
             impCalls[c].at = "idle" /\ MayShow(c)' /\ impCalls'[c].session \in impEnded
               => impFaults' > 0]_impVars
    BY PartsRun, <1>3
  <1> QED
    BY <1>1, <1>2, <1>4, PTL DEF Spec, EndedIsOver

-----------------------------------------------------------------------------
(* Requests and the audit log *)

SlotRec == [req : Routes \cup {"none"}, at : {"free", "signing", "handling"}, seq : Nat]

Kept(n) == IF n < AuditRetention THEN n ELSE AuditRetention

\* The log, place by place: what ended last comes first.
PipeInv ==
    /\ slot \in [PipeSlots -> SlotRec] /\ arrivals \in Nat
    /\ ended \in Seq(Nat) /\ auditLog \in Seq(Nat)
    /\ Len(auditLog) = Kept(Len(ended))
    /\ \A i \in 1..Len(auditLog) : auditLog[i] = ended[Len(ended) + 1 - i]

LEMMA PipeInvInit == PipeInit => PipeInv
  BY PipeAssumption DEF PipeInit, PipeInv, Free, SlotRec, Kept

LEMMA KeptBounds ==
    ASSUME NEW n \in Nat
    PROVE  /\ Kept(n) \in Nat /\ Kept(n) <= n /\ AuditRetention \in Nat /\ AuditRetention >= 1
           /\ Kept(n + 1) = IF Kept(n) < AuditRetention THEN Kept(n) + 1 ELSE AuditRetention
  BY PipeAssumption DEF Kept

LEMMA KeptFrom ==
    ASSUME NEW e \in Nat, NEW a, a = IF e > AuditRetention THEN e - AuditRetention + 1 ELSE 1
    PROVE  a \in Nat /\ a >= 1 /\ Kept(e) = e - a + 1
  BY PipeAssumption DEF Kept

\* The places of a log of a entries of e, and of its successor of m.
LEMMA PlacesMove ==
    ASSUME NEW e \in Nat, NEW a \in Nat, a = Kept(e),
           NEW m, m = IF a < AuditRetention THEN a + 1 ELSE AuditRetention
    PROVE  /\ m \in Nat /\ 1 <= m /\ m <= a + 1 /\ m = Kept(e + 1)
           /\ \A i \in 1..m : i # 1 =>
                /\ i \in Nat /\ 2 <= i /\ i <= a + 1 /\ i - 1 \in 1..a
                /\ e + 1 - (i - 1) = (e + 1) + 1 - i /\ e + 1 - (i - 1) \in 1..e
  <1>1. m \in Nat /\ 1 <= m /\ m <= a + 1 /\ m = Kept(e + 1) /\ a <= e
    BY KeptBounds
  <1>2. ASSUME NEW i \in 1..m, i # 1
        PROVE  /\ i \in Nat /\ 2 <= i /\ i <= a + 1 /\ i - 1 \in 1..a
               /\ e + 1 - (i - 1) = (e + 1) + 1 - i /\ e + 1 - (i - 1) \in 1..e
    BY <1>1, <1>2
  <1> QED
    BY <1>1, <1>2

\* A response of an admin's request finishes.
LEMMA Logged ==
    ASSUME PipeInv, NEW n \in Nat, auditLog' = logged(n), ended' = Append(ended, n),
           slot' \in [PipeSlots -> SlotRec], arrivals' \in Nat
    PROVE  PipeInv'
  <1> DEFINE all == <<n>> \o auditLog
             m == IF Len(auditLog) < AuditRetention THEN Len(auditLog) + 1 ELSE AuditRetention
  <1>1. /\ auditLog \in Seq(Nat) /\ ended \in Seq(Nat) /\ Len(auditLog) \in Nat /\ Len(ended) \in Nat
        /\ Len(auditLog) = Kept(Len(ended))
    BY DEF PipeInv
  <1>2. /\ all \in Seq(Nat) /\ Len(all) = Len(auditLog) + 1 /\ all[1] = n
        /\ \A i \in Nat : 2 <= i /\ i <= Len(all) => all[i] = auditLog[i - 1]
    BY <1>1
  <1>3. m \in Nat /\ 1 <= m /\ m <= Len(all) /\ m = Kept(Len(ended) + 1)
    <2>1. m = IF Len(auditLog) < AuditRetention THEN Len(auditLog) + 1 ELSE AuditRetention
      OBVIOUS
    <2>2. Len(auditLog) \in Nat /\ Len(ended) \in Nat /\ Len(auditLog) = Kept(Len(ended))
      BY <1>1
    <2> HIDE DEF all, m
    <2>3. m \in Nat /\ 1 <= m /\ m <= Len(auditLog) + 1 /\ m = Kept(Len(ended) + 1)
      BY ONLY <2>1, <2>2, PlacesMove
    <2> QED
      BY <1>2, <2>3
  <1>4. auditLog' = SubSeq(all, 1, m)
    BY DEF logged
  <1> HIDE DEF all, m
  <1>5. /\ auditLog' \in Seq(Nat) /\ Len(auditLog') = m
        /\ \A i \in 1..m : auditLog'[i] = all[i]
    BY <1>2, <1>3, <1>4
  <1>6. /\ ended' \in Seq(Nat) /\ Len(ended') = Len(ended) + 1 /\ ended'[Len(ended) + 1] = n
        /\ \A i \in 1..Len(ended) : ended'[i] = ended[i]
    BY <1>1
  <1>8. ASSUME NEW i \in 1..m PROVE auditLog'[i] = ended'[Len(ended') + 1 - i]
    <2>1. CASE i = 1
      <3>1. auditLog'[i] = n /\ Len(ended') + 1 - i = Len(ended) + 1
        BY <1>1, <1>2, <1>5, <1>6, <2>1
      <3> QED
        BY <1>6, <3>1
    <2>2. CASE i # 1
      <3>1. /\ i \in Nat /\ 2 <= i /\ i <= Len(auditLog) + 1 /\ i - 1 \in 1..Len(auditLog)
            /\ Len(ended) + 1 - (i - 1) = (Len(ended) + 1) + 1 - i
            /\ Len(ended) + 1 - (i - 1) \in 1..Len(ended)
        BY <1>1, <2>2, PlacesMove DEF m
      <3>2. auditLog'[i] = auditLog[i - 1] /\ auditLog[i - 1] = ended[Len(ended) + 1 - (i - 1)]
        BY <1>2, <1>5, <3>1 DEF PipeInv
      <3> QED
        BY <1>6, <3>1, <3>2
    <2> QED
      BY <2>1, <2>2
  <1> QED
    BY <1>3, <1>5, <1>6, <1>8 DEF PipeInv

LEMMA PipeInvStep == PipeInv /\ [PipeNext]_pipeVars => PipeInv'
  <1> SUFFICES ASSUME PipeInv, [PipeNext]_pipeVars PROVE PipeInv'
    OBVIOUS
  <1>a. slot \in [PipeSlots -> SlotRec] /\ arrivals \in Nat /\ Free \in SlotRec
    BY DEF PipeInv, Free, SlotRec
  <1>b. ASSUME slot' \in [PipeSlots -> SlotRec], arrivals' \in Nat, UNCHANGED <<auditLog, ended>>
        PROVE  PipeInv'
    BY <1>b DEF PipeInv
  <1>1. ASSUME NEW r \in Arriving, refuse(r) PROVE PipeInv'
    <2>1. arrivals' = arrivals + 1 /\ UNCHANGED slot /\ Finish(r, arrivals + 1) /\ arrivals + 1 \in Nat
      BY <1>1, <1>a DEF refuse
    <2> QED
      BY <1>a, <1>b, <2>1, Logged DEF Finish
  <1>2. ASSUME NEW s \in PipeSlots, NEW r \in Arriving, NEW on \in BOOLEAN, admit(s, r, on) PROVE PipeInv'
    <2>1. r.route \in Routes
      BY DEF Arriving, PipeRequests
    <2>2. arrivals' \in Nat /\ UNCHANGED <<auditLog, ended>>
      BY <1>2, <1>a DEF admit
    <2>3. slot' \in [PipeSlots -> SlotRec]
      BY <1>2, <1>a, <2>1 DEF admit, SlotRec
    <2> QED
      BY <1>b, <2>2, <2>3
  <1>3. ASSUME NEW s \in PipeSlots, NEW b \in BOOLEAN, signed(s, b) PROVE PipeInv'
    <2>1. UNCHANGED <<auditLog, ended, arrivals>>
      BY <1>3 DEF signed
    <2>2. slot' \in [PipeSlots -> SlotRec]
      BY <1>3, <1>a DEF signed, SlotRec
    <2> QED
      BY <1>a, <1>b, <2>1, <2>2
  <1>4. ASSUME NEW s \in PipeSlots, NEW b \in BOOLEAN, pipeRespond(s, b) PROVE PipeInv'
    <2>1. /\ slot' \in [PipeSlots -> SlotRec] /\ arrivals' \in Nat /\ slot[s].seq \in Nat
      BY <1>4, <1>a DEF pipeRespond, SlotRec
    <2>2. UNCHANGED <<auditLog, ended>> \/ Finish([route |-> slot[s].req], slot[s].seq)
      BY <1>4 DEF pipeRespond
    <2> QED
      BY <1>b, <2>1, <2>2, Logged DEF Finish
  <1>5. CASE editFlags \/ UNCHANGED pipeVars
    BY <1>a, <1>b, <1>5 DEF editFlags, pipeVars
  <1> QED
    BY <1>1, <1>2, <1>3, <1>4, <1>5 DEF PipeNext

(* createAdminAuditMiddleware: the audit log is the requests that ended    *)
(* last, newest first, as many as it may hold.                             *)
LEMMA LatestAreKept == Spec => []AuditKeepsLatest
  <1>1. Init => PipeInv
    BY PipeInvInit DEF Init
  <1>2. PipeInv /\ [Next]_vars => PipeInv'
    BY PartsRun, PipeInvStep
  <1>3. ASSUME PipeInv PROVE AuditKeepsLatest
    <2> DEFINE e == Len(ended)
               a == IF e > AuditRetention THEN e - AuditRetention + 1 ELSE 1
               last == SubSeq(ended, a, e)
    <2>1. /\ auditLog \in Seq(Nat) /\ ended \in Seq(Nat) /\ Len(auditLog) \in Nat /\ Len(ended) \in Nat
          /\ Len(auditLog) = Kept(Len(ended))
      BY <1>3 DEF PipeInv
    <2> HIDE DEF last
    <2>2. /\ e \in Nat /\ a \in Nat /\ a >= 1 /\ Len(auditLog) = e - a + 1
          /\ \A i \in 1..Len(auditLog) : /\ (Len(auditLog) - i) + 1 \in 1..Len(auditLog)
                                         /\ a + ((Len(auditLog) - i) + 1) - 1 = e + 1 - i
      <3>1. Len(auditLog) = Kept(e) /\ e \in Nat
        BY <2>1
      <3> HIDE DEF e
      <3>2. e \in Nat /\ a \in Nat /\ a >= 1 /\ Kept(e) = e - a + 1
        BY <3>1, KeptFrom
      <3> HIDE DEF a
      <3> QED
        BY <3>1, <3>2
    <2> HIDE DEF a
    <2>3. /\ last \in Seq(Nat) /\ Len(last) = Len(auditLog)
          /\ \A i \in 1..Len(last) : last[i] = ended[a + i - 1]
      <3>1. \A i \in a..e : ended[i] \in Nat
        BY <2>1, <2>2
      <3> QED
        BY <2>2, <3>1, SubSeqProperties DEF last
    <2>4. Reverse(last) = [i \in 1..Len(last) |-> last[(Len(last) - i) + 1]]
      BY DEF Reverse
    <2>5. \A i \in 1..Len(auditLog) : auditLog[i] = last[(Len(last) - i) + 1]
      <3> SUFFICES ASSUME NEW i \in 1..Len(auditLog) PROVE auditLog[i] = last[(Len(last) - i) + 1]
        OBVIOUS
      <3>1. (Len(last) - i) + 1 \in 1..Len(last)
        BY <2>2, <2>3
      <3>2. a + ((Len(last) - i) + 1) - 1 = Len(ended) + 1 - i
        BY <2>2, <2>3
      <3> QED
        BY <1>3, <2>3, <3>1, <3>2 DEF PipeInv
    <2>6. auditLog = [i \in 1..Len(auditLog) |-> auditLog[i]]
      BY <2>1
    <2>7. auditLog = Reverse(last)
      BY <2>3, <2>4, <2>5, <2>6
    <2> QED
      BY <2>7 DEF AuditKeepsLatest, last, a
  <1> QED
    BY <1>1, <1>2, <1>3, PTL DEF Spec

(* maintenanceModeMiddleware: while maintenance is on no vault write joins *)
(* those admitted before.                                                  *)
THEOREM MaintenanceDrains == Spec => WritesDrain
  <1>1. Init => PipeInv
    BY PipeInvInit DEF Init
  <1>2. PipeInv /\ [Next]_vars => PipeInv'
    BY PartsRun, PipeInvStep
  <1>3. ASSUME PipeInv, [PipeNext]_pipeVars, maint, maint', NEW s \in PipeSlots, s \in WritingNow'
        PROVE  s \in WritingNow
    <2> DEFINE W == {"deposit", "depositV2"}
    <2>1. slot \in [PipeSlots -> SlotRec] /\ Free.req \notin W
      BY <1>3 DEF PipeInv, Free
    <2>2. slot'[s].req \in W
      BY <1>3 DEF WritingNow
    <2>3. ASSUME NEW t \in PipeSlots, NEW r \in Arriving, NEW on \in BOOLEAN, admit(t, r, on)
          PROVE  slot[s].req \in W
      <3>1. r.route \notin W
        BY <1>3, <2>3 DEF admit, Passes, maintenanceModeMiddleware, isMutatingMethod, isMaintenanceBypassPath
      <3> QED
        BY <2>1, <2>2, <2>3, <3>1 DEF admit
    <2>4. ASSUME NEW t \in PipeSlots, NEW b \in BOOLEAN, signed(t, b) PROVE slot[s].req \in W
      BY <2>1, <2>2, <2>4 DEF signed, SlotRec
    <2>5. ASSUME NEW t \in PipeSlots, NEW b \in BOOLEAN, pipeRespond(t, b) PROVE slot[s].req \in W
      <3>1. slot' = [slot EXCEPT ![t] = Free]
        BY <2>5 DEF pipeRespond
      <3> QED
        BY <2>1, <2>2, <3>1
    <2>6. ASSUME UNCHANGED slot PROVE slot[s].req \in W
      BY <2>2, <2>6
    <2>7. slot[s].req \in W
      <3> HIDE DEF W
      <3>1. ASSUME NEW r \in Arriving, refuse(r) PROVE UNCHANGED slot
        BY <3>1 DEF refuse
      <3>2. editFlags \/ UNCHANGED pipeVars => UNCHANGED slot
        BY DEF editFlags, pipeVars
      <3> QED
        BY <1>3, <2>3, <2>4, <2>5, <2>6, <3>1, <3>2 DEF PipeNext
    <2> QED
      BY <2>7 DEF WritingNow
  <1>4. PipeInv /\ [Next]_vars => [maint /\ maint' => WritingNow' \subseteq WritingNow]_pipeVars
    <2> SUFFICES ASSUME PipeInv, [PipeNext]_pipeVars, maint, maint' PROVE WritingNow' \subseteq WritingNow
      BY PartsRun
    <2> SUFFICES ASSUME NEW s \in WritingNow' PROVE s \in WritingNow
      OBVIOUS
    <2>1. s \in PipeSlots
      BY DEF WritingNow
    <2> QED
      BY <1>3, <2>1
  <1> QED
    BY <1>1, <1>2, <1>4, PTL DEF Spec, WritesDrain

-----------------------------------------------------------------------------
(* The API keys *)

KeyOps == {"created", "rotated", "revoked"}

KeyNoted(k) == \E i \in DOMAIN keyEvents : keyEvents[i].key = k /\ keyEvents[i].action # "revoked"

\* A call under way has put the key into the set.
Made(c, k) == keyCalls[c].op # "revoked" /\ keyCalls[c].key = k

\* The key was seeded, is in the trail, or is made by a call under way.
Accounted(k) == k \in SeedKeys \/ KeyNoted(k) \/ \E d \in DOMAIN keyCalls : Made(d, k)

\* The same of the calls other than c.
Stands(k, c) ==
    k \in SeedKeys \/ KeyNoted(k) \/ \E d \in DOMAIN keyCalls : d # c /\ Made(d, k)

KeyCallRec == [op : KeyOps, key : ApiKeys_, old : ApiKeys_]

KeyTyped ==
    /\ \A c \in DOMAIN keyCalls :
          keyCalls[c] \in KeyCallRec /\ (keyCalls[c].op # "rotated" => keyCalls[c].old = keyCalls[c].key)
    /\ keyEvents \in Seq([action : KeyOps, key : ApiKeys_]) /\ keyFaults \in Nat

\* Every accepted key is accounted for; with no event refused, so is without a
\* call what that call would put back.  Of a key only one call has in hand, what is
\* accepted is what that call made.
KInv ==
    /\ KeyTyped
    /\ keyFaults < 2 => \A k \in apiKeys : Accounted(k)
    /\ keyFaults = 0 =>
         /\ \A c \in DOMAIN keyCalls : keyCalls[c].op # "created" => Stands(keyCalls[c].old, c)
         /\ \A c \in DOMAIN keyCalls :
              \A k \in (Hands(keyCalls[c]) \ keyOverlap) \cap apiKeys : Made(c, k)
         /\ TrailTellsRevocation
    /\ \A c, d \in DOMAIN keyCalls :
          c # d => Hands(keyCalls[c]) \cap Hands(keyCalls[d]) \subseteq keyOverlap

LEMMA KInvInit == KeyInit => KInv
  BY DEF KeyInit, KInv, KeyTyped, Accounted, TrailTellsRevocation

\* A call begins: it only adds a key that it makes, and takes none but what it
\* has in hand.
LEMMA CallBegins ==
    ASSUME KInv, NEW c, NEW op \in KeyOps, NEW key \in ApiKeys_, NEW old \in ApiKeys_,
           awaitEvent(c, op, key, old), op # "rotated" => old = key,
           apiKeys' \subseteq apiKeys \cup (IF op = "revoked" THEN {} ELSE {key}),
           (apiKeys' \cap {key, old}) \subseteq (IF op = "revoked" THEN {} ELSE {key}),
           op # "created" => old \in apiKeys
    PROVE  KInv'
  <1> DEFINE call == [op |-> op, key |-> key, old |-> old]
  <1>1. /\ c \notin DOMAIN keyCalls
        /\ keyCalls' = [d \in DOMAIN keyCalls \cup {c} |-> IF d = c THEN call ELSE keyCalls[d]]
        /\ keyOverlap' = keyOverlap \cup (Hands(call) \cap InHand)
        /\ UNCHANGED <<keyEvents, keyFaults>>
    BY DEF awaitEvent
  <1>2. call \in KeyCallRec /\ Hands(call) = {key, old} /\ call.op = op /\ call.key = key /\ call.old = old
    BY DEF KeyCallRec, Hands
  <1> HIDE DEF call
  <1>3. /\ DOMAIN keyCalls' = DOMAIN keyCalls \cup {c} /\ keyCalls'[c] = call
        /\ \A d \in DOMAIN keyCalls : d # c /\ keyCalls'[d] = keyCalls[d]
    BY <1>1
  <1>4. KeyTyped'
    BY <1>1, <1>2, <1>3 DEF KInv, KeyTyped
  <1>5. \A k, d : (Stands(k, d) => Stands(k, d)') /\ (Accounted(k) => Accounted(k)')
    BY <1>1, <1>3 DEF Stands, Accounted, KeyNoted, Made
  <1>6. ASSUME keyFaults' < 2, NEW k \in apiKeys' PROVE Accounted(k)'
    <2>1. CASE k \in apiKeys
      BY <1>1, <1>5, <1>6, <2>1 DEF KInv
    <2>2. CASE k \notin apiKeys
      <3>1. op # "revoked" /\ k = key
        BY <1>6, <2>2
      <3> QED
        BY <1>2, <1>3, <3>1 DEF Accounted, Made
    <2> QED
      BY <2>1, <2>2
  <1>7. ASSUME keyFaults' = 0, NEW d \in DOMAIN keyCalls', keyCalls'[d].op # "created"
        PROVE  \A o : o = keyCalls'[d].old => Stands(o, d)'
    <2>1. CASE d = c
      <3>1. keyCalls'[d].old = old /\ op # "created" /\ keyFaults < 2
        BY <1>1, <1>2, <1>3, <1>7, <2>1
      <3>2. Accounted(old)
        BY <3>1 DEF KInv
      <3> QED
        BY <1>1, <1>5, <2>1, <3>1, <3>2 DEF Accounted, Stands
    <2>2. CASE d # c
      <3>1. d \in DOMAIN keyCalls /\ keyCalls'[d] = keyCalls[d] /\ keyFaults = 0
        BY <1>1, <1>3, <1>7, <2>2
      <3>2. Stands(keyCalls[d].old, d)
        BY <1>7, <3>1 DEF KInv
      <3> QED
        BY <1>5, <3>1, <3>2
    <2> QED
      BY <2>1, <2>2
  <1>8. \A d \in DOMAIN keyCalls : Hands(keyCalls[d]) \subseteq InHand
    BY DEF InHand
  <1>9. ASSUME keyFaults' = 0, NEW d \in DOMAIN keyCalls',
               NEW k \in (Hands(keyCalls'[d]) \ keyOverlap') \cap apiKeys'
        PROVE  Made(d, k)'
    <2>1. CASE d = c
      BY <1>2, <1>3, <1>9, <2>1 DEF Made
    <2>2. CASE d # c
      <3>1. d \in DOMAIN keyCalls /\ keyCalls'[d] = keyCalls[d]
        BY <1>1, <1>3, <2>2
      <3>2. k \in InHand /\ k \notin {key, old} /\ k \notin keyOverlap
        BY <1>1, <1>2, <1>8, <1>9, <3>1
      <3>3. k \in apiKeys
        BY <1>9, <3>2
      <3>4. Made(d, k)
        BY <1>1, <1>9, <3>1, <3>2, <3>3 DEF KInv
      <3> QED
        BY <3>1, <3>4 DEF Made
    <2> QED
      BY <2>1, <2>2
  <1>10. InHand' = InHand \cup {key, old}
    BY <1>2, <1>3 DEF InHand
  <1>11. ASSUME keyFaults' = 0, NEW k \in apiKeys' \ (InHand' \cup keyOverlap')
         PROVE  k \in apiKeys \ (InHand \cup keyOverlap)
    BY <1>1, <1>10, <1>11
  <1>12. keyFaults' = 0 => TrailTellsRevocation'
    BY <1>1, <1>11 DEF KInv, TrailTellsRevocation, LastEvent
  <1>13. \A d, e \in DOMAIN keyCalls' :
            d # e => Hands(keyCalls'[d]) \cap Hands(keyCalls'[e]) \subseteq keyOverlap'
    BY <1>1, <1>3, <1>8 DEF KInv
  <1> QED
    BY <1>4, <1>6, <1>7, <1>9, <1>12, <1>13 DEF KInv

\* A call ends.
LEMMA CallEnds ==
    ASSUME KInv, NEW c \in DOMAIN keyCalls,
           keyCalls' = [d \in DOMAIN keyCalls \ {c} |-> keyCalls[d]], UNCHANGED keyOverlap
    PROVE  /\ DOMAIN keyCalls' = DOMAIN keyCalls \ {c}
           /\ \A d \in DOMAIN keyCalls' : d # c /\ d \in DOMAIN keyCalls /\ keyCalls'[d] = keyCalls[d]
           /\ \A d, e \in DOMAIN keyCalls' :
                 d # e => Hands(keyCalls'[d]) \cap Hands(keyCalls'[e]) \subseteq keyOverlap'
           /\ InHand \subseteq InHand' \cup Hands(keyCalls[c])
  <1>1. /\ DOMAIN keyCalls' = DOMAIN keyCalls \ {c}
        /\ \A d \in DOMAIN keyCalls' : d # c /\ d \in DOMAIN keyCalls /\ keyCalls'[d] = keyCalls[d]
    OBVIOUS
  <1>2. InHand \subseteq InHand' \cup Hands(keyCalls[c])
    BY <1>1 DEF InHand
  <1> QED
    BY <1>1, <1>2 DEF KInv

\* The event of a call that made a key notes it.
LEMMA EventNoted ==
    ASSUME KInv, NEW c, recordApiKeyAuditEvent(c) PROVE KInv'
  <1> DEFINE n == Len(keyEvents) + 1
             e == [action |-> keyCalls[c].op, key |-> keyCalls[c].key]
  <1>1. /\ c \in DOMAIN keyCalls /\ keyEvents' = Append(keyEvents, e)
        /\ keyCalls' = [d \in DOMAIN keyCalls \ {c} |-> keyCalls[d]]
        /\ UNCHANGED <<apiKeys, keyOverlap, keyFaults>>
    BY DEF recordApiKeyAuditEvent
  <1>2. keyCalls[c] \in KeyCallRec /\ keyEvents \in Seq([action : KeyOps, key : ApiKeys_])
    BY <1>1 DEF KInv, KeyTyped
  <1>3. e \in [action : KeyOps, key : ApiKeys_] /\ e.action = keyCalls[c].op /\ e.key = keyCalls[c].key
    BY <1>2 DEF KeyCallRec
  <1> HIDE DEF e
  <1>4. /\ DOMAIN keyCalls' = DOMAIN keyCalls \ {c}
        /\ \A d \in DOMAIN keyCalls' : d # c /\ d \in DOMAIN keyCalls /\ keyCalls'[d] = keyCalls[d]
        /\ \A d, f \in DOMAIN keyCalls' :
              d # f => Hands(keyCalls'[d]) \cap Hands(keyCalls'[f]) \subseteq keyOverlap'
        /\ InHand \subseteq InHand' \cup Hands(keyCalls[c])
    BY <1>1, CallEnds
  <1>5. /\ keyEvents' \in Seq([action : KeyOps, key : ApiKeys_])
        /\ n \in DOMAIN keyEvents' /\ keyEvents'[n] = e
        /\ \A i \in DOMAIN keyEvents' : i # n => i \in DOMAIN keyEvents /\ keyEvents'[i] = keyEvents[i]
        /\ \A i \in DOMAIN keyEvents : i \in DOMAIN keyEvents' /\ keyEvents'[i] = keyEvents[i] /\ n > i
    BY <1>1, <1>2, <1>3
  <1> HIDE DEF n
  <1>6. KeyTyped'
    BY <1>1, <1>4, <1>5 DEF KInv, KeyTyped
  <1>7. \A k : KeyNoted(k) => KeyNoted(k)'
    BY <1>5 DEF KeyNoted
  <1>8. \A k : Made(c, k) => KeyNoted(k)'
    BY <1>3, <1>5 DEF Made, KeyNoted
  <1>9. \A k, d : (Stands(k, d) => Stands(k, d)') /\ (Accounted(k) => Accounted(k)')
    BY <1>4, <1>7, <1>8 DEF Stands, Accounted, Made
  <1>10. ASSUME keyFaults' = 0, NEW d \in DOMAIN keyCalls', keyCalls'[d].op # "created"
         PROVE  \A o : o = keyCalls'[d].old => Stands(o, d)'
    BY <1>1, <1>4, <1>9, <1>10 DEF KInv
  <1>11. ASSUME keyFaults' = 0, NEW d \in DOMAIN keyCalls',
                NEW k \in (Hands(keyCalls'[d]) \ keyOverlap') \cap apiKeys'
         PROVE  Made(d, k)'
    <2>1. Made(d, k)
      BY <1>1, <1>4, <1>11 DEF KInv
    <2> QED
      BY <1>4, <2>1 DEF Made
  <1>12. ASSUME keyFaults' = 0, NEW k \in apiKeys' \ (InHand' \cup keyOverlap'),
                NEW i \in DOMAIN keyEvents', keyEvents'[i].key = k,
                \A j \in DOMAIN keyEvents' : j > i => keyEvents'[j].key # k
         PROVE  keyEvents'[i].action # "revoked"
    <2>1. CASE k \in Hands(keyCalls[c])
      <3>1. Made(c, k)
        BY <1>1, <1>12, <2>1 DEF KInv
      <3>2. i = n
        BY <1>3, <1>5, <1>12, <3>1 DEF Made
      <3> QED
        BY <1>3, <1>5, <3>1, <3>2 DEF Made
    <2>2. CASE k \notin Hands(keyCalls[c])
      <3>1. e.key # k /\ k \in apiKeys \ (InHand \cup keyOverlap) /\ keyFaults = 0
        BY <1>1, <1>3, <1>4, <1>12, <2>2 DEF Hands
      <3>2. i \in DOMAIN keyEvents /\ keyEvents'[i] = keyEvents[i]
        BY <1>5, <1>12, <3>1
      <3>3. LastEvent(i, k)
        BY <1>5, <1>12, <3>2 DEF LastEvent
      <3> QED
        BY <3>1, <3>2, <3>3 DEF KInv, TrailTellsRevocation
    <2> QED
      BY <2>1, <2>2
  <1>13. keyFaults' = 0 => TrailTellsRevocation'
    BY <1>12 DEF TrailTellsRevocation, LastEvent
  <1> QED
    BY <1>1, <1>4, <1>6, <1>9, <1>10, <1>11, <1>13 DEF KInv

\* A call whose event is refused puts back what is accounted for without it.
LEMMA EventFails ==
    ASSUME KInv, NEW c, eventRefused(c) PROVE KInv'
  <1>1. /\ c \in DOMAIN keyCalls /\ apiKeys' = undone(keyCalls[c]) /\ keyFaults' = keyFaults + 1
        /\ keyCalls' = [d \in DOMAIN keyCalls \ {c} |-> keyCalls[d]]
        /\ UNCHANGED <<keyEvents, keyOverlap>>
    BY DEF eventRefused
  <1>2. /\ keyCalls[c] \in KeyCallRec /\ keyFaults \in Nat
        /\ keyCalls[c].op # "rotated" => keyCalls[c].old = keyCalls[c].key
    BY <1>1 DEF KInv, KeyTyped
  <1>3. /\ DOMAIN keyCalls' = DOMAIN keyCalls \ {c}
        /\ \A d \in DOMAIN keyCalls' : d # c /\ d \in DOMAIN keyCalls /\ keyCalls'[d] = keyCalls[d]
        /\ \A d, e \in DOMAIN keyCalls' :
              d # e => Hands(keyCalls'[d]) \cap Hands(keyCalls'[e]) \subseteq keyOverlap'
    BY <1>1, CallEnds
  <1>4. KeyTyped'
    BY <1>1, <1>2, <1>3 DEF KInv, KeyTyped
  <1>5. keyFaults' # 0 /\ (keyFaults' < 2 => keyFaults = 0)
    BY <1>1, <1>2
  <1>6. \A k : Stands(k, c) => Accounted(k)'
    BY <1>1, <1>3 DEF Stands, Accounted, KeyNoted, Made
  <1>7. \A k : Accounted(k) /\ ~Made(c, k) => Stands(k, c)
    BY DEF Accounted, Stands
  <1>8. ASSUME keyFaults = 0, NEW k \in apiKeys' PROVE Stands(k, c)
    <2>1. \A x \in apiKeys : Accounted(x)
      BY <1>8 DEF KInv
    <2>2. keyCalls[c].op # "created" => Stands(keyCalls[c].old, c)
      BY <1>1, <1>8 DEF KInv
    <2>3. CASE keyCalls[c].op = "created"
      BY <1>1, <1>7, <1>8, <2>1, <2>3 DEF undone, Made
    <2>4. CASE keyCalls[c].op = "rotated"
      BY <1>1, <1>7, <1>8, <2>1, <2>2, <2>4 DEF undone, Made
    <2>5. CASE keyCalls[c].op = "revoked"
      BY <1>1, <1>2, <1>7, <1>8, <2>1, <2>2, <2>5 DEF undone, Made
    <2> QED
      BY <1>2, <2>3, <2>4, <2>5 DEF KeyCallRec, KeyOps
  <1> QED
    BY <1>3, <1>4, <1>5, <1>6, <1>8 DEF KInv

LEMMA KInvStep == KInv /\ [KeyNext]_keyVars => KInv'
  <1> SUFFICES ASSUME KInv, [KeyNext]_keyVars PROVE KInv'
    OBVIOUS
  <1>1. ASSUME NEW c \in KeyCalls, NEW key \in ApiKeys_, postRegister(c, key) PROVE KInv'
    <2>1. apiKeys' = apiKeys \cup {key} /\ awaitEvent(c, "created", key, key) /\ "created" \in KeyOps
      BY <1>1 DEF postRegister, registerApiKey, KeyOps
    <2> QED
      BY <2>1, CallBegins
  <1>2. ASSUME NEW c \in KeyCalls, NEW key \in ApiKeys_, postRevoke(c, key) PROVE KInv'
    <2>1. /\ key \in apiKeys /\ apiKeys' = apiKeys \ {key}
          /\ awaitEvent(c, "revoked", key, key) /\ "revoked" \in KeyOps
      BY <1>2 DEF postRevoke, revokeApiKey, KeyOps
    <2> QED
      BY <2>1, CallBegins
  <1>3. ASSUME NEW c \in KeyCalls, NEW key \in ApiKeys_, NEW old \in ApiKeys_, postRotate(c, old, key)
        PROVE  KInv'
    <2>1. /\ old \in apiKeys /\ apiKeys' = (apiKeys \ {old}) \cup {key}
          /\ awaitEvent(c, "rotated", key, old) /\ "rotated" \in KeyOps
      BY <1>3 DEF postRotate, rotateApiKey, KeyOps
    <2> QED
      BY <2>1, CallBegins
  <1>4. CASE UNCHANGED keyVars
    <2>1. KeyTyped' /\ \A k, d : (Stands(k, d) => Stands(k, d)') /\ (Accounted(k) => Accounted(k)')
      BY <1>4 DEF keyVars, KInv, KeyTyped, Stands, Accounted, KeyNoted, Made
    <2>2. TrailTellsRevocation => TrailTellsRevocation'
      BY <1>4 DEF keyVars, TrailTellsRevocation, LastEvent, InHand, Hands
    <2> QED
      BY <1>4, <2>1, <2>2 DEF keyVars, KInv, Made, Hands
  <1> QED
    BY <1>1, <1>2, <1>3, <1>4, EventNoted, EventFails DEF KeyNext

LEMMA KInvHolds == Spec => []KInv
  <1>1. Init => KInv
    BY KInvInit DEF Init
  <1>2. KInv /\ [Next]_vars => KInv'
    BY PartsRun, KInvStep
  <1> QED
    BY <1>1, <1>2, PTL DEF Spec

\* A key no call has in hand is made by none.
LEMMA KeysAccounted == KInv => KeysAreAudited /\ TrailTellsRevocation
  <1> SUFFICES ASSUME KInv PROVE KeysAreAudited /\ TrailTellsRevocation
    OBVIOUS
  <1>1. \A k : \A d \in DOMAIN keyCalls : Made(d, k) => k \in InHand
    BY DEF Made, InHand, Hands
  <1>2. KeysAreAudited
    BY <1>1 DEF KInv, KeysAreAudited, Accounted, KeyNoted
  <1>3. TrailTellsRevocation
    BY DEF KInv, TrailTellsRevocation
  <1> QED
    BY <1>2, <1>3

-----------------------------------------------------------------------------
(* What administrators change *)

\* Items whose changes get a receipt and live in memory.
Receipted == {<<"maintenance">>} \cup ({"allow"} \X AdWallets)

Overrides == {"override"} \X AdWallets

LEMMA ItemsApart ==
    /\ Receipted \subseteq AdItems /\ Overrides \subseteq AdItems /\ DbItems \subseteq AdItems
    /\ Receipted \cap DbItems = {} /\ Receipted \cap Overrides = {}
    /\ <<"maintenance">> \in Receipted /\ <<"backfill">> \in DbItems /\ <<"replay">> \in DbItems
    /\ \A w \in AdWallets : <<"allow", w>> \in Receipted /\ <<"override", w>> \in Overrides
  <1>1. /\ Receipted \subseteq AdItems /\ Overrides \subseteq AdItems /\ DbItems \subseteq AdItems
    BY DEF Receipted, Overrides, AdItems
  <1>2. \A x \in {"allow"} \X AdWallets : Len(x) = 2 /\ x[1] = "allow"
    OBVIOUS
  <1>3. \A x \in Overrides : Len(x) = 2 /\ x[1] = "override"
    BY DEF Overrides
  <1>4. \A x \in DbItems : Len(x) = 1 /\ x[1] \in {"backfill", "replay"}
    BY DEF DbItems
  <1>5. Len(<<"maintenance">>) = 1 /\ <<"maintenance">>[1] = "maintenance"
    OBVIOUS
  <1>6. Receipted \cap DbItems = {} /\ Receipted \cap Overrides = {}
    BY <1>2, <1>3, <1>4, <1>5 DEF Receipted
  <1>7. <<"maintenance">> \in Receipted /\ <<"backfill">> \in DbItems /\ <<"replay">> \in DbItems
    BY DEF Receipted, DbItems
  <1>8. \A w \in AdWallets : <<"allow", w>> \in Receipted /\ <<"override", w>> \in Overrides
    BY Zenon DEF Receipted, Overrides
  <1> QED
    BY <1>1, <1>6, <1>7, <1>8

\* A handler is about to ask for the receipt of a change of the item.
Asking(item) ==
    \E c \in DOMAIN adCalls : adCalls[c].at = "receipt" /\ adChanges[adCalls[c].change].item = item

AdTyped ==
    /\ adChanges \in Seq([item : AdItems, on : BOOLEAN])
    /\ inForce \in [AdItems -> [on : BOOLEAN, by : Nat]]
    /\ \A c \in DOMAIN adCalls : /\ adCalls[c] \in [at : {"receipt", "audit"}, change : Nat]
                                 /\ adCalls[c].change \in 1..Len(adChanges)
                                 /\ adCalls[c].change > lostAt
    /\ receipts \in Seq(Nat) /\ \A i \in DOMAIN receipts : receipts[i] \in 1..Len(adChanges)
    /\ lostAt \in Nat /\ lostAt <= Len(adChanges)

\* What is in force was changed by a handler at work or with a trace.  Unless
\* two handlers worked on an item at a time, the one about to ask for its
\* receipt made it what it is, and with none the last receipt tells.
AdInv ==
    /\ AdTyped
    /\ \A item \in AdItems : inForce[item].by # 0 =>
          inForce[item].by \in 1..Len(adChanges) /\ adChanges[inForce[item].by].item = item
    /\ InForceIsDocumented
    /\ \A c, d \in DOMAIN adCalls :
          c # d /\ adChanges[adCalls[c].change].item = adChanges[adCalls[d].change].item
            => adChanges[adCalls[c].change].item \in adOverlap
    /\ \A item \in Receipted \ adOverlap :
         /\ \A c \in DOMAIN adCalls :
               adCalls[c].at = "receipt" /\ adChanges[adCalls[c].change].item = item
                 => inForce[item].on = adChanges[adCalls[c].change].on
         /\ ~Asking(item) => \A i \in DOMAIN receipts :
               LastReceipt(i, item) => inForce[item].on = adChanges[receipts[i]].on

LEMMA AdInvInit == AdInit => AdInv
  <1> SUFFICES ASSUME AdInit PROVE AdInv
    OBVIOUS
  <1>1. AdTyped
    BY DEF AdInit, AdTyped, seedFromEnv
  <1>2. \A item \in AdItems : inForce[item].by = 0
    BY DEF AdInit, seedFromEnv
  <1> QED
    BY <1>1, <1>2 DEF AdInit, AdInv, InForceIsDocumented

\* A handler changes an item and goes on to its receipt or its audit entry.
LEMMA ItemChanged ==
    ASSUME AdInv, NEW c, NEW item \in AdItems, NEW on \in BOOLEAN, NEW at \in {"receipt", "audit"},
           Change(c, item, on, at), item \in Receipted => at = "receipt",
           inForce' \in [AdItems -> [on : BOOLEAN, by : Nat]],
           \A j \in AdItems : j # item => inForce'[j] = inForce[j],
           inForce'[item].on = on,
           inForce'[item].by = Len(adChanges) + 1 \/ inForce'[item] = inForce[item]
    PROVE  AdInv'
  <1> DEFINE n == Len(adChanges) + 1
             call == [at |-> at, change |-> n]
             e == [item |-> item, on |-> on]
  <1>1. /\ c \notin DOMAIN adCalls /\ adChanges' = Append(adChanges, e)
        /\ adCalls' = [d \in DOMAIN adCalls \cup {c} |-> IF d = c THEN call ELSE adCalls[d]]
        /\ adOverlap' = IF Working(item) THEN adOverlap \cup {item} ELSE adOverlap
        /\ UNCHANGED <<auditMode, receipts, auditDb, auditMem, lostAt, adFaults>>
    BY DEF Change
  <1>2. adChanges \in Seq([item : AdItems, on : BOOLEAN]) /\ Len(adChanges) \in Nat
    BY DEF AdInv, AdTyped
  <1>3. /\ e \in [item : AdItems, on : BOOLEAN] /\ e.item = item /\ e.on = on
        /\ call.at = at /\ call.change = n
    OBVIOUS
  <1> HIDE DEF e
  <1>4. /\ adChanges' \in Seq([item : AdItems, on : BOOLEAN]) /\ Len(adChanges') = n /\ n \in Nat /\ n > 0
        /\ adChanges'[n] = e /\ n > Len(adChanges)
        /\ \A m \in 1..Len(adChanges) : adChanges'[m] = adChanges[m] /\ m \in 1..n
    BY <1>1, <1>2, <1>3
  <1>5. call \in [at : {"receipt", "audit"}, change : Nat]
    BY <1>4
  <1> HIDE DEF n, call
  <1>6. /\ DOMAIN adCalls' = DOMAIN adCalls \cup {c} /\ adCalls'[c] = call
        /\ \A d \in DOMAIN adCalls : d # c /\ adCalls'[d] = adCalls[d]
    BY <1>1
  <1>7. /\ \A d \in DOMAIN adCalls : adCalls[d].change \in 1..Len(adChanges) /\ adCalls[d].change > lostAt
        /\ \A i \in DOMAIN receipts : receipts[i] \in 1..Len(adChanges)
        /\ lostAt \in Nat /\ lostAt <= Len(adChanges)
    BY DEF AdInv, AdTyped
  <1>8. AdTyped'
    <2>1. \A d \in DOMAIN adCalls' : /\ adCalls'[d] \in [at : {"receipt", "audit"}, change : Nat]
                                     /\ adCalls'[d].change \in 1..Len(adChanges')
                                     /\ adCalls'[d].change > lostAt'
      <3> SUFFICES ASSUME NEW d \in DOMAIN adCalls'
                   PROVE  /\ adCalls'[d] \in [at : {"receipt", "audit"}, change : Nat]
                          /\ adCalls'[d].change \in 1..Len(adChanges')
                          /\ adCalls'[d].change > lostAt'
        OBVIOUS
      <3>1. CASE d = c
        BY <1>1, <1>2, <1>3, <1>4, <1>5, <1>6, <1>7, <3>1
      <3>2. CASE d # c
        BY <1>1, <1>4, <1>6, <1>7, <3>2 DEF AdInv, AdTyped
      <3> QED
        BY <3>1, <3>2
    <2>2. receipts' \in Seq(Nat) /\ \A i \in DOMAIN receipts' : receipts'[i] \in 1..Len(adChanges')
      BY <1>1, <1>4, <1>7 DEF AdInv, AdTyped
    <2>3. lostAt' \in Nat /\ lostAt' <= Len(adChanges')
      BY <1>1, <1>2, <1>4, <1>7
    <2> QED
      BY <1>4, <2>1, <2>2, <2>3 DEF AdTyped
  <1>9. ASSUME NEW j \in AdItems, inForce'[j].by # 0
        PROVE  inForce'[j].by \in 1..Len(adChanges') /\ adChanges'[inForce'[j].by].item = j
    <2>1. CASE inForce'[j] = inForce[j]
      BY <1>4, <1>9, <2>1 DEF AdInv
    <2>2. CASE inForce'[j] # inForce[j]
      BY <1>3, <1>4, <2>2 DEF n
    <2> QED
      BY <2>1, <2>2
  <1>10. InForceIsDocumented'
    <2>1. \A m : Pending(m) \/ m = n => Pending(m)'
      BY <1>3, <1>6 DEF Pending
    <2>2. \A m : Documented(m) => Documented(m)'
      BY <1>1 DEF Documented
    <2>3. ASSUME NEW j \in AdItems \ DbItems, inForce'[j].by # 0
          PROVE  \A m : m = inForce'[j].by => Pending(m)' \/ Documented(m)'
      <3>1. CASE inForce'[j] = inForce[j]
        BY <2>1, <2>2, <2>3, <3>1 DEF AdInv, InForceIsDocumented
      <3>2. CASE inForce'[j] # inForce[j]
        BY <2>1, <3>2 DEF n
      <3> QED
        BY <3>1, <3>2
    <2> QED
      BY <2>3 DEF InForceIsDocumented
  <1>11. ASSUME NEW d \in DOMAIN adCalls', NEW f \in DOMAIN adCalls', d # f,
                adChanges'[adCalls'[d].change].item = adChanges'[adCalls'[f].change].item
         PROVE  adChanges'[adCalls'[d].change].item \in adOverlap'
    <2>1. \A x \in DOMAIN adCalls : adChanges'[adCalls'[x].change].item = adChanges[adCalls[x].change].item
      BY <1>4, <1>6, <1>7
    <2>2. adChanges'[adCalls'[c].change].item = item
      BY <1>3, <1>4, <1>6
    <2>3. adOverlap \subseteq adOverlap' /\ (Working(item) => item \in adOverlap')
      BY <1>1
    <2>4. \A x \in DOMAIN adCalls : adChanges[adCalls[x].change].item = item => Working(item)
      BY DEF Working
    <2>5. CASE d # c /\ f # c
      <3>1. /\ d \in DOMAIN adCalls /\ f \in DOMAIN adCalls
            /\ adChanges[adCalls[d].change].item = adChanges[adCalls[f].change].item
        BY <1>6, <1>11, <2>1, <2>5
      <3>2. adChanges[adCalls[d].change].item \in adOverlap
        BY <1>11, <3>1 DEF AdInv
      <3> QED
        BY <2>1, <2>3, <3>1, <3>2
    <2>6. CASE d = c
      <3>1. f \in DOMAIN adCalls /\ adChanges[adCalls[f].change].item = item
        BY <1>6, <1>11, <2>1, <2>2, <2>6
      <3> QED
        BY <2>2, <2>3, <2>4, <2>6, <3>1
    <2>7. CASE f = c
      <3>1. d \in DOMAIN adCalls /\ adChanges[adCalls[d].change].item = item
        BY <1>6, <1>11, <2>1, <2>2, <2>7
      <3> QED
        BY <1>11, <2>2, <2>3, <2>4, <2>7, <3>1
    <2> QED
      BY <2>5, <2>6, <2>7
  <1>12. ASSUME NEW j \in Receipted \ adOverlap', NEW d \in DOMAIN adCalls',
                adCalls'[d].at = "receipt", adChanges'[adCalls'[d].change].item = j
         PROVE  inForce'[j].on = adChanges'[adCalls'[d].change].on
    <2>1. CASE d = c
      BY <1>3, <1>4, <1>6, <1>12, <2>1
    <2>2. CASE d # c
      <3>1. /\ d \in DOMAIN adCalls /\ adCalls'[d] = adCalls[d]
            /\ adChanges'[adCalls'[d].change] = adChanges[adCalls[d].change]
        BY <1>4, <1>6, <1>7, <2>2
      <3>2. j # item
        BY <1>1, <1>12, <3>1 DEF Working
      <3>3. j \in AdItems /\ j \in Receipted \ adOverlap
        BY <1>1, <1>12, ItemsApart
      <3> QED
        BY <1>12, <3>1, <3>2, <3>3 DEF AdInv
    <2> QED
      BY <2>1, <2>2
  <1>13. ASSUME NEW j \in Receipted \ adOverlap', ~Asking(j)', NEW i \in DOMAIN receipts', LastReceipt(i, j)'
         PROVE  inForce'[j].on = adChanges'[receipts'[i]].on
    <2>1. j # item
      <3>1. item \in Receipted => adCalls'[c].at = "receipt" /\ adChanges'[adCalls'[c].change].item = item
        BY <1>3, <1>4, <1>6
      <3>2. item \in Receipted => Asking(item)'
        BY <1>6, <3>1 DEF Asking
      <3> QED
        BY <1>13, <3>2
    <2>2. j \in AdItems /\ j \in Receipted \ adOverlap
      BY <1>1, <1>13, ItemsApart
    <2>3. ~Asking(j)
      BY <1>4, <1>6, <1>7, <1>13 DEF Asking
    <2>4. LastReceipt(i, j) /\ i \in DOMAIN receipts /\ adChanges'[receipts'[i]] = adChanges[receipts[i]]
      BY <1>1, <1>4, <1>7, <1>13 DEF LastReceipt
    <2> QED
      BY <2>1, <2>2, <2>3, <2>4 DEF AdInv
  <1> QED
    BY <1>8, <1>9, <1>10, <1>11, <1>12, <1>13 DEF AdInv

\* A handler goes on to its audit entry without a receipt, or is done.
LEMMA HandlerMoves ==
    ASSUME AdInv, NEW c \in DOMAIN adCalls,
           \/ adCalls' = [adCalls EXCEPT ![c].at = "audit"]
           \/ /\ adCalls' = Forget(c)
              /\ \/ adCalls[c].change \in auditDb' \cup auditMem'
                 \/ adChanges[adCalls[c].change].item \in DbItems,
           adCalls[c].at = "receipt" => adChanges[adCalls[c].change].item \in DbItems,
           auditDb \cup auditMem \subseteq auditDb' \cup auditMem',
           UNCHANGED <<inForce, adChanges, receipts, adOverlap, lostAt>>
    PROVE  AdInv'
  <1>1. \A d \in DOMAIN adCalls : adCalls[d] \in [at : {"receipt", "audit"}, change : Nat]
    BY DEF AdInv, AdTyped
  <1>2. \A d \in DOMAIN adCalls' :
           /\ d \in DOMAIN adCalls /\ adCalls'[d].change = adCalls[d].change
           /\ adCalls'[d] \in [at : {"receipt", "audit"}, change : Nat]
           /\ adCalls'[d].at = "receipt" => adCalls[d].at = "receipt"
           /\ d # c => adCalls'[d] = adCalls[d]
    BY <1>1 DEF Forget
  <1>3. \A d \in DOMAIN adCalls : d # c => d \in DOMAIN adCalls' /\ adCalls'[d] = adCalls[d]
    BY <1>1 DEF Forget
  <1>4. \/ c \in DOMAIN adCalls' /\ adCalls'[c].change = adCalls[c].change
        \/ adCalls[c].change \in auditDb' \cup auditMem'
        \/ adChanges[adCalls[c].change].item \in DbItems
    BY <1>1
  <1>5. AdTyped'
    BY <1>2 DEF AdInv, AdTyped
  <1>6. InForceIsDocumented'
    <2> SUFFICES ASSUME NEW j \in AdItems \ DbItems, inForce[j].by # 0, NEW m, m = inForce[j].by
                 PROVE  Pending(m)' \/ Documented(m)'
      BY DEF InForceIsDocumented
    <2>1. adChanges[m].item = j /\ (Pending(m) \/ Documented(m))
      BY DEF AdInv, InForceIsDocumented
    <2>2. CASE Documented(m)
      BY <2>2 DEF Documented
    <2>3. CASE Pending(m)
      <3>1. PICK d \in DOMAIN adCalls : adCalls[d].change = m
        BY <2>3 DEF Pending
      <3>2. CASE d = c
        BY <1>4, <2>1, <3>1, <3>2 DEF Pending, Documented
      <3>3. CASE d # c
        BY <1>3, <3>1, <3>3 DEF Pending
      <3> QED
        BY <3>2, <3>3
    <2> QED
      BY <2>1, <2>2, <2>3
  <1>7. \A d, e \in DOMAIN adCalls' :
          d # e /\ adChanges'[adCalls'[d].change].item = adChanges'[adCalls'[e].change].item
            => adChanges'[adCalls'[d].change].item \in adOverlap'
    BY <1>2 DEF AdInv
  <1>8. ASSUME NEW j \in Receipted \ adOverlap
        PROVE  /\ \A d \in DOMAIN adCalls' :
                     adCalls'[d].at = "receipt" /\ adChanges'[adCalls'[d].change].item = j
                       => inForce'[j].on = adChanges'[adCalls'[d].change].on
               /\ ~Asking(j)' => ~Asking(j)
    <2>1. j \notin DbItems
      BY ItemsApart
    <2>2. ~Asking(j)' => ~Asking(j)
      BY <1>3, <2>1 DEF Asking
    <2>3. \A d \in DOMAIN adCalls' :
                     adCalls'[d].at = "receipt" /\ adChanges'[adCalls'[d].change].item = j
                       => inForce'[j].on = adChanges'[adCalls'[d].change].on
      BY <1>2 DEF AdInv
    <2> QED
      BY <2>2, <2>3
  <1>9. \A i, j : LastReceipt(i, j)' => LastReceipt(i, j)
    BY DEF LastReceipt
  <1>10. \A j \in AdItems : inForce'[j].by # 0 =>
          inForce'[j].by \in 1..Len(adChanges') /\ adChanges'[inForce'[j].by].item = j
    BY DEF AdInv
  <1>11. ASSUME NEW j \in Receipted \ adOverlap', ~Asking(j)', NEW i \in DOMAIN receipts', LastReceipt(i, j)'
         PROVE  inForce'[j].on = adChanges'[receipts'[i]].on
    BY <1>8, <1>9, <1>11 DEF AdInv
  <1> QED
    BY <1>5, <1>6, <1>7, <1>8, <1>10, <1>11 DEF AdInv

\* A receipt is written.
LEMMA ReceiptWritten ==
    ASSUME AdInv, NEW c, generateAdminReceipt(c) PROVE AdInv'
  <1> DEFINE n == adCalls[c].change
             l == Len(receipts) + 1
  <1>1. /\ c \in DOMAIN adCalls /\ adCalls[c].at = "receipt" /\ receipts' = Append(receipts, n)
        /\ adCalls' = [adCalls EXCEPT ![c].at = "audit"]
        /\ UNCHANGED <<inForce, adChanges, auditDb, auditMem, adOverlap, lostAt>>
    BY DEF generateAdminReceipt
  <1>2. /\ \A d \in DOMAIN adCalls : adCalls[d] \in [at : {"receipt", "audit"}, change : Nat]
        /\ receipts \in Seq(Nat) /\ n \in Nat /\ n \in 1..Len(adChanges) /\ n > lostAt
    BY <1>1 DEF AdInv, AdTyped
  <1>3. /\ DOMAIN adCalls' = DOMAIN adCalls
        /\ \A d \in DOMAIN adCalls :
             /\ adCalls'[d] \in [at : {"receipt", "audit"}, change : Nat]
             /\ adCalls'[d].change = adCalls[d].change
             /\ adCalls'[d].at = IF d = c THEN "audit" ELSE adCalls[d].at
    BY <1>1, <1>2
  <1> HIDE DEF n
  <1>4. /\ receipts' \in Seq(Nat) /\ l \in DOMAIN receipts' /\ receipts'[l] = n
        /\ \A i \in DOMAIN receipts' : i # l => i \in DOMAIN receipts /\ receipts'[i] = receipts[i] /\ l > i
        /\ \A i \in DOMAIN receipts : i \in DOMAIN receipts' /\ receipts'[i] = receipts[i]
    BY <1>1, <1>2
  <1> HIDE DEF l
  <1>5. AdTyped'
    <2>1. \A i \in DOMAIN receipts' : receipts'[i] \in 1..Len(adChanges')
      <3>1. \A i \in DOMAIN receipts : receipts[i] \in 1..Len(adChanges)
        BY DEF AdInv, AdTyped
      <3>2. UNCHANGED adChanges
        BY <1>1
      <3> QED
        BY <1>2, <1>4, <3>1, <3>2
    <2>2. \A d \in DOMAIN adCalls' : /\ adCalls'[d] \in [at : {"receipt", "audit"}, change : Nat]
                                     /\ adCalls'[d].change \in 1..Len(adChanges')
                                     /\ adCalls'[d].change > lostAt'
      BY <1>1, <1>3 DEF AdInv, AdTyped
    <2> QED
      BY <1>1, <1>4, <2>1, <2>2 DEF AdInv, AdTyped
  <1>6. InForceIsDocumented'
    <2>1. \A m : Pending(m) => Pending(m)'
      BY <1>3 DEF Pending
    <2>2. ToSet(receipts) \subseteq ToSet(receipts')
      BY <1>2, <1>4 DEF ToSet
    <2>3. \A m : Documented(m) => Documented(m)'
      BY <1>1, <2>2 DEF Documented
    <2>4. \A j \in AdItems \ DbItems : inForce[j].by # 0 =>
             \A m : m = inForce[j].by => Pending(m)' \/ Documented(m)'
      BY <2>1, <2>3 DEF AdInv, InForceIsDocumented
    <2> QED
      BY <1>1, <2>4 DEF InForceIsDocumented
  <1>7. \A d, e \in DOMAIN adCalls' :
          d # e /\ adChanges'[adCalls'[d].change].item = adChanges'[adCalls'[e].change].item
            => adChanges'[adCalls'[d].change].item \in adOverlap'
    BY <1>1, <1>3 DEF AdInv
  <1>8. \A j \in AdItems : inForce'[j].by # 0 =>
          inForce'[j].by \in 1..Len(adChanges') /\ adChanges'[inForce'[j].by].item = j
    BY <1>1 DEF AdInv
  <1>9. ASSUME NEW j \in Receipted \ adOverlap', NEW d \in DOMAIN adCalls',
               adCalls'[d].at = "receipt", adChanges'[adCalls'[d].change].item = j
        PROVE  inForce'[j].on = adChanges'[adCalls'[d].change].on
    BY <1>1, <1>3, <1>9 DEF AdInv
  <1>10. ASSUME NEW j \in Receipted \ adOverlap', ~Asking(j)', NEW i \in DOMAIN receipts', LastReceipt(i, j)'
         PROVE  inForce'[j].on = adChanges'[receipts'[i]].on
    <2>1. CASE adChanges[n].item = j
      <3>1. i = l
        BY <1>1, <1>2, <1>4, <1>10, <2>1 DEF LastReceipt
      <3>2. inForce[j].on = adChanges[n].on
        BY <1>1, <1>10, <2>1 DEF AdInv, n
      <3> QED
        BY <1>1, <1>4, <3>1, <3>2
    <2>2. CASE adChanges[n].item # j
      <3>1. ~Asking(j)
        BY <1>1, <1>3, <1>10, <2>2 DEF Asking, n
      <3>2. i # l
        BY <1>1, <1>4, <1>10, <2>2 DEF LastReceipt
      <3>3. i \in DOMAIN receipts /\ receipts'[i] = receipts[i] /\ LastReceipt(i, j)
        BY <1>1, <1>4, <1>10, <3>2 DEF LastReceipt
      <3> QED
        BY <1>1, <1>10, <3>1, <3>3 DEF AdInv
    <2> QED
      BY <2>1, <2>2
  <1> QED
    BY <1>5, <1>6, <1>7, <1>8, <1>9, <1>10 DEF AdInv

\* The process ends and starts again from the environment's settings.
LEMMA ProcessRestarts ==
    ASSUME AdInv, Crash PROVE AdInv'
  <1>1. /\ inForce' = [i \in AdItems |-> afterCrash(i)] /\ DOMAIN adCalls' = {}
        /\ lostAt' = Len(adChanges) /\ UNCHANGED <<adChanges, receipts, auditDb, adOverlap>>
    BY DEF Crash
  <1>2. \A j \in AdItems : inForce'[j] = IF j \in DbItems THEN inForce[j] ELSE [on |-> FALSE, by |-> 0]
    BY <1>1 DEF afterCrash, seedFromEnv
  <1>3. Len(adChanges) \in Nat /\ \A i \in DOMAIN receipts : receipts[i] \in 1..Len(adChanges)
    BY DEF AdInv, AdTyped
  <1>4. inForce' \in [AdItems -> [on : BOOLEAN, by : Nat]]
    <2>1. \A j \in AdItems : inForce'[j] \in [on : BOOLEAN, by : Nat]
      <3>1. \A j \in AdItems : inForce[j] \in [on : BOOLEAN, by : Nat]
        BY DEF AdInv, AdTyped
      <3>2. [on |-> FALSE, by |-> 0] \in [on : BOOLEAN, by : Nat]
        OBVIOUS
      <3> QED
        BY <1>2, <3>1, <3>2
    <2> QED
      BY <1>1, <2>1
  <1>5. AdTyped'
    BY <1>1, <1>3, <1>4 DEF AdInv, AdTyped
  <1>6. \A j \in AdItems : inForce'[j].by # 0 =>
          /\ j \in DbItems
          /\ inForce'[j].by \in 1..Len(adChanges') /\ adChanges'[inForce'[j].by].item = j
    BY <1>1, <1>2 DEF AdInv
  <1>7. InForceIsDocumented'
    BY <1>6 DEF InForceIsDocumented
  <1>8. \A j : \A i \in DOMAIN receipts' : ~LastReceipt(i, j)'
    BY <1>1, <1>3 DEF LastReceipt
  <1> QED
    BY <1>1, <1>5, <1>6, <1>7, <1>8 DEF AdInv

\* An override past its expiry is dropped.
LEMMA OverrideDropped ==
    ASSUME AdInv, NEW w \in AdWallets, getActiveOverride(w) PROVE AdInv'
  <1> DEFINE item == <<"override", w>>
  <1>1. /\ inForce' = [inForce EXCEPT ![item] = seedFromEnv]
        /\ UNCHANGED <<adChanges, receipts, auditDb, auditMem, adCalls, adOverlap, lostAt>>
    BY DEF getActiveOverride
  <1>2. item \in AdItems /\ item \notin Receipted
    BY ItemsApart
  <1> HIDE DEF item
  <1>3. seedFromEnv \in [on : BOOLEAN, by : Nat] /\ seedFromEnv.by = 0
    BY DEF seedFromEnv
  <1>4. /\ inForce' \in [AdItems -> [on : BOOLEAN, by : Nat]]
        /\ \A j \in AdItems : inForce'[j] = inForce[j] \/ (j = item /\ inForce'[j].by = 0)
    BY <1>1, <1>3 DEF AdInv, AdTyped
  <1>5. AdTyped'
    BY <1>1, <1>4 DEF AdInv, AdTyped
  <1>6. \A j \in AdItems : inForce'[j].by # 0 =>
          inForce'[j].by \in 1..Len(adChanges') /\ adChanges'[inForce'[j].by].item = j
    BY <1>1, <1>4 DEF AdInv
  <1>7. InForceIsDocumented'
    BY <1>1, <1>4 DEF AdInv, InForceIsDocumented, Pending, Documented
  <1>8. \A j \in Receipted : inForce'[j] = inForce[j]
    BY <1>2, <1>4, ItemsApart
  <1>9. \A j : (Asking(j) => Asking(j)') /\ \A i : LastReceipt(i, j)' => LastReceipt(i, j)
    BY <1>1 DEF Asking, LastReceipt
  <1>10. \A d, e \in DOMAIN adCalls' :
          d # e /\ adChanges'[adCalls'[d].change].item = adChanges'[adCalls'[e].change].item
            => adChanges'[adCalls'[d].change].item \in adOverlap'
    BY <1>1 DEF AdInv
  <1>11. ASSUME NEW j \in Receipted \ adOverlap'
         PROVE  /\ \A c \in DOMAIN adCalls' :
                     adCalls'[c].at = "receipt" /\ adChanges'[adCalls'[c].change].item = j
                       => inForce'[j].on = adChanges'[adCalls'[c].change].on
                /\ ~Asking(j)' => \A i \in DOMAIN receipts' :
                     LastReceipt(i, j)' => inForce'[j].on = adChanges'[receipts'[i]].on
    BY <1>1, <1>8, <1>9 DEF AdInv
  <1> QED
    BY <1>5, <1>6, <1>7, <1>10, <1>11 DEF AdInv

\* SetItem, and the change it is part of.
LEMMA ItemSet ==
    ASSUME AdInv, NEW c, NEW item \in AdItems, NEW on \in BOOLEAN, NEW at \in {"receipt", "audit"},
           SetItem(item, on), Change(c, item, on, at), item \in Receipted => at = "receipt"
    PROVE  AdInv'
  <1> DEFINE n == Len(adChanges) + 1
             x == [on |-> on, by |-> n]
  <1>1. inForce' = [inForce EXCEPT ![item] = x] /\ x.on = on /\ x.by = n
    BY DEF SetItem
  <1>2. n \in Nat /\ inForce \in [AdItems -> [on : BOOLEAN, by : Nat]]
    BY DEF AdInv, AdTyped
  <1>3. x \in [on : BOOLEAN, by : Nat]
    BY <1>2
  <1> HIDE DEF x
  <1>4. /\ inForce' \in [AdItems -> [on : BOOLEAN, by : Nat]] /\ inForce'[item] = x
        /\ \A j \in AdItems : j # item => inForce'[j] = inForce[j]
    BY <1>1, <1>2, <1>3
  <1> QED
    BY <1>1, <1>4, ItemChanged

LEMMA AdInvStep == AdInv /\ [AdNext]_adVars => AdInv'
  <1> SUFFICES ASSUME AdInv, [AdNext]_adVars PROVE AdInv'
    OBVIOUS
  <1>a. TRUE \in BOOLEAN /\ FALSE \in BOOLEAN /\ "receipt" \in {"receipt", "audit"} /\ "audit" \in {"receipt", "audit"}
    OBVIOUS
  <1>1. ASSUME NEW c \in AdCalls, NEW on \in BOOLEAN, postMaintenance(c, on) PROVE AdInv'
    <2>1. <<"maintenance">> \in AdItems
      BY ItemsApart
    <2> QED
      BY <1>a, <1>1, <2>1, ItemSet DEF postMaintenance, updateMaintenanceModeState
  <1>2. ASSUME NEW c \in AdCalls, NEW w \in AdWallets, postAllowlistAdd(c, w) PROVE AdInv'
    <2> DEFINE item == <<"allow", w>>
    <2>1. item \in AdItems
      BY ItemsApart
    <2>2. /\ Change(c, item, TRUE, "receipt")
          /\ IF inForce[item].on THEN UNCHANGED inForce ELSE SetItem(item, TRUE)
      BY <1>2 DEF postAllowlistAdd, addAddress
    <2> HIDE DEF item
    <2>3. CASE inForce[item].on
      <3>1. UNCHANGED inForce /\ inForce \in [AdItems -> [on : BOOLEAN, by : Nat]] /\ inForce[item].on \in BOOLEAN
        BY <2>1, <2>2, <2>3 DEF AdInv, AdTyped
      <3>2. inForce'[item].on = TRUE
        BY <2>3, <3>1
      <3> QED
        BY <1>a, <2>1, <2>2, <3>1, <3>2, ItemChanged
    <2>4. CASE ~inForce[item].on
      <3>1. SetItem(item, TRUE)
        BY <2>2, <2>4
      <3> QED
        BY <1>a, <2>1, <2>2, <3>1, ItemSet
    <2> QED
      BY <2>3, <2>4
  <1>3. ASSUME NEW c \in AdCalls, NEW w \in AdWallets, deleteAllowlistRemove(c, w) PROVE AdInv'
    <2>1. <<"allow", w>> \in AdItems
      BY ItemsApart
    <2> QED
      BY <1>a, <1>3, <2>1, ItemSet DEF deleteAllowlistRemove, removeAddress
  <1>4. ASSUME NEW c \in AdCalls, NEW w \in AdWallets, postWithdrawalOverride(c, w) PROVE AdInv'
    <2>1. <<"override", w>> \in AdItems /\ <<"override", w>> \notin Receipted
      BY ItemsApart
    <2> QED
      BY <1>a, <1>4, <2>1, ItemSet DEF postWithdrawalOverride, setWithdrawalLimitOverride
  <1>5. ASSUME NEW c \in AdCalls, postApyBackfill(c) \/ postEventsReplay(c) PROVE AdInv'
    <2>1. <<"backfill">> \in AdItems /\ <<"replay">> \in AdItems
      BY ItemsApart
    <2> QED
      BY <1>a, <1>5, <2>1, ItemSet DEF postApyBackfill, postEventsReplay
  <1>6. ASSUME NEW c \in AdCalls, receiptRefused(c) PROVE AdInv'
    <2>1. CASE adChanges[adCalls[c].change].item \in DbItems
      <3>1. /\ c \in DOMAIN adCalls
            /\ adCalls' = [adCalls EXCEPT ![c].at = "audit"] \/ adCalls' = Forget(c)
            /\ UNCHANGED <<inForce, adChanges, receipts, auditDb, auditMem, adOverlap, lostAt>>
        BY <1>6, <2>1 DEF receiptRefused
      <3> QED
        BY <2>1, <3>1, HandlerMoves
    <2>2. CASE adChanges[adCalls[c].change].item \notin DbItems
      BY <1>6, <2>2, ProcessRestarts DEF receiptRefused
    <2> QED
      BY <2>1, <2>2
  <1>7. ASSUME NEW c \in AdCalls, recordAdminAuditLog(c) PROVE AdInv'
    <2>1. /\ c \in DOMAIN adCalls /\ adCalls[c].at # "receipt" /\ adCalls' = Forget(c)
          /\ auditDb \cup auditMem \subseteq auditDb' \cup auditMem'
          /\ adCalls[c].change \in auditDb' \cup auditMem'
          /\ UNCHANGED <<inForce, adChanges, receipts, adOverlap, lostAt>>
      BY <1>7 DEF recordAdminAuditLog
    <2> QED
      BY <2>1, HandlerMoves
  <1>8. ASSUME NEW c \in AdCalls, auditRefused(c) PROVE AdInv'
    <2>1. CASE auditMode = "hybrid"
      <3>1. /\ c \in DOMAIN adCalls /\ adCalls[c].at # "receipt" /\ adCalls' = Forget(c)
            /\ auditDb \cup auditMem \subseteq auditDb' \cup auditMem'
            /\ adCalls[c].change \in auditDb' \cup auditMem'
            /\ UNCHANGED <<inForce, adChanges, receipts, adOverlap, lostAt>>
        BY <1>8, <2>1 DEF auditRefused
      <3> QED
        BY <3>1, HandlerMoves
    <2>2. CASE auditMode # "hybrid"
      BY <1>8, <2>2, ProcessRestarts DEF auditRefused
    <2> QED
      BY <2>1, <2>2
  <1>9. CASE UNCHANGED adVars
    <2>1. AdTyped' /\ InForceIsDocumented'
      BY <1>9 DEF AdInv, AdTyped, adVars, InForceIsDocumented, Pending, Documented
    <2>2. \A j : (Asking(j) => Asking(j)') /\ \A i : LastReceipt(i, j)' => LastReceipt(i, j)
      BY <1>9 DEF adVars, Asking, LastReceipt
    <2> QED
      BY <1>9, <2>1, <2>2 DEF AdInv, adVars
  <1>10. CASE AdNext
    BY <1>1, <1>2, <1>3, <1>4, <1>5, <1>6, <1>7, <1>8, <1>10, OverrideDropped, ReceiptWritten DEF AdNext
  <1> QED
    BY <1>9, <1>10

LEMMA AdInvHolds == Spec => []AdInv
  <1>1. Init => AdInv
    BY AdInvInit DEF Init
  <1>2. AdInv /\ [Next]_vars => AdInv'
    BY PartsRun, AdInvStep
  <1> QED
    BY <1>1, <1>2, PTL DEF Spec

-----------------------------------------------------------------------------
(* What administrators do leaves its trail, whatever overlaps or is        *)
(* refused: a wallet they looked at (validateImpersonationSession), a key  *)
(* they made or revoked (the API key routes), a setting they changed       *)
(* (generateAdminReceipt, recordAdminAuditLog), a request they sent        *)
(* (createAdminAuditMiddleware).                                           *)
THEOREM TrailIsLeft == Spec => []AdminsLeaveATrail
  <1>1. AdInv => InForceIsDocumented /\ LastReceiptInForce
    <2> SUFFICES ASSUME AdInv PROVE InForceIsDocumented /\ LastReceiptInForce
      OBVIOUS
    <2>1. \A j : Asking(j) => Working(j)
      BY DEF Asking, Working
    <2>2. LastReceiptInForce
      BY <2>1 DEF AdInv, LastReceiptInForce, Receipted
    <2> QED
      BY <2>2 DEF AdInv
  <1>2. ViewsAreInLedger /\ KInv /\ AdInv /\ AuditKeepsLatest => AdminsLeaveATrail
    BY <1>1, KeysAccounted DEF AdminsLeaveATrail
  <1> QED
    BY <1>2, ViewsNoted, KInvHolds, AdInvHolds, LatestAreKept, PTL

-----------------------------------------------------------------------------
(* Nonces *)

\* The issuers that have found room for a nonce of a wallet.
RoomFor(w) == {i \in Issuers : issuing[i] # None /\ issuing[i][1] = w}

\* What is stored is typed; the active nonces of a wallet, and those there is
\* room for.
NInv ==
    /\ NonceTypeOK
    /\ pc = [r \in Requests |-> pc[r]]
    /\ \A r \in Requests : pc[r] \in {"validate", "consume", "mark", "marking"} => body[r] \in Bodies
    /\ \A w \in Wallets :
          /\ IsFiniteSet(active(w))
          /\ Cardinality(active(w)) + Cardinality(RoomFor(w))
               <= MAX_ACTIVE_NONCES_PER_WALLET + Cardinality(Issuers) - 1

LEMMA NInvInit == NonceInit => NInv
  <1> SUFFICES ASSUME NonceInit PROVE NInv
    OBVIOUS
  <1>1. NonceTypeOK
    BY DEF NonceInit, NonceTypeOK
  <1>2. ASSUME NEW w \in Wallets
        PROVE  active(w) = {} /\ RoomFor(w) = {}
    BY DEF NonceInit, active, RoomFor
  <1>3. IsFiniteSet({}) /\ Cardinality({}) = 0 /\ Cardinality(Issuers) \in Nat
        /\ MAX_ACTIVE_NONCES_PER_WALLET \in Nat /\ MAX_ACTIVE_NONCES_PER_WALLET >= 1
    BY FS_EmptySet, FS_CardinalityType, NonceAssumption
  <1>4. ASSUME NEW w \in Wallets
        PROVE  /\ IsFiniteSet(active(w))
               /\ Cardinality(active(w)) + Cardinality(RoomFor(w))
                    <= MAX_ACTIVE_NONCES_PER_WALLET + Cardinality(Issuers) - 1
    <2>1. \A m, n \in Nat : m >= 1 => 0 + 0 <= m + n - 1
      OBVIOUS
    <2> QED
      BY <1>2, <1>3, <2>1
  <1> QED
    BY <1>1, <1>4 DEF NInv, NonceInit

\* What the counts of the steps rest on.
LEMMA NonceCounts ==
    ASSUME NInv, NEW w \in Wallets
    PROVE  /\ IsFiniteSet(active(w)) /\ Cardinality(active(w)) \in Nat
           /\ IsFiniteSet(RoomFor(w)) /\ Cardinality(RoomFor(w)) \in Nat
           /\ IsFiniteSet(Issuers) /\ Cardinality(Issuers) \in Nat
           /\ MAX_ACTIVE_NONCES_PER_WALLET \in Nat
  <1>1. RoomFor(w) \subseteq Issuers /\ IsFiniteSet(Issuers)
    BY NonceAssumption DEF RoomFor
  <1>2. IsFiniteSet(RoomFor(w)) /\ IsFiniteSet(active(w))
    BY <1>1, FS_Subset DEF NInv
  <1> QED
    BY <1>1, <1>2, FS_CardinalityType, NonceAssumption

\* A step that gives a wallet no nonce and no room for one.
LEMMA NoneGiven ==
    ASSUME NInv, NEW w \in Wallets, active(w)' \subseteq active(w), RoomFor(w)' \subseteq RoomFor(w)
    PROVE  /\ IsFiniteSet(active(w)')
           /\ Cardinality(active(w)') + Cardinality(RoomFor(w)')
                <= MAX_ACTIVE_NONCES_PER_WALLET + Cardinality(Issuers) - 1
  <1> DEFINE a == active(w)
             b == active(w)'
             c == RoomFor(w)
             d == RoomFor(w)'
             top == MAX_ACTIVE_NONCES_PER_WALLET + Cardinality(Issuers) - 1
  <1>1. IsFiniteSet(a) /\ IsFiniteSet(c) /\ Cardinality(a) \in Nat /\ Cardinality(c) \in Nat /\ top \in Int
    BY NonceCounts
  <1>2. Cardinality(a) + Cardinality(c) <= top
    BY DEF NInv
  <1>3. b \subseteq a /\ d \subseteq c
    OBVIOUS
  <1> HIDE DEF a, b, c, d, top
  <1>4. /\ IsFiniteSet(b) /\ Cardinality(b) <= Cardinality(a) /\ Cardinality(b) \in Nat
        /\ Cardinality(d) <= Cardinality(c) /\ Cardinality(d) \in Nat
    BY <1>1, <1>3, FS_Subset, FS_CardinalityType
  <1>5. IsFiniteSet(b) /\ Cardinality(b) + Cardinality(d) <= top
    BY <1>1, <1>2, <1>4
  <1> QED
    BY <1>5 DEF b, d, top

\* issue: there is room, and at most every issuer has found some.
LEMMA RoomFound ==
    ASSUME NInv, NEW i \in Issuers, NEW w \in Wallets, NEW a \in Actions, issue(i, w, a)
    PROVE  NInv'
  <1>1. /\ Cardinality(active(w)) < MAX_ACTIVE_NONCES_PER_WALLET
        /\ issuing' = [issuing EXCEPT ![i] = <<w, a>>]
        /\ UNCHANGED <<byNonce, expired, issued, requestVars>>
    BY DEF issue, below_cap
  <1>2. NonceTypeOK'
    BY <1>1 DEF NInv, NonceTypeOK, requestVars
  <1>3. ASSUME NEW u \in Wallets
        PROVE  /\ IsFiniteSet(active(u)')
               /\ Cardinality(active(u)') + Cardinality(RoomFor(u)')
                    <= MAX_ACTIVE_NONCES_PER_WALLET + Cardinality(Issuers) - 1
    <2>1. active(u)' = active(u)
      BY <1>1 DEF active
    <2>2. CASE u = w
      <3> DEFINE p == Cardinality(active(w))
                 q == Cardinality(RoomFor(w)')
                 m == MAX_ACTIVE_NONCES_PER_WALLET
                 n == Cardinality(Issuers)
      <3>1. RoomFor(w)' \subseteq Issuers
        BY DEF RoomFor
      <3>2. p \in Nat /\ m \in Nat /\ n \in Nat /\ p < m /\ IsFiniteSet(active(w))
        BY <1>1, NonceCounts
      <3>3. IsFiniteSet(RoomFor(w)') /\ q <= n
        BY <3>1, FS_Subset, NonceCounts
      <3>4. q \in Nat
        BY <3>3, FS_CardinalityType
      <3>5. \A x, y, j, l \in Nat : x < j /\ y <= l => x + y <= j + l - 1
        OBVIOUS
      <3>6. p + q <= m + n - 1
        <4> HIDE DEF p, q, m, n
        <4> QED
          BY <3>2, <3>3, <3>4, <3>5
      <3> QED
        BY <2>1, <2>2, <3>2, <3>6
    <2>3. CASE u # w
      <3>1. RoomFor(u)' \subseteq RoomFor(u)
        BY <1>1, <2>3 DEF RoomFor, NInv, NonceTypeOK
      <3> QED
        BY <2>1, <3>1, NoneGiven
    <2> QED
      BY <2>2, <2>3
  <1> QED
    BY <1>1, <1>2, <1>3 DEF NInv, requestVars

\* save: an issuer's room becomes a nonce.
LEMMA NonceGiven ==
    ASSUME NInv, NEW i \in Issuers, NEW n \in Nonces, save(i, n)
    PROVE  NInv'
  <1>0. issuing[i] # None /\ issuing[i] \in Wallets \X Actions
    BY DEF save, NInv, NonceTypeOK
  <1>w. PICK w \in Wallets : w = issuing[i][1]
    BY <1>0
  <1> DEFINE e == [wallet |-> w, action |-> issuing[i][2], used |-> FALSE]
  <1>1. /\ byNonce' = [byNonce EXCEPT ![n] = e]
        /\ issued' = [issued EXCEPT ![n] = issuing[i]]
        /\ issuing' = [issuing EXCEPT ![i] = None]
        /\ UNCHANGED <<expired, requestVars>>
    BY <1>w DEF save
  <1>2. e \in StoredNonce /\ e.wallet = w
    BY <1>0 DEF StoredNonce
  <1> HIDE DEF e
  <1>3. NonceTypeOK'
    BY <1>0, <1>1, <1>2 DEF NInv, NonceTypeOK, requestVars
  <1>4. ASSUME NEW u \in Wallets
        PROVE  /\ IsFiniteSet(active(u)')
               /\ Cardinality(active(u)') + Cardinality(RoomFor(u)')
                    <= MAX_ACTIVE_NONCES_PER_WALLET + Cardinality(Issuers) - 1
    <2>1. RoomFor(u)' \subseteq RoomFor(u)
      BY <1>1 DEF RoomFor, NInv, NonceTypeOK
    <2>2. CASE u = w
      <3> DEFINE A == active(w)
                 B == active(w)'
                 C == RoomFor(w)
                 D == RoomFor(w)'
                 top == MAX_ACTIVE_NONCES_PER_WALLET + Cardinality(Issuers) - 1
      <3>1. B \subseteq A \cup {n}
        BY <1>1 DEF active, NInv, NonceTypeOK
      <3>2. D \subseteq C \ {i} /\ i \in C
        BY <1>0, <1>1, <1>w DEF RoomFor, NInv, NonceTypeOK
      <3>3. /\ IsFiniteSet(A) /\ Cardinality(A) \in Nat /\ IsFiniteSet(C) /\ Cardinality(C) \in Nat
            /\ top \in Int
        BY NonceCounts
      <3>4. Cardinality(A) + Cardinality(C) <= top
        BY DEF NInv
      <3> HIDE DEF A, B, C, D, top
      <3>a. IsFiniteSet(A \cup {n})
            /\ Cardinality(A \cup {n}) = IF n \in A THEN Cardinality(A) ELSE Cardinality(A) + 1
        BY ONLY <3>3, FS_AddElement
      <3>5. IsFiniteSet(A \cup {n}) /\ Cardinality(A \cup {n}) \in Nat
            /\ Cardinality(A \cup {n}) <= Cardinality(A) + 1
        BY <3>3, <3>a
      <3>6. IsFiniteSet(C \ {i}) /\ Cardinality(C \ {i}) = Cardinality(C) - 1
        BY <3>2, <3>3, FS_RemoveElement
      <3>7. IsFiniteSet(B) /\ Cardinality(B) <= Cardinality(A \cup {n}) /\ Cardinality(B) \in Nat
        BY <3>1, <3>5, FS_Subset, FS_CardinalityType
      <3>8. Cardinality(D) <= Cardinality(C \ {i}) /\ Cardinality(D) \in Nat
        BY <3>2, <3>6, FS_Subset, FS_CardinalityType
      <3>9. Cardinality(B) + Cardinality(D) <= top
        BY <3>3, <3>4, <3>5, <3>6, <3>7, <3>8
      <3> QED
        BY <2>2, <3>7, <3>9 DEF B, D, top
    <2>3. CASE u # w
      <3>1. active(u)' \subseteq active(u)
        BY <1>1, <1>2, <2>3 DEF active, NInv, NonceTypeOK
      <3> QED
        BY <2>1, <3>1, NoneGiven
    <2> QED
      BY <2>2, <2>3
  <1> QED
    BY <1>1, <1>3, <1>4 DEF NInv, requestVars

LEMMA NInvStep == NInv /\ [NonceNext]_nonceAll => NInv'
  <1> SUFFICES ASSUME NInv, [NonceNext]_nonceAll PROVE NInv'
    OBVIOUS
  <1>a. NonceTypeOK /\ pc = [r \in Requests |-> pc[r]]
    BY DEF NInv
  \* No nonce is given: the types, and where the requests are, are left.
  <1>b. ASSUME NonceTypeOK', pc' = [r \in Requests |-> pc'[r]], UNCHANGED issuing,
               \A r \in Requests : pc'[r] \in {"validate", "consume", "mark", "marking"} =>
                                      body'[r] \in Bodies,
               \A w \in Wallets : active(w)' \subseteq active(w)
        PROVE  NInv'
    <2>1. \A w \in Wallets : RoomFor(w)' = RoomFor(w)
      BY <1>b DEF RoomFor
    <2>2. ASSUME NEW w \in Wallets
          PROVE  /\ IsFiniteSet(active(w)')
                 /\ Cardinality(active(w)') + Cardinality(RoomFor(w)')
                      <= MAX_ACTIVE_NONCES_PER_WALLET + Cardinality(Issuers) - 1
      BY <1>b, <2>1, NoneGiven
    <2> QED
      BY <1>b, <2>2 DEF NInv
  <1>1. CASE nonceClock
    <2>1. PICK n \in Nonces : expire(n) \/ evict(n)
      BY <1>1 DEF nonceClock
    <2>2. /\ UNCHANGED <<issuing, issued, body, pc, answer, admitted>>
          /\ expired' \subseteq Nonces
          /\ UNCHANGED byNonce \/ byNonce' = [byNonce EXCEPT ![n] = None]
      BY <1>a, <2>1 DEF expire, evict, requestVars, NonceTypeOK
    <2>3. NonceTypeOK' /\ \A w \in Wallets : active(w)' \subseteq active(w)
      BY <1>a, <2>2 DEF NonceTypeOK, active
    <2> QED
      BY <1>a, <1>b, <2>2, <2>3 DEF NInv
  <1>2. ASSUME NEW r \in Requests, NEW b \in Bodies, send(r, b) PROVE NInv'
    <2>1. /\ body' = [body EXCEPT ![r] = b] /\ UNCHANGED nonceVars
          /\ \E at \in {"validate", "admitted"} : pc' = [pc EXCEPT ![r] = at]
          /\ admitted' \subseteq admitted \cup {r}
      BY <1>2 DEF send, goto
    <2>2. NonceTypeOK' /\ \A w \in Wallets : active(w)' = active(w)
      BY <1>a, <2>1 DEF NonceTypeOK, active, nonceVars
    <2>3. \A q \in Requests : pc'[q] \in {"validate", "consume", "mark", "marking"} => body'[q] \in Bodies
      BY <1>a, <2>1 DEF NonceTypeOK, NInv
    <2>4. pc' = [q \in Requests |-> pc'[q]] /\ UNCHANGED issuing
      BY <1>a, <2>1 DEF nonceVars
    <2> QED
      BY <1>b, <2>2, <2>3, <2>4
  <1>3. ASSUME NEW r \in Requests, nonceStep(r) PROVE NInv'
    <2>1. CASE /\ UNCHANGED <<nonceVars, body, admitted>>
               /\ pc[r] \in {"validate", "consume", "mark", "marking"}
               /\ \E at : pc' = [pc EXCEPT ![r] = at]
      <3>1. NonceTypeOK' /\ \A w \in Wallets : active(w)' = active(w)
        BY <1>a, <2>1 DEF NonceTypeOK, active, nonceVars
      <3>2. \A q \in Requests : pc'[q] \in {"validate", "consume", "mark", "marking"} => body'[q] \in Bodies
        BY <1>a, <2>1 DEF NInv
      <3>3. pc' = [q \in Requests |-> pc'[q]] /\ UNCHANGED issuing
        BY <1>a, <2>1 DEF nonceVars
      <3> QED
        BY <1>b, <3>1, <3>2, <3>3
    <2>2. CASE mark(r) /\ pc[r] \in {"mark", "marking"}
      <3> DEFINE n == body[r].nonce
                 e == [wallet |-> body[r].wallet, action |-> body[r].action, used |-> TRUE]
      <3>1. /\ byNonce' = [byNonce EXCEPT ![n] = e] /\ pc' = [pc EXCEPT ![r] = "admitted"]
            /\ admitted' = admitted \cup {r} /\ UNCHANGED <<expired, issuing, issued, body, answer>>
        BY <2>2 DEF mark, goto
      <3>2. body[r] \in Bodies
        BY <2>2 DEF NInv
      <3>3. e \in StoredNonce /\ e.used
        BY <3>2, NonceAssumption DEF StoredNonce
      <3> HIDE DEF n, e
      <3>4. NonceTypeOK'
        BY <1>a, <3>1, <3>3 DEF NonceTypeOK
      <3>5. \A w \in Wallets : active(w)' \subseteq active(w)
        BY <1>a, <3>1, <3>3 DEF NonceTypeOK, active
      <3>6. /\ \A q \in Requests :
                 pc'[q] \in {"validate", "consume", "mark", "marking"} => body'[q] \in Bodies
            /\ pc' = [q \in Requests |-> pc'[q]]
        BY <1>a, <3>1 DEF NInv
      <3> QED
        BY <1>b, <3>1, <3>4, <3>5, <3>6
    <2> QED
      BY <1>3, <2>1, <2>2 DEF nonceStep, validateForUse, consume, markUsed, markUsedWrite, goto, respond
  <1>4. CASE UNCHANGED nonceAll
    <2>1. /\ NonceTypeOK' /\ UNCHANGED <<pc, body, issuing>>
          /\ \A w \in Wallets : active(w)' = active(w)
      BY <1>a, <1>4 DEF NonceTypeOK, active, nonceAll, nonceVars, requestVars
    <2> QED
      BY <1>a, <1>b, <2>1 DEF NInv
  <1> QED
    BY <1>1, <1>2, <1>3, <1>4, RoomFound, NonceGiven DEF NonceNext, issueStep

-----------------------------------------------------------------------------
(* The limiters *)

Since(p, from) == SumFunctionOnSet(p, {t \in 0..LimMaxTime : from <= t})

\* The requests of a window that were let through.
Within(n) == IF n <= LimMax THEN n ELSE LimMax

\* The window of a key's entry has let through what it has counted, up to the
\* limit; it and the time of one window before it, at most that and the limit
\* again; nothing was let through after it, or before the first window.
Window(p, e) ==
    /\ e.resetAt - LimWindow <= limNow
    /\ \A t \in 0..LimMaxTime : t >= e.resetAt \/ t > limNow => p[t] = 0
    /\ Since(p, e.resetAt - LimWindow) = Within(e.count)
    /\ Since(p, e.resetAt - LimWindow - LimWindow) <= LimMax + Within(e.count)

AtMostTwice(p) ==
    \A t \in 0..LimMaxTime :
        SumFunctionOnSet(p, {u \in 0..LimMaxTime : t <= u /\ u <= t + LimWindow - 1}) <= 2 * LimMax

\* A refused client's window is over by the time it was told to wait for.
Told(k) ==
    /\ k \in DOMAIN limEntries
    /\ limRefused[k].at \in Int /\ limRefused[k].retryAt \in Int
    /\ limRefused[k].at <= limNow /\ limRefused[k].at < limEntries[k].resetAt
    /\ \/ limEntries[k].resetAt - LimWindow > limRefused[k].at
       \/ limEntries[k].resetAt <= limRefused[k].retryAt

KeyInv(k) ==
    /\ k \notin DOMAIN limEntries => \A t \in 0..LimMaxTime : limPassed[k][t] = 0
    /\ k \in DOMAIN limEntries => limEntries[k].count >= 1 /\ Window(limPassed[k], limEntries[k])
    /\ AtMostTwice(limPassed[k])

LInv ==
    /\ LimTypeOK /\ DOMAIN limEntries \subseteq LimKeys
    /\ limPassed \in [LimKeys -> [0..LimMaxTime -> Nat]]
    /\ ~redisUrl => \A k \in LimKeys : KeyInv(k)
    /\ \A k \in DOMAIN limRefused : Told(k)

LEMMA TimesFinite == IsFiniteSet(0..LimMaxTime) /\ \A S \in SUBSET (0..LimMaxTime) : IsFiniteSet(S)
  <1>1. 0 \in Int /\ LimMaxTime \in Int
    BY LimAssumption
  <1>2. IsFiniteSet(0..LimMaxTime)
    BY <1>1, FS_Interval
  <1> QED
    BY <1>2, FS_Subset

\* The sums of the requests let through.
LEMMA PassedSum ==
    ASSUME NEW p \in [0..LimMaxTime -> Nat], NEW U \in SUBSET (0..LimMaxTime)
    PROVE  /\ SumFunctionOnSet(p, U) \in Nat
           /\ \A S \in SUBSET U : SumFunctionOnSet(p, S) <= SumFunctionOnSet(p, U)
  <1>1. IsFiniteSet(U) /\ \A x \in U : p[x] \in Nat
    BY TimesFinite
  <1>2. ASSUME NEW S \in SUBSET U
        PROVE  /\ SumFunctionOnSet(p, S) \in Nat
               /\ SumFunctionOnSet(p, S) <= SumFunctionOnSet(p, U)
    BY <1>1, SumSubset
  <1> QED
    BY <1>2

LEMMA NonePassed ==
    ASSUME NEW p \in [0..LimMaxTime -> Nat], NEW U \in SUBSET (0..LimMaxTime),
           \A t \in U : p[t] = 0
    PROVE  SumFunctionOnSet(p, U) = 0
  <1>1. IsFiniteSet(U) /\ {} \in SUBSET U /\ \A x \in U : p[x] \in Int
    BY TimesFinite
  <1>2. SumFunctionOnSet(p, U) = SumFunctionOnSet(p, {})
    BY <1>1, SumIgnoresZeros
  <1> QED
    BY <1>2, SumEmpty

\* One more is let through.
OneMore(p, u) == [p EXCEPT ![u] = @ + 1]

LEMMA OnePassed ==
    ASSUME NEW p \in [0..LimMaxTime -> Nat], NEW u \in 0..LimMaxTime,
           NEW q, q = OneMore(p, u), NEW U \in SUBSET (0..LimMaxTime)
    PROVE  /\ u \in U => SumFunctionOnSet(q, U) = SumFunctionOnSet(p, U) + 1
           /\ u \notin U => SumFunctionOnSet(q, U) = SumFunctionOnSet(p, U)
  <1>0. IsFiniteSet(U)
    BY TimesFinite
  <1>1. \A x \in U : p[x] \in Int /\ q[x] \in Int
    BY DEF OneMore
  <1>2. \A x \in U \ {u} : q[x] = p[x]
    BY DEF OneMore
  <1>3. CASE u \in U
    <2>1. SumFunctionOnSet(q, U) = SumFunctionOnSet(p, U) + q[u] - p[u]
      BY ONLY <1>0, <1>1, <1>2, <1>3, SumUpdate
    <2>2. q[u] = p[u] + 1 /\ p[u] \in Nat
      BY DEF OneMore
    <2>3. SumFunctionOnSet(p, U) \in Nat
      BY PassedSum
    <2> QED
      BY <1>3, <2>1, <2>2, <2>3
  <1>4. CASE u \notin U
    <2>1. \A x \in U : p[x] = q[x]
      BY <1>2, <1>4
    <2>2. SumFunctionOnSet(p, U) = SumFunctionOnSet(q, U)
      BY <1>0, <1>1, <2>1, SumSame
    <2> QED
      BY <1>4, <2>2
  <1> QED
    BY <1>3, <1>4

LEMMA LInvInit == LimInit => LInv
  <1> SUFFICES ASSUME LimInit PROVE LInv
    OBVIOUS
  <1>1. DOMAIN limEntries = {} /\ DOMAIN limRefused = {} /\ limNow \in 0..LimMaxTime
    BY LimAssumption DEF LimInit
  <1>2. /\ LimTypeOK /\ limPassed \in [LimKeys -> [0..LimMaxTime -> Nat]]
    BY <1>1 DEF LimInit, LimTypeOK
  <1>3. ASSUME NEW k \in LimKeys
        PROVE  KeyInv(k)
    <2>1. /\ limPassed[k] \in [0..LimMaxTime -> Nat] /\ k \notin DOMAIN limEntries
          /\ \A t \in 0..LimMaxTime : limPassed[k][t] = 0
      BY <1>1, <1>2 DEF LimInit
    <2>2. ASSUME NEW t \in 0..LimMaxTime
          PROVE  SumFunctionOnSet(limPassed[k],
                     {u \in 0..LimMaxTime : t <= u /\ u <= t + LimWindow - 1}) <= 2 * LimMax
      <3> DEFINE U == {u \in 0..LimMaxTime : t <= u /\ u <= t + LimWindow - 1}
      <3>1. U \in SUBSET (0..LimMaxTime) /\ \A u \in U : limPassed[k][u] = 0
        BY <2>1
      <3> HIDE DEF U
      <3>2. SumFunctionOnSet(limPassed[k], U) = 0
        BY <2>1, <3>1, NonePassed
      <3>3. 0 <= 2 * LimMax
        BY LimAssumption
      <3> QED
        BY <3>2, <3>3 DEF U
    <2> QED
      BY <2>1, <2>2 DEF KeyInv, AtMostTwice
  <1> QED
    BY <1>1, <1>2, <1>3 DEF LInv

\* A window goes on, or a new one begins, and a request is let through in it.
LEMMA WindowPasses ==
    ASSUME NEW p \in [0..LimMaxTime -> Nat], NEW q, q = OneMore(p, limNow),
           limNow \in 0..LimMaxTime, UNCHANGED limNow,
           NEW e \in [count : Nat, resetAt : 1..(LimMaxTime + LimWindow)],
           e.count <= LimMax, e.resetAt - LimWindow <= limNow, limNow < e.resetAt,
           \A t \in 0..LimMaxTime : t > limNow => p[t] = 0,
           Since(p, e.resetAt - LimWindow) + 1 = e.count,
           Since(p, e.resetAt - LimWindow - LimWindow) + 1 <= LimMax + e.count,
           AtMostTwice(p)
    PROVE  Window(q, e) /\ AtMostTwice(q)
  <1> DEFINE s == e.resetAt - LimWindow
             S(from) == {t \in 0..LimMaxTime : from <= t}
  <1>1. /\ s \in Int /\ s - LimWindow \in Int /\ s <= limNow /\ s - LimWindow <= limNow
        /\ limNow \in Nat /\ LimWindow \in Nat /\ LimMax \in Nat /\ e.count \in Nat
        /\ e.resetAt \in Nat
    <2>1. LimWindow \in Nat /\ LimWindow >= 1 /\ LimMax \in Nat /\ LimMaxTime \in Nat
      BY LimAssumption
    <2>2. limNow \in Nat /\ e.resetAt \in Nat /\ e.count \in Nat
      BY <2>1
    <2>3. e.resetAt - LimWindow \in Int /\ e.resetAt - LimWindow - LimWindow \in Int
          /\ e.resetAt - LimWindow - LimWindow <= limNow
      BY <2>1, <2>2
    <2> QED
      BY <2>1, <2>2, <2>3
  <1>2. q \in [0..LimMaxTime -> Nat]
    BY DEF OneMore
  <1>3. \A t \in 0..LimMaxTime : t >= e.resetAt \/ t > limNow => q[t] = 0
    BY <1>1 DEF OneMore
  <1>4. ASSUME NEW from \in Int, from <= limNow
        PROVE  Since(q, from) = Since(p, from) + 1
    <2>1. S(from) \in SUBSET (0..LimMaxTime) /\ limNow \in S(from)
      BY <1>4
    <2> HIDE DEF S
    <2>2. SumFunctionOnSet(q, S(from)) = SumFunctionOnSet(p, S(from)) + 1
      BY <2>1, OnePassed
    <2> QED
      BY <2>2 DEF Since, S
  <1>5. Since(q, s) = e.count /\ Since(q, s - LimWindow) <= LimMax + e.count
    BY <1>1, <1>4
  <1>6. Window(q, e)
    <2>1. Within(e.count) = e.count
      BY DEF Within
    <2> QED
      BY <1>1, <1>3, <1>5, <2>1 DEF Window
  <1>7. ASSUME NEW t \in 0..LimMaxTime
        PROVE  SumFunctionOnSet(q, {u \in 0..LimMaxTime : t <= u /\ u <= t + LimWindow - 1}) <= 2 * LimMax
    <2> DEFINE U == {u \in 0..LimMaxTime : t <= u /\ u <= t + LimWindow - 1}
    <2>1. CASE limNow \in U
      <3>1. t > limNow - LimWindow
        BY <1>1, <2>1
      <3>2. U \in SUBSET S(s - LimWindow) /\ S(s - LimWindow) \in SUBSET (0..LimMaxTime)
        BY <1>1, <3>1
      <3>a. s - LimWindow = e.resetAt - LimWindow - LimWindow
        BY <1>1
      <3>3. Since(q, s - LimWindow) = SumFunctionOnSet(q, S(s - LimWindow))
        BY DEF Since
      <3> HIDE DEF S, U, s
      <3>4. /\ SumFunctionOnSet(q, U) <= SumFunctionOnSet(q, S(s - LimWindow))
            /\ SumFunctionOnSet(q, S(s - LimWindow)) \in Nat
        BY <1>2, <3>2, PassedSum
      <3>5. SumFunctionOnSet(q, U) \in Nat
        BY <1>2, <3>2, PassedSum
      <3>6. SumFunctionOnSet(q, U) <= 2 * LimMax
        BY <1>1, <1>5, <3>3, <3>4, <3>5
      <3> QED
        BY <3>6 DEF U
    <2>2. CASE limNow \notin U
      <3>1. U \in SUBSET (0..LimMaxTime)
        OBVIOUS
      <3>2. SumFunctionOnSet(p, U) <= 2 * LimMax
        BY DEF AtMostTwice
      <3> HIDE DEF U
      <3>3. SumFunctionOnSet(q, U) = SumFunctionOnSet(p, U)
        BY <2>2, <3>1, OnePassed
      <3>4. SumFunctionOnSet(q, U) <= 2 * LimMax
        BY <3>2, <3>3
      <3> QED
        BY <3>4 DEF U
    <2> QED
      BY <2>1, <2>2
  <1> QED
    BY <1>6, <1>7 DEF AtMostTwice

\* What is told a refused client is past the end of the window.
LEMMA WaitIsEnough ==
    ASSUME NEW e, e.resetAt \in Nat, limNow \in Nat
    PROVE  limNow + SecondMs * retryAfter(e) \in Int /\ e.resetAt <= limNow + SecondMs * retryAfter(e)
  <1>1. SecondMs \in Nat /\ SecondMs >= 1 /\ SecondMs \in Nat \ {0}
    BY LimAssumption
  <1>2. ASSUME NEW a \in Nat
        PROVE  a \div SecondMs \in Int /\ SecondMs * (a \div SecondMs) <= a
               /\ a < SecondMs * (a \div SecondMs) + SecondMs
    BY <1>1
  <1> DEFINE c == Ceil(e.resetAt, SecondMs)
             d == limNow \div SecondMs
  <1>3. c \in Int /\ e.resetAt <= SecondMs * c
    <2>1. e.resetAt + SecondMs - 1 \in Nat
      BY <1>1
    <2>2. c = (e.resetAt + SecondMs - 1) \div SecondMs
      BY DEF Ceil
    <2>3. c \in Int /\ e.resetAt + SecondMs - 1 < SecondMs * c + SecondMs
      BY <1>2, <2>1, <2>2
    <2> HIDE DEF c
    <2>4. SecondMs * c \in Int
      BY <1>1, <2>3
    <2>5. \A r, p \in Int, m \in Nat : r + m - 1 < p + m => r <= p
      OBVIOUS
    <2> QED
      BY <1>1, <2>3, <2>4, <2>5
  <1>4. d \in Int /\ SecondMs * d <= limNow
    BY <1>2
  <1>5. retryAfter(e) = c - d
    BY DEF retryAfter
  <1> HIDE DEF c, d
  <1>6. SecondMs * (c - d) = SecondMs * c - SecondMs * d
    BY <1>1, <1>3, <1>4
  <1>7. SecondMs * c \in Int /\ SecondMs * d \in Int
    BY <1>1, <1>3, <1>4
  <1>8. \A p, q, n, r \in Int : q <= n /\ r <= p => n + (p - q) \in Int /\ r <= n + (p - q)
    OBVIOUS
  <1> QED
    BY <1>3, <1>4, <1>5, <1>6, <1>7, <1>8

\* The entry a request is counted in.
LEMMA EntryCounts ==
    ASSUME LInv, ~redisUrl, NEW k \in LimKeys, NEW e, e = entryNow(k)
    PROVE  /\ e \in [count : Nat, resetAt : 1..(LimMaxTime + LimWindow)]
           /\ e.count >= 1 /\ e.resetAt - LimWindow <= limNow /\ limNow < e.resetAt
           /\ e.count > LimMax => /\ k \in DOMAIN limEntries /\ limEntries[k].resetAt = e.resetAt
                                  /\ limEntries[k].count >= LimMax
           /\ e.count <= LimMax =>
                 /\ Since(limPassed[k], e.resetAt - LimWindow) + 1 = e.count
                 /\ Since(limPassed[k], e.resetAt - LimWindow - LimWindow) + 1 <= LimMax + e.count
  <1> DEFINE p == limPassed[k]
             S(from) == {t \in 0..LimMaxTime : from <= t}
  <1>1. /\ LimMax \in Nat /\ LimMax >= 1 /\ LimWindow \in Nat /\ LimWindow >= 1 /\ LimMaxTime \in Nat
        /\ limNow \in 0..LimMaxTime /\ limNow \in Nat
    BY LimAssumption DEF LInv, LimTypeOK
  <1>2. p \in [0..LimMaxTime -> Nat] /\ KeyInv(k)
    BY DEF LInv
  <1>3. CASE k \in DOMAIN limEntries /\ limEntries[k].resetAt > limNow
    <2> DEFINE old == limEntries[k]
    <2>1. /\ old \in [count : Nat, resetAt : 1..(LimMaxTime + LimWindow)]
          /\ old.count >= 1 /\ Window(p, old)
      BY <1>2, <1>3 DEF LInv, LimTypeOK, KeyInv
    <2>2. e = [old EXCEPT !.count = @ + 1]
      BY <1>3 DEF entryNow
    <2>3. /\ e.count = old.count + 1 /\ e.resetAt = old.resetAt
          /\ e \in [count : Nat, resetAt : 1..(LimMaxTime + LimWindow)]
      BY <2>1, <2>2
    <2>4. old.count \in Nat /\ old.resetAt - LimWindow <= limNow /\ limNow < old.resetAt
      BY <1>3, <2>1 DEF Window
    <2>5. ASSUME e.count <= LimMax
          PROVE  /\ Since(p, old.resetAt - LimWindow) + 1 = e.count
                 /\ Since(p, old.resetAt - LimWindow - LimWindow) + 1 <= LimMax + e.count
      <3>1. Within(old.count) = old.count
        BY <1>1, <2>3, <2>4, <2>5 DEF Within
      <3> DEFINE x == Since(p, old.resetAt - LimWindow)
                 y == Since(p, old.resetAt - LimWindow - LimWindow)
      <3>2. x = old.count /\ y <= LimMax + old.count
        BY <2>1, <3>1 DEF Window
      <3>3. y \in Nat
        <4>1. S(old.resetAt - LimWindow - LimWindow) \in SUBSET (0..LimMaxTime)
          OBVIOUS
        <4>2. y = SumFunctionOnSet(p, S(old.resetAt - LimWindow - LimWindow))
          BY DEF Since
        <4> HIDE DEF S, p, y, old
        <4> QED
          BY <1>2, <4>1, <4>2, PassedSum
      <3> HIDE DEF x, y
      <3>4. x + 1 = e.count /\ y + 1 <= LimMax + e.count
        BY <1>1, <2>3, <2>4, <3>2, <3>3
      <3> QED
        BY <3>4 DEF x, y
    <2>6. e.count > LimMax => old.count >= LimMax
      BY <1>1, <2>3, <2>4
    <2> QED
      BY <1>1, <1>3, <2>3, <2>4, <2>5, <2>6
  <1>4. CASE ~(k \in DOMAIN limEntries /\ limEntries[k].resetAt > limNow)
    <2>1. e = [count |-> 1, resetAt |-> limNow + LimWindow]
      BY <1>4 DEF entryNow
    <2>2. /\ e.count = 1 /\ e.resetAt = limNow + LimWindow
          /\ e \in [count : Nat, resetAt : 1..(LimMaxTime + LimWindow)]
      BY <1>1, <2>1
    <2>3. e.resetAt - LimWindow = limNow /\ limNow < e.resetAt /\ ~(e.count > LimMax)
      BY <1>1, <2>2
    <2>4. \A t \in 0..LimMaxTime : t >= limNow => p[t] = 0
      <3>1. CASE k \notin DOMAIN limEntries
        BY <1>2, <3>1 DEF KeyInv
      <3>2. CASE k \in DOMAIN limEntries
        <4>1. Window(p, limEntries[k]) /\ limEntries[k].resetAt <= limNow
              /\ limEntries[k].resetAt \in Nat
          BY <1>1, <1>2, <1>4, <3>2 DEF KeyInv, LInv, LimTypeOK
        <4> QED
          BY <1>1, <4>1 DEF Window
      <3> QED
        BY <3>1, <3>2
    <2>5. Since(p, limNow) = 0
      <3>1. S(limNow) \in SUBSET (0..LimMaxTime) /\ \A t \in S(limNow) : p[t] = 0
        BY <2>4
      <3>2. Since(p, limNow) = SumFunctionOnSet(p, S(limNow))
        BY DEF Since
      <3> HIDE DEF S, p
      <3> QED
        BY <1>2, <3>1, <3>2, NonePassed
    <2>6. Since(p, limNow - LimWindow) \in Nat /\ Since(p, limNow - LimWindow) <= LimMax
      <3> DEFINE U == S(limNow - LimWindow)
      <3>1. Since(p, limNow - LimWindow) = SumFunctionOnSet(p, U) /\ U \in SUBSET (0..LimMaxTime)
        BY DEF Since
      <3>2. CASE k \notin DOMAIN limEntries
        <4>1. \A t \in U : p[t] = 0
          BY <1>2, <3>2 DEF KeyInv
        <4> HIDE DEF U, p
        <4>2. SumFunctionOnSet(p, U) = 0
          BY <1>2, <3>1, <4>1, NonePassed
        <4> QED
          BY <1>1, <3>1, <4>2
      <3>3. CASE k \in DOMAIN limEntries
        <4> DEFINE old == limEntries[k]
                   V == S(old.resetAt - LimWindow)
        <4>1. /\ Window(p, old) /\ old.resetAt <= limNow
              /\ old.resetAt \in Nat /\ old.count \in Nat
          BY <1>1, <1>2, <1>4, <3>3 DEF KeyInv, LInv, LimTypeOK
        <4>2. U \subseteq V /\ V \in SUBSET (0..LimMaxTime)
          BY <1>1, <4>1
        <4>3. SumFunctionOnSet(p, V) = Within(old.count)
          BY <4>1 DEF Window, Since
        <4>4. Within(old.count) <= LimMax
          BY <1>1, <4>1 DEF Within
        <4> HIDE DEF U, V, p, S, old
        <4>5. /\ SumFunctionOnSet(p, V) \in Nat /\ SumFunctionOnSet(p, U) <= SumFunctionOnSet(p, V)
              /\ SumFunctionOnSet(p, U) \in Nat
          BY <1>2, <3>1, <4>2, PassedSum
        <4> QED
          BY <1>1, <3>1, <4>3, <4>4, <4>5
      <3> QED
        BY <3>2, <3>3
    <2>7. /\ Since(p, e.resetAt - LimWindow) + 1 = e.count
          /\ Since(p, e.resetAt - LimWindow - LimWindow) + 1 <= LimMax + e.count
      <3>1. e.resetAt - LimWindow - LimWindow = limNow - LimWindow
        BY <1>1, <2>2
      <3> HIDE DEF p
      <3>2. Since(p, e.resetAt - LimWindow) = 0
        BY <2>3, <2>5
      <3>3. Since(p, e.resetAt - LimWindow - LimWindow) \in Nat
            /\ Since(p, e.resetAt - LimWindow - LimWindow) <= LimMax
        BY <2>6, <3>1
      <3>4. \A y, m \in Nat : y <= m => y + 1 <= m + 1
        OBVIOUS
      <3> QED
        BY <1>1, <2>2, <3>2, <3>3, <3>4
    <2> QED
      BY <1>1, <2>2, <2>3, <2>7
  <1> QED
    BY <1>3, <1>4

\* The key of a request keeps its invariant.
LEMMA KeyCounted ==
    ASSUME LInv, NEW k \in LimKeys, createInMemoryLimiter(k)
    PROVE  KeyInv(k)'
  <1> DEFINE p == limPassed[k]
             e == entryNow(k)
  <1>1. /\ ~redisUrl /\ limEntries' = [j \in DOMAIN limEntries \cup {k} |-> IF j = k THEN e ELSE limEntries[j]]
        /\ IF over(e.count) THEN sendRateLimitResponse(k, e) ELSE passRequest(k)
        /\ UNCHANGED limNow
    BY DEF createInMemoryLimiter
  <1>2. limNow \in 0..LimMaxTime /\ p \in [0..LimMaxTime -> Nat] /\ KeyInv(k)
    BY <1>1 DEF LInv, LimTypeOK
  <1>3. limEntries'[k] = e /\ k \in DOMAIN limEntries'
    BY <1>1
  <1>4. PICK x : x = e
    OBVIOUS
  <1>5. /\ x \in [count : Nat, resetAt : 1..(LimMaxTime + LimWindow)]
        /\ x.count >= 1 /\ x.resetAt - LimWindow <= limNow /\ limNow < x.resetAt
        /\ x.count > LimMax => /\ k \in DOMAIN limEntries /\ limEntries[k].resetAt = x.resetAt
                               /\ limEntries[k].count >= LimMax
        /\ x.count <= LimMax =>
              /\ Since(p, x.resetAt - LimWindow) + 1 = x.count
              /\ Since(p, x.resetAt - LimWindow - LimWindow) + 1 <= LimMax + x.count
    BY <1>1, <1>4, EntryCounts
  <1>6. ASSUME NEW q, limPassed'[k] = q, Window(q, x), AtMostTwice(q)
        PROVE  KeyInv(k)'
    <2>1. Window(limPassed'[k], limEntries'[k])
      BY <1>3, <1>4, <1>6
    <2>2. Window(limPassed[k], limEntries[k])'
      BY <1>1, <2>1 DEF Window, Since
    <2>3. AtMostTwice(limPassed[k])'
      BY <1>6 DEF AtMostTwice
    <2>4. limEntries'[k].count >= 1
      BY <1>3, <1>4, <1>5
    <2> QED
      BY <1>3, <2>2, <2>3, <2>4 DEF KeyInv
  <1>7. CASE x.count > LimMax
    <2>1. over(e.count)
      BY <1>4, <1>7 DEF over
    <2>2. limPassed' = limPassed
      BY <1>1, <2>1 DEF sendRateLimitResponse
    <2>3. Window(p, limEntries[k]) /\ AtMostTwice(p)
      BY <1>2, <1>5, <1>7 DEF KeyInv
    <2>4. Within(limEntries[k].count) = Within(x.count)
      <3>1. LimMax \in Nat /\ x.count \in Nat
        BY <1>5, LimAssumption
      <3>2. limEntries[k].count \in Nat
        BY <1>5, <1>7 DEF LInv, LimTypeOK
      <3> QED
        BY <1>5, <1>7, <3>1, <3>2 DEF Within
    <2>5. Window(p, x)
      BY <1>5, <1>7, <2>3, <2>4 DEF Window
    <2> QED
      BY <1>6, <2>2, <2>3, <2>5
  <1>8. CASE x.count <= LimMax
    <2>1. ~over(e.count)
      <3>1. LimMax \in Nat /\ x.count \in Nat
        BY <1>5, LimAssumption
      <3> QED
        BY <1>4, <1>8, <3>1 DEF over
    <2>2. limPassed' = [limPassed EXCEPT ![k] = OneMore(p, limNow)]
      BY <1>1, <2>1 DEF passRequest, OneMore
    <2>3. PICK q : q = OneMore(p, limNow)
      OBVIOUS
    <2>4. limPassed'[k] = q
      BY <2>2, <2>3 DEF LInv
    <2>5. AtMostTwice(p)
      BY <1>2 DEF KeyInv
    <2>6. \A t \in 0..LimMaxTime : t > limNow => p[t] = 0
      BY <1>2 DEF KeyInv, Window
    <2> HIDE DEF p
    <2>7. Window(q, x) /\ AtMostTwice(q)
      BY ONLY <1>1, <1>2, <1>5, <1>8, <2>3, <2>5, <2>6, WindowPasses
    <2> QED
      BY <1>6, <2>4, <2>7
  <1>9. x.count > LimMax \/ x.count <= LimMax
    <2>1. LimMax \in Nat /\ x.count \in Nat
      BY <1>5, LimAssumption
    <2> QED
      BY <2>1
  <1> QED
    BY <1>7, <1>8, <1>9

\* What the refused clients of a key were told stays enough.
LEMMA ToldKept ==
    ASSUME LInv, NEW k \in LimKeys, createInMemoryLimiter(k), k \in DOMAIN limRefused'
    PROVE  Told(k)'
  <1> DEFINE e == entryNow(k)
  <1>1. /\ ~redisUrl /\ limEntries' = [j \in DOMAIN limEntries \cup {k} |-> IF j = k THEN e ELSE limEntries[j]]
        /\ IF over(e.count) THEN sendRateLimitResponse(k, e) ELSE passRequest(k)
        /\ UNCHANGED limNow
    BY DEF createInMemoryLimiter
  <1>2. limEntries'[k] = e /\ k \in DOMAIN limEntries'
    BY <1>1
  <1>3. /\ limNow \in Nat /\ e.resetAt \in Nat /\ limNow < e.resetAt
        /\ LimWindow \in Nat /\ LimWindow >= 1
    <2>1. e \in [count : Nat, resetAt : 1..(LimMaxTime + LimWindow)] /\ limNow < e.resetAt
      BY <1>1, EntryCounts
    <2>2. LimMaxTime \in Nat /\ LimWindow \in Nat /\ LimWindow >= 1 /\ limNow \in 0..LimMaxTime
      BY LimAssumption DEF LInv, LimTypeOK
    <2> HIDE DEF e
    <2>3. e.resetAt \in 1..(LimMaxTime + LimWindow)
      BY <2>1
    <2> QED
      BY <2>1, <2>2, <2>3
  <1>4. CASE limRefused'[k] = [at |-> limNow, retryAt |-> limNow + SecondMs * retryAfter(e)]
    <2> DEFINE d == limNow + SecondMs * retryAfter(e)
    <2>1. d \in Int /\ e.resetAt <= d
      BY <1>3, WaitIsEnough
    <2>2. limRefused'[k].at = limNow /\ limRefused'[k].retryAt = d
      BY <1>4
    <2> HIDE DEF d, e
    <2> QED
      BY <1>1, <1>2, <1>3, <2>1, <2>2 DEF Told
  <1>5. CASE k \in DOMAIN limRefused /\ limRefused'[k] = limRefused[k]
    <2> DEFINE old == limEntries[k]
    <2>1. Told(k) /\ k \in DOMAIN limEntries
      BY <1>5 DEF LInv, Told
    <2>2. old.resetAt \in Nat
      <3>1. old.resetAt \in 1..(LimMaxTime + LimWindow) /\ LimMaxTime \in Nat
        BY <2>1, LimAssumption DEF LInv, LimTypeOK
      <3> QED
        BY <3>1, <1>3
    <2>3. CASE old.resetAt > limNow
      <3>1. e = [old EXCEPT !.count = @ + 1]
        BY <2>1, <2>3 DEF entryNow
      <3>2. old \in [count : Nat, resetAt : 1..(LimMaxTime + LimWindow)]
        BY <2>1 DEF LInv, LimTypeOK
      <3>3. e.resetAt = old.resetAt
        BY <3>1, <3>2
      <3> HIDE DEF e
      <3> QED
        BY <1>1, <1>2, <1>5, <2>1, <3>3 DEF Told
    <2>4. CASE ~(old.resetAt > limNow)
      <3>1. e = [count |-> 1, resetAt |-> limNow + LimWindow]
        BY <2>1, <2>4 DEF entryNow
      <3>2. e.resetAt = limNow + LimWindow
        BY <3>1
      <3> DEFINE at == limRefused[k].at
      <3>3. at \in Int /\ at < old.resetAt /\ at <= limNow
        BY <2>1 DEF Told
      <3> HIDE DEF e, old
      <3>4. at < limEntries'[k].resetAt /\ limEntries'[k].resetAt - LimWindow > at
        <4>1. \A a, r, n \in Int, w \in Nat : w >= 1 /\ a < r /\ ~(r > n) =>
                  a < n + w /\ n + w - w > a
          OBVIOUS
        <4> HIDE DEF at
        <4>2. at < limNow + LimWindow /\ limNow + LimWindow - LimWindow > at
          BY <1>3, <2>2, <2>4, <3>3, <4>1
        <4>3. limEntries'[k].resetAt = limNow + LimWindow
          BY <1>2, <3>2
        <4> QED
          BY <1>3, <3>3, <4>2, <4>3
      <3> QED
        BY <1>1, <1>2, <1>5, <2>1, <3>4 DEF Told
    <2> QED
      BY <2>3, <2>4
  <1>6. \/ limRefused'[k] = [at |-> limNow, retryAt |-> limNow + SecondMs * retryAfter(e)]
        \/ k \in DOMAIN limRefused /\ limRefused'[k] = limRefused[k]
    BY <1>1 DEF sendRateLimitResponse, passRequest
  <1> QED
    BY <1>4, <1>5, <1>6

LEMMA LInvStep == LInv /\ [LimNext]_limVars => LInv'
  <1> SUFFICES ASSUME LInv, [LimNext]_limVars PROVE LInv'
    OBVIOUS
  <1>a. /\ limNow \in 0..LimMaxTime /\ LimMaxTime \in Nat /\ redisUrl \in BOOLEAN
        /\ limPassed \in [LimKeys -> [0..LimMaxTime -> Nat]] /\ DOMAIN limEntries \subseteq LimKeys
    BY LimAssumption DEF LInv, LimTypeOK
  <1>1. ASSUME NEW k \in LimKeys, createInMemoryLimiter(k) PROVE LInv'
    <2> DEFINE e == entryNow(k)
    <2>1. /\ ~redisUrl /\ limEntries' = [j \in DOMAIN limEntries \cup {k} |-> IF j = k THEN e ELSE limEntries[j]]
          /\ IF over(e.count) THEN sendRateLimitResponse(k, e) ELSE passRequest(k)
          /\ UNCHANGED <<redisUrl, limNow>>
      BY <1>1 DEF createInMemoryLimiter
    <2>2. e \in [count : Nat, resetAt : 1..(LimMaxTime + LimWindow)]
      BY <2>1, EntryCounts
    <2> HIDE DEF e
    <2>3. LimTypeOK' /\ DOMAIN limEntries' \subseteq LimKeys
      <3>1. \A j \in DOMAIN limEntries' :
               limEntries'[j] \in [count : Nat, resetAt : 1..(LimMaxTime + LimWindow)]
        BY <2>1, <2>2 DEF LInv, LimTypeOK
      <3> QED
        BY <1>a, <2>1, <3>1 DEF LimTypeOK
    <2>4. /\ limPassed' \in [LimKeys -> [0..LimMaxTime -> Nat]]
          /\ \A j \in LimKeys \ {k} : limPassed'[j] = limPassed[j]
      <3>1. \/ limPassed' = limPassed
            \/ limPassed' = [limPassed EXCEPT ![k] = OneMore(limPassed[k], limNow)]
        BY <2>1 DEF sendRateLimitResponse, passRequest, OneMore
      <3>2. OneMore(limPassed[k], limNow) \in [0..LimMaxTime -> Nat]
        BY <1>a DEF OneMore
      <3> QED
        BY <1>a, <3>1, <3>2
    <2>5. ASSUME NEW j \in LimKeys
          PROVE  KeyInv(j)'
      <3>1. CASE j = k
        BY <1>1, <3>1, KeyCounted
      <3>2. CASE j # k
        <4>1. KeyInv(j)
          BY <2>1 DEF LInv
        <4>2. /\ limPassed'[j] = limPassed[j] /\ limNow' = limNow
              /\ j \in DOMAIN limEntries' <=> j \in DOMAIN limEntries
              /\ j \in DOMAIN limEntries => limEntries'[j] = limEntries[j]
          BY <2>1, <2>4, <3>2
        <4> QED
          BY <4>1, <4>2 DEF KeyInv, Window, AtMostTwice, Since
      <3> QED
        BY <3>1, <3>2
    <2>6. ASSUME NEW j \in DOMAIN limRefused'
          PROVE  Told(j)'
      <3>1. CASE j = k
        BY <1>1, <2>6, <3>1, ToldKept
      <3>2. CASE j # k
        <4>1. j \in DOMAIN limRefused /\ limRefused'[j] = limRefused[j]
          BY <2>1, <2>6, <3>2 DEF sendRateLimitResponse, passRequest
        <4>2. Told(j)
          BY <4>1 DEF LInv
        <4>3. j \in DOMAIN limEntries' /\ limEntries'[j] = limEntries[j] /\ limNow' = limNow
          BY <2>1, <3>2, <4>2 DEF Told
        <4> QED
          BY <4>1, <4>2, <4>3 DEF Told
      <3> QED
        BY <3>1, <3>2
    <2> QED
      BY <2>1, <2>3, <2>4, <2>5, <2>6 DEF LInv
  <1>2. ASSUME NEW k \in LimKeys, createLimiter(k) PROVE LInv'
    <2>1. /\ redisUrl /\ UNCHANGED <<redisUrl, limNow, limEntries, limRefused>>
          /\ limPassed' = [limPassed EXCEPT ![k] = OneMore(limPassed[k], limNow)]
      BY <1>2 DEF createLimiter, passRequest, OneMore
    <2>2. limPassed' \in [LimKeys -> [0..LimMaxTime -> Nat]]
      BY <1>a, <2>1 DEF OneMore
    <2>3. \A j \in DOMAIN limRefused' : Told(j)'
      BY <2>1 DEF LInv, Told
    <2> QED
      BY <2>1, <2>2, <2>3 DEF LInv, LimTypeOK
  <1>3. CASE limTick
    <2>1. /\ limNow' = limNow + 1 /\ limNow' \in 0..LimMaxTime
          /\ UNCHANGED <<redisUrl, limEntries, limPassed, limRefused>>
      BY <1>a, <1>3 DEF limTick
    <2>2. LimTypeOK'
      BY <2>1 DEF LInv, LimTypeOK
    <2>3. ASSUME NEW k \in LimKeys, ~redisUrl
          PROVE  KeyInv(k)'
      <3>1. KeyInv(k)
        BY <2>3 DEF LInv
      <3>2. AtMostTwice(limPassed[k])'
        BY <2>1, <3>1 DEF KeyInv, AtMostTwice
      <3>3. ASSUME k \in DOMAIN limEntries
            PROVE  limEntries[k].count >= 1 /\ Window(limPassed[k], limEntries[k])'
        <4> DEFINE s == limEntries[k].resetAt - LimWindow
        <4>1. limEntries[k].count >= 1 /\ Window(limPassed[k], limEntries[k])
          BY <3>1, <3>3 DEF KeyInv
        <4>2. s \in Int
          <5>1. limEntries[k].resetAt \in 1..(LimMaxTime + LimWindow) /\ LimWindow \in Nat
            BY <3>3, LimAssumption DEF LInv, LimTypeOK
          <5> QED
            BY <1>a, <5>1
        <4>3. s <= limNow'
          <5>1. s <= limNow
            BY <4>1 DEF Window
          <5> HIDE DEF s
          <5> QED
            BY <1>a, <2>1, <4>2, <5>1
        <4>4. \A t \in 0..LimMaxTime : t > limNow' => t > limNow
          BY <1>a, <2>1
        <4> QED
          BY <2>1, <4>1, <4>3, <4>4 DEF Window, Since
      <3> QED
        BY <2>1, <3>1, <3>2, <3>3 DEF KeyInv
    <2>4. ASSUME NEW k \in DOMAIN limRefused
          PROVE  Told(k)'
      <3>1. Told(k)
        BY DEF LInv
      <3> DEFINE at == limRefused[k].at
      <3>2. at \in Int /\ at <= limNow
        BY <3>1 DEF Told
      <3>3. at <= limNow'
        <4> HIDE DEF at
        <4> QED
          BY <1>a, <2>1, <3>2
      <3> QED
        BY <2>1, <3>1, <3>3 DEF Told
    <2> QED
      BY <2>1, <2>2, <2>3, <2>4 DEF LInv
  <1>4. CASE UNCHANGED limVars
    <2>1. UNCHANGED <<redisUrl, limNow, limEntries, limPassed, limRefused>>
      BY <1>4 DEF limVars
    <2>2. \A k \in LimKeys : KeyInv(k) => KeyInv(k)'
      BY <2>1 DEF KeyInv, Window, AtMostTwice, Since
    <2>3. \A k \in DOMAIN limRefused' : Told(k)'
      BY <2>1 DEF LInv, Told
    <2> QED
      BY <2>1, <2>2, <2>3 DEF LInv, LimTypeOK
  <1> QED
    BY <1>1, <1>2, <1>3, <1>4 DEF LimNext

LEMMA LInvHolds == Spec => []LInv
  <1>1. Init => LInv
    BY LInvInit DEF Init
  <1>2. LInv /\ [Next]_vars => LInv'
    BY PartsRun, LInvStep
  <1> QED
    BY <1>1, <1>2, PTL DEF Spec

LEMMA NInvHolds == Spec => []NInv
  <1>1. Init => NInv
    BY NInvInit DEF Init
  <1>2. NInv /\ [Next]_vars => NInv'
    BY PartsRun, NInvStep
  <1> QED
    BY <1>1, <1>2, PTL DEF Spec

(* A limit that is checked before it is used up is passed by a known       *)
(* amount at most: the requests of a key in fixed windows                  *)
(* (createInMemoryLimiter), the nonces of a wallet, counted before one is  *)
(* saved (WalletNonceStore.issue).                                         *)
THEOREM LimitsAreKept == Spec => []LimitsHold
  <1>1. LInv => AtMostTwoWindows
    BY DEF LInv, KeyInv, AtMostTwice, AtMostTwoWindows, passedIn
  <1>2. NInv => ActiveBounded
    <2> SUFFICES ASSUME NInv, NEW w \in Wallets
                 PROVE  Cardinality(active(w))
                          <= MAX_ACTIVE_NONCES_PER_WALLET + Cardinality(Issuers) - 1
      BY DEF ActiveBounded
    <2> DEFINE a == Cardinality(active(w))
               b == Cardinality(RoomFor(w))
               top == MAX_ACTIVE_NONCES_PER_WALLET + Cardinality(Issuers) - 1
    <2>1. a \in Nat /\ b \in Nat /\ top \in Int /\ a + b <= top
      BY NonceCounts DEF NInv
    <2> HIDE DEF a, b, top
    <2>2. a <= top
      BY <2>1
    <2> QED
      BY <2>2 DEF a, top
  <1> QED
    BY <1>1, <1>2, LInvHolds, NInvHolds, PTL DEF LimitsHold

\* sendRateLimitResponse: who is refused again after waiting as told has been
\* preceded by others of the key in the new window.
LEMMA WaitingSuffices == Spec => RetryAfterSuffices
  <1>1. ASSUME LInv, [LimNext]_limVars, NEW k \in DOMAIN limRefused,
               limRefused' # limRefused, limRefused[k].retryAt <= limNow,
               k \in DOMAIN limEntries, limEntries'[k] # limEntries[k]
        PROVE  passedIn(k, limRefused[k].at + 1, limNow) >= LimMax
    <2> DEFINE p == limPassed[k]
               old == limEntries[k]
               at == limRefused[k].at
               U == {t \in 0..LimMaxTime : at + 1 <= t /\ t <= limNow}
    <2>0. k \in LimKeys
      BY <1>1 DEF LInv
    <2>1. PICK j \in LimKeys : createInMemoryLimiter(j)
      BY <1>1 DEF LimNext, limVars, limTick, createLimiter, passRequest
    <2>2. /\ ~redisUrl
          /\ limEntries' = [i \in DOMAIN limEntries \cup {j} |-> IF i = j THEN entryNow(j) ELSE limEntries[i]]
      BY <2>1 DEF createInMemoryLimiter
    <2>3. j = k
      BY <1>1, <2>2
    <2>4. over(entryNow(k).count)
      BY <1>1, <2>1, <2>3 DEF createInMemoryLimiter, passRequest
    <2>5. PICK e : e = entryNow(k)
      OBVIOUS
    <2>6. /\ old.resetAt = e.resetAt /\ old.count >= LimMax /\ limNow < e.resetAt
          /\ Window(p, old) /\ Told(k)
          /\ p \in [0..LimMaxTime -> Nat]
      <3>1. e.count > LimMax
        BY <2>4, <2>5 DEF over
      <3>2. KeyInv(k) /\ Told(k) /\ p \in [0..LimMaxTime -> Nat]
        BY <1>1, <2>0, <2>2 DEF LInv
      <3> QED
        BY <1>1, <2>0, <2>2, <2>5, <3>1, <3>2, EntryCounts DEF KeyInv
    <2>7. /\ limNow \in Nat /\ old.resetAt \in Nat /\ old.count \in Nat
          /\ LimMax \in Nat /\ LimMaxTime \in Nat /\ LimWindow \in Nat
      BY <1>1, LimAssumption DEF LInv, LimTypeOK
    <2> DEFINE s == old.resetAt - LimWindow
               S == {t \in 0..LimMaxTime : s <= t}
    <2>8. s > at /\ at \in Int /\ s \in Int
      BY <1>1, <2>6, <2>7 DEF Told
    <2>9. SumFunctionOnSet(p, S) = LimMax
      BY <2>6, <2>7 DEF Window, Since, Within
    <2>10. \A t \in S \ U : p[t] = 0
      <3> SUFFICES ASSUME NEW t \in S, t \notin U PROVE t \in 0..LimMaxTime /\ t > limNow
        BY <2>6 DEF Window
      <3> QED
        BY <2>7, <2>8
    <2>11. S \in SUBSET (0..LimMaxTime) /\ U \in SUBSET (0..LimMaxTime) /\ S \cap U \in SUBSET S
           /\ S \cap U \in SUBSET U
      OBVIOUS
    <2>12. \A t \in S \ (S \cap U) : p[t] = 0
      BY <2>10
    <2> HIDE DEF S, U, p, s, at, old
    <2>13. IsFiniteSet(S) /\ \A t \in S : p[t] \in Int
      BY <2>6, <2>11, TimesFinite
    <2>14. SumFunctionOnSet(p, S) = SumFunctionOnSet(p, S \cap U)
      BY <2>11, <2>12, <2>13, SumIgnoresZeros
    <2>15. SumFunctionOnSet(p, S \cap U) <= SumFunctionOnSet(p, U) /\ SumFunctionOnSet(p, U) \in Nat
      BY <2>6, <2>11, PassedSum
    <2>16. SumFunctionOnSet(p, U) >= LimMax
      BY <2>7, <2>9, <2>14, <2>15
    <2> QED
      BY <2>16 DEF U, p, at, passedIn
  <1>2. LInv /\ [Next]_vars =>
          [\A k \in DOMAIN limRefused :
             /\ limRefused' # limRefused /\ limRefused[k].retryAt <= limNow
             /\ k \in DOMAIN limEntries /\ limEntries'[k] # limEntries[k]
             => passedIn(k, limRefused[k].at + 1, limNow) >= LimMax]_limVars
    BY <1>1, PartsRun
  <1> QED
    BY <1>2, LInvHolds, PTL DEF Spec, RetryAfterSuffices

(* What an answer said holds for the requests after it: wait this long     *)
(* (sendRateLimitResponse), the session is over                            *)
(* (endImpersonationSession), no writes during maintenance                 *)
(* (maintenanceModeMiddleware).                                            *)
THEOREM AnswersStay == Spec => AnswersHold
  BY WaitingSuffices, EndLasts, MaintenanceDrains, PTL DEF AnswersHold

-----------------------------------------------------------------------------
(* Exports *)

Artifact == [wallet : ExportWallets, format : {"csv", "json"}]

\* What is being exported is the caller's own, or an administrator's choice.
Exporting(x) ==
    /\ x.artifact \in Artifact /\ x.wallet \in ExportWallets
    /\ x.by \in ExportWallets => x.artifact.wallet = x.by

HeldInv ==
    /\ exportRows \in Seq([wallet : ExportWallets, checksum : Artifact])
    /\ exporting = [c \in ExportCalls |-> exporting[c]]
    /\ \A c \in ExportCalls : exporting[c] # NoExport => Exporting(exporting[c])
    /\ \A x \in held : /\ x.job \in DOMAIN exportRows
                       /\ exportRows[x.job].checksum = x.artifact
                       /\ (x.by \in ExportWallets => x.artifact.wallet = x.by)
    /\ \A v \in verdicts : /\ v.job \in DOMAIN exportRows
                           /\ v.valid = (exportRows[v.job].checksum = v.artifact)

\* The writes of a job nothing has happened to are applied in their order, up
\* to the last.
InOrder(j) ==
    /\ \A v \in 1..LastVersion : <<j, v>> \in writes => \A u \in v..LastVersion : <<j, u>> \in writes
    /\ j \in DOMAIN bulkRow /\ (\A w \in writes : w[1] # j) => bulkRow[j] = LastVersion

BulkInv ==
    /\ artifacts = DOMAIN bulk /\ DOMAIN bulk \subseteq BulkJobs /\ DOMAIN bulkRow \subseteq BulkJobs
    /\ \A j \in DOMAIN bulkRow : bulkRow[j] \in 1..LastVersion
    /\ astray \subseteq BulkJobs
    /\ writes \subseteq BulkJobs \X (1..LastVersion)
    /\ \A j \in BulkJobs : j \notin astray => InOrder(j)

LEMMA ExportInvInit == ExportInit => HeldInv /\ BulkInv
  BY DEF ExportInit, HeldInv, BulkInv, InOrder

LEMMA HeldInvStep == HeldInv /\ [ExportNext]_exportVars => HeldInv'
  <1> SUFFICES ASSUME HeldInv, [ExportNext]_exportVars PROVE HeldInv'
    OBVIOUS
  <1>1. ASSUME NEW c \in ExportCalls, NEW by \in ExportWallets \union {"key"},
               NEW requested \in ExportWallets \union {"none"}, NEW format \in {"csv", "json"},
               exportTransactions(c, by, requested, format)
        PROVE  HeldInv'
    <2> DEFINE w == exportWallet(by, requested)
               x == [by |-> by, artifact |-> buildTransactionExportArtifact(w, format), wallet |-> w]
    <2>1. /\ w # "none" /\ exporting' = [exporting EXCEPT ![c] = x]
          /\ UNCHANGED <<exportRows, held, verdicts>>
      BY <1>1 DEF exportTransactions
    <2>2. w \in ExportWallets /\ (by \in ExportWallets => w = by)
      BY <2>1, ExportAssumption DEF exportWallet
    <2>3. Exporting(x)
      BY <2>2 DEF Exporting, Artifact, buildTransactionExportArtifact
    <2> HIDE DEF x
    <2> QED
      BY <2>1, <2>3 DEF HeldInv
  <1>2. ASSUME NEW c \in ExportCalls, NEW ok \in BOOLEAN, recordExportJob(c, ok) PROVE HeldInv'
    <2> DEFINE x == exporting[c]
               row == [wallet |-> x.wallet, checksum |-> x.artifact]
               id == Len(exportRows) + 1
    <2>1. /\ x # NoExport /\ UNCHANGED verdicts
          /\ exporting' = [exporting EXCEPT ![c] = NoExport]
      BY <1>2 DEF recordExportJob
    <2>2. Exporting(x) /\ exportRows \in Seq([wallet : ExportWallets, checksum : Artifact])
      BY <2>1 DEF HeldInv
    <2>3. exporting' = [d \in ExportCalls |-> exporting'[d]]
          /\ \A d \in ExportCalls : exporting'[d] # NoExport => Exporting(exporting'[d])
      BY <2>1 DEF HeldInv
    <2>4. CASE ok
      <3>1. /\ exportRows' = Append(exportRows, row)
            /\ held' = held \union {[by |-> x.by, artifact |-> x.artifact, job |-> id]}
        BY <1>2, <2>4 DEF recordExportJob, sentAfter
      <3>2. row \in [wallet : ExportWallets, checksum : Artifact] /\ row.checksum = x.artifact
        BY <2>2 DEF Exporting
      <3> HIDE DEF row
      <3>3. /\ exportRows' \in Seq([wallet : ExportWallets, checksum : Artifact])
            /\ id \in DOMAIN exportRows' /\ exportRows'[id] = row
            /\ \A i \in DOMAIN exportRows : i \in DOMAIN exportRows' /\ exportRows'[i] = exportRows[i]
        BY <2>2, <3>1, <3>2
      <3>4. \A y \in held' : /\ y.job \in DOMAIN exportRows'
                             /\ exportRows'[y.job].checksum = y.artifact
                             /\ (y.by \in ExportWallets => y.artifact.wallet = y.by)
        <4> SUFFICES ASSUME NEW y \in held'
                     PROVE  /\ y.job \in DOMAIN exportRows'
                            /\ exportRows'[y.job].checksum = y.artifact
                            /\ (y.by \in ExportWallets => y.artifact.wallet = y.by)
          OBVIOUS
        <4>1. CASE y \in held
          BY <3>3, <4>1 DEF HeldInv
        <4>2. CASE y = [by |-> x.by, artifact |-> x.artifact, job |-> id]
          <5>1. y.job = id /\ y.by = x.by /\ y.artifact = x.artifact
            BY <4>2
          <5> HIDE DEF x, id
          <5> QED
            BY <2>2, <3>2, <3>3, <5>1 DEF Exporting
        <4> QED
          BY <3>1, <4>1, <4>2
      <3>5. \A v \in verdicts' : /\ v.job \in DOMAIN exportRows'
                                 /\ v.valid = (exportRows'[v.job].checksum = v.artifact)
        BY <2>1, <3>3 DEF HeldInv
      <3> QED
        BY <2>3, <3>3, <3>4, <3>5 DEF HeldInv
    <2>5. CASE ~ok
      <3>1. UNCHANGED <<exportRows, held>>
        BY <1>2, <2>5 DEF recordExportJob, sentAfter
      <3> QED
        BY <2>1, <2>3, <3>1 DEF HeldInv
    <2> QED
      BY <2>4, <2>5
  <1>3. ASSUME NEW x \in held, NEW id \in 1..MaxExports, verifyExport(id, x) PROVE HeldInv'
    <2>1. PICK row \in getExportJobById(id) :
             verdicts' = {[job |-> id, artifact |-> x.artifact, valid |-> row.checksum = x.artifact]}
      BY <1>3 DEF verifyExport
    <2>2. id \in DOMAIN exportRows /\ row = exportRows[id]
      BY DEF getExportJobById
    <2>3. UNCHANGED <<exportRows, exporting, held>>
      BY <1>3 DEF verifyExport
    <2>4. \A v \in verdicts' : /\ v.job \in DOMAIN exportRows
                               /\ v.valid = (exportRows[v.job].checksum = v.artifact)
      BY <2>1, <2>2
    <2> QED
      BY <2>3, <2>4 DEF HeldInv
  <1>4. CASE exportRestart
    <2>1. /\ exporting' = [c \in ExportCalls |-> NoExport]
          /\ UNCHANGED <<exportRows, held, verdicts>>
      BY <1>4 DEF exportRestart
    <2> QED
      BY <2>1 DEF HeldInv
  <1>5. CASE UNCHANGED singleVars
    BY <1>5 DEF HeldInv, singleVars
  <1>6. \A j \in BulkJobs : postBulkExport(j) \/ postBulkCancel(j) => UNCHANGED singleVars
    BY DEF postBulkExport, postBulkCancel, exportVars, singleVars
  <1>7. \A j \in BulkJobs, v \in 1..LastVersion, ok \in BOOLEAN : upsert(j, v, ok) => UNCHANGED singleVars
    BY DEF upsert
  <1>8. UNCHANGED exportVars => UNCHANGED singleVars
    BY DEF exportVars, singleVars
  <1> QED
    BY <1>1, <1>2, <1>3, <1>4, <1>5, <1>6, <1>7, <1>8 DEF ExportNext

LEMMA BulkInvStep == BulkInv /\ [ExportNext]_exportVars => BulkInv'
  <1> SUFFICES ASSUME BulkInv, [ExportNext]_exportVars PROVE BulkInv'
    OBVIOUS
  <1>a. LastVersion \in Nat /\ LastVersion \in 1..LastVersion
    BY ExportAssumption DEF LastVersion
  <1>1. ASSUME NEW j \in BulkJobs, postBulkExport(j) PROVE BulkInv'
    <2>1. /\ j \notin DOMAIN bulkRow /\ ~\E v \in 1..LastVersion : <<j, v>> \in writes
          /\ bulk' = [k \in DOMAIN bulk \union {j} |-> IF k = j THEN LastVersion ELSE bulk[k]]
          /\ artifacts' = artifacts \union {j}
          /\ writes' = writes \union {<<j, v>> : v \in 1..LastVersion}
          /\ UNCHANGED <<bulkRow, astray>>
      BY <1>1 DEF postBulkExport, processBulkExportJob, buildBulkExportArtifact, persisted
    <2>2. /\ artifacts' = DOMAIN bulk' /\ DOMAIN bulk' \subseteq BulkJobs
          /\ writes' \subseteq BulkJobs \X (1..LastVersion)
      BY <2>1 DEF BulkInv
    <2>3. InOrder(j)'
      <3>1. \A v \in 1..LastVersion : <<j, v>> \in writes'
        BY <2>1
      <3>2. \A v \in 1..LastVersion : \A u \in v..LastVersion : u \in 1..LastVersion
        BY <1>a
      <3> QED
        BY <2>1, <3>1, <3>2 DEF InOrder
    <2>4. \A k \in BulkJobs : k # j /\ InOrder(k) => InOrder(k)'
      <3> SUFFICES ASSUME NEW k \in BulkJobs, k # j, InOrder(k) PROVE InOrder(k)'
        OBVIOUS
      <3>1. \A v : <<k, v>> \in writes' <=> <<k, v>> \in writes
        BY <2>1
      <3>2. (\A w \in writes' : w[1] # k) => \A w \in writes : w[1] # k
        BY <2>1
      <3> QED
        BY <2>1, <3>1, <3>2 DEF InOrder
    <2> QED
      BY <2>1, <2>2, <2>3, <2>4 DEF BulkInv
  <1>2. ASSUME NEW j \in BulkJobs, NEW v \in 1..LastVersion, NEW ok \in BOOLEAN, upsert(j, v, ok)
        PROVE  BulkInv'
    <2>1. /\ <<j, v>> \in writes /\ writes' = writes \ {<<j, v>>}
          /\ IF ok THEN bulkRow' = [k \in DOMAIN bulkRow \union {j} |-> IF k = j THEN v ELSE bulkRow[k]]
                   ELSE UNCHANGED bulkRow
          /\ astray' = IF ~ok \/ \E u \in 1..(v - 1) : <<j, u>> \in writes
                       THEN astray \union {j} ELSE astray
          /\ UNCHANGED <<bulk, artifacts>>
      BY <1>2 DEF upsert
    <2>2. /\ astray' \subseteq BulkJobs /\ writes' \subseteq BulkJobs \X (1..LastVersion)
          /\ DOMAIN bulkRow' \subseteq BulkJobs
          /\ \A k \in DOMAIN bulkRow' : bulkRow'[k] \in 1..LastVersion
      BY <2>1 DEF BulkInv
    <2>3. ASSUME NEW k \in BulkJobs, k # j, k \notin astray'
          PROVE  InOrder(k)'
      <3>1. InOrder(k)
        BY <2>1, <2>3 DEF BulkInv
      <3>2. \A u : <<k, u>> \in writes' <=> <<k, u>> \in writes
        BY <2>1, <2>3
      <3>3. (\A w \in writes' : w[1] # k) => \A w \in writes : w[1] # k
        BY <2>1, <2>3
      <3>4. k \in DOMAIN bulkRow' => k \in DOMAIN bulkRow /\ bulkRow'[k] = bulkRow[k]
        BY <2>1, <2>3
      <3> QED
        BY <3>1, <3>2, <3>3, <3>4 DEF InOrder
    <2>4. ASSUME j \notin astray'
          PROVE  InOrder(j)'
      <3>1. /\ ok /\ ~\E u \in 1..(v - 1) : <<j, u>> \in writes
            /\ j \notin astray /\ InOrder(j)
        BY <2>1, <2>4 DEF BulkInv
      <3>2. \A t \in 1..LastVersion : <<j, t>> \in writes' => t > v /\ <<j, t>> \in writes
        <4> SUFFICES ASSUME NEW t \in 1..LastVersion, <<j, t>> \in writes'
                     PROVE  t > v
          BY <2>1
        <4>1. <<j, t>> \in writes /\ t # v
          BY <2>1
        <4>2. t \notin 1..(v - 1)
          BY <3>1, <4>1
        <4> QED
          BY <1>a, <4>1, <4>2
      <3>3. ASSUME NEW t \in 1..LastVersion, <<j, t>> \in writes', NEW u \in t..LastVersion
            PROVE  <<j, u>> \in writes'
        <4>1. <<j, u>> \in writes
          BY <3>1, <3>2, <3>3 DEF InOrder
        <4>2. u # v
          BY <1>a, <3>2, <3>3
        <4> QED
          BY <2>1, <4>1, <4>2
      <3>4. ASSUME \A w \in writes' : w[1] # j
            PROVE  bulkRow'[j] = LastVersion
        <4>1. LastVersion \in v..LastVersion
          BY <1>a
        <4>2. <<j, LastVersion>> \in writes
          BY <2>1, <3>1, <4>1 DEF InOrder
        <4>3. <<j, LastVersion>> \notin writes'
          BY <3>4
        <4>4. v = LastVersion
          BY <2>1, <4>2, <4>3
        <4> QED
          BY <2>1, <3>1, <4>4
      <3> QED
        BY <3>3, <3>4 DEF InOrder
    <2> QED
      BY <2>1, <2>2, <2>3, <2>4 DEF BulkInv
  <1>3. CASE exportRestart
    <2>1. /\ DOMAIN bulk' = {} /\ artifacts' = {} /\ writes' = {}
          /\ astray' = astray \union {w[1] : w \in writes} /\ UNCHANGED bulkRow
      BY <1>3 DEF exportRestart
    <2>2. astray' \subseteq BulkJobs
      BY <2>1 DEF BulkInv
    <2>3. ASSUME NEW j \in BulkJobs, j \notin astray'
          PROVE  InOrder(j)'
      <3>1. InOrder(j) /\ \A w \in writes : w[1] # j
        BY <2>1, <2>3 DEF BulkInv
      <3> QED
        BY <2>1, <3>1 DEF InOrder
    <2> QED
      BY <2>1, <2>2, <2>3 DEF BulkInv
  <1>4. CASE UNCHANGED bulkVars
    BY <1>4 DEF BulkInv, bulkVars, InOrder
  <1>5. \A c \in ExportCalls, by \in ExportWallets \union {"key"},
          requested \in ExportWallets \union {"none"}, format \in {"csv", "json"} :
          exportTransactions(c, by, requested, format) => UNCHANGED bulkVars
    BY DEF exportTransactions
  <1>6. /\ \A c \in ExportCalls, ok \in BOOLEAN : recordExportJob(c, ok) => UNCHANGED bulkVars
        /\ \A x \in held, id \in 1..MaxExports : verifyExport(id, x) => UNCHANGED bulkVars
    BY DEF recordExportJob, verifyExport
  <1>7. /\ \A j \in BulkJobs : postBulkCancel(j) => UNCHANGED bulkVars
        /\ UNCHANGED exportVars => UNCHANGED bulkVars
    BY DEF postBulkCancel, exportVars, bulkVars
  <1> QED
    BY <1>1, <1>2, <1>3, <1>4, <1>5, <1>6, <1>7 DEF ExportNext

-----------------------------------------------------------------------------
(* Referral codes *)

CodeCall == [wallet : RefWallets \union {"none"}, at : {"idle", "draw", "create"},
             code : RefCodes \union {"none"}]

\* Codes are of wallets, and a call that is about to create one has both.
CInv ==
    /\ DOMAIN codes \subseteq RefCodes /\ \A k \in DOMAIN codes : codes[k] \in RefWallets
    /\ codeCall \in [CodeCalls -> CodeCall]
    /\ \A c \in CodeCalls :
          /\ codeCall[c].at # "idle" => codeCall[c].wallet \in RefWallets
          /\ codeCall[c].at = "create" => codeCall[c].code \in RefCodes
    /\ CodesCreditTheirOwner

RelationTyped ==
    /\ DOMAIN relation \subseteq RefWallets
    /\ \A w \in DOMAIN relation : relation[w] \in [referrer : RefWallets, first : BOOLEAN]

LEMMA CInvInit == RefInit => CInv /\ RelationTyped
  BY DEF RefInit, CInv, RelationTyped, CodesCreditTheirOwner, CodeCall, Idle

LEMMA CInvStep == CInv /\ [CodesNext \/ YieldNext]_refVars => CInv'
  <1> SUFFICES ASSUME CInv, [CodesNext \/ YieldNext]_refVars PROVE CInv'
    OBVIOUS
  <1>a. Idle \in CodeCall /\ Idle.at = "idle"
    BY DEF Idle, CodeCall
  <1>1. ASSUME NEW c \in CodeCalls, NEW w \in RefWallets, findCode(c, w) PROVE CInv'
    <2>1. UNCHANGED codes
      BY <1>1 DEF findCode
    <2>2. CASE UNCHANGED codeCall /\ \E k \in DOMAIN codes : codes[k] = w /\ handed' = handed \union {<<w, k>>}
      BY <2>1, <2>2 DEF CInv, CodesCreditTheirOwner
    <2>3. CASE /\ codeCall' = [codeCall EXCEPT ![c] = [Idle EXCEPT !.wallet = w, !.at = "draw"]]
               /\ UNCHANGED handed
      <3> DEFINE x == [Idle EXCEPT !.wallet = w, !.at = "draw"]
      <3>1. x \in CodeCall /\ x.at = "draw" /\ x.wallet = w
        BY DEF Idle, CodeCall
      <3> HIDE DEF x
      <3>2. codeCall' = [codeCall EXCEPT ![c] = x]
        BY <2>3 DEF x
      <3> QED
        BY <2>1, <2>3, <3>1, <3>2 DEF CInv, CodesCreditTheirOwner
    <2> QED
      BY <1>1, <2>2, <2>3 DEF findCode
  <1>2. ASSUME NEW c \in CodeCalls, generateReferralCode(c) PROVE CInv'
    <2>1. UNCHANGED <<codes, handed>> /\ codeCall[c].at = "draw"
      BY <1>2 DEF generateReferralCode
    <2>2. CASE \E k \in RefCodes : codeCall' = [codeCall EXCEPT ![c].at = "create", ![c].code = k]
      <3>1. PICK k \in RefCodes : codeCall' = [codeCall EXCEPT ![c].at = "create", ![c].code = k]
        BY <2>2
      <3> DEFINE x == [codeCall[c] EXCEPT !.at = "create", !.code = k]
      <3>2. codeCall[c] \in CodeCall /\ codeCall[c].wallet \in RefWallets
        BY <2>1 DEF CInv
      <3>3. x \in CodeCall /\ x.at = "create" /\ x.code = k /\ x.wallet \in RefWallets
        BY <3>2 DEF CodeCall
      <3>4. codeCall' = [codeCall EXCEPT ![c] = x]
        BY <3>1, <3>2 DEF CInv, CodeCall
      <3> HIDE DEF x
      <3> QED
        BY <2>1, <3>3, <3>4 DEF CInv, CodesCreditTheirOwner
    <2>3. CASE codeCall' = [codeCall EXCEPT ![c] = Idle]
      BY <1>a, <2>1, <2>3 DEF CInv, CodesCreditTheirOwner
    <2> QED
      BY <1>2, <2>2, <2>3 DEF generateReferralCode
  <1>3. ASSUME NEW c \in CodeCalls, createCode(c) PROVE CInv'
    <2> DEFINE k == codeCall[c].code
               w == codeCall[c].wallet
    <2>1. k \in RefCodes /\ w \in RefWallets
      BY <1>3 DEF createCode, CInv
    <2>2. codeCall' = [codeCall EXCEPT ![c] = Idle]
      BY <1>3 DEF createCode
    <2>3. CASE k \notin DOMAIN codes
      <3>1. /\ codes' = [j \in DOMAIN codes \union {k} |-> IF j = k THEN w ELSE codes[j]]
            /\ handed' = handed \union {<<w, k>>}
        BY <1>3, <2>3 DEF createCode, created
      <3> HIDE DEF k, w
      <3>2. /\ k \in DOMAIN codes' /\ codes'[k] = w
            /\ DOMAIN codes' = DOMAIN codes \union {k}
            /\ \A j \in DOMAIN codes : codes'[j] = codes[j]
        BY <2>3, <3>1
      <3>3. CodesCreditTheirOwner'
        BY <3>1, <3>2 DEF CInv, CodesCreditTheirOwner
      <3> QED
        BY <1>a, <2>1, <2>2, <3>2, <3>3 DEF CInv
    <2>4. CASE k \in DOMAIN codes
      BY <1>3, <1>a, <2>2, <2>4 DEF createCode, created, CInv, CodesCreditTheirOwner
    <2> QED
      BY <2>3, <2>4
  <1>4. ASSUME NEW w \in RefWallets, NEW k \in RefCodes \union {"none"}, recordDeposit(w, k) PROVE CInv'
    BY <1>4 DEF recordDeposit, lookupVars, CInv, CodesCreditTheirOwner
  <1>5. ASSUME NEW e \in LedgerEvents, ledgerEvent(e) PROVE CInv'
    BY <1>5 DEF ledgerEvent, lookupVars, CInv, CodesCreditTheirOwner
  <1>6. CASE UNCHANGED refVars
    BY <1>6 DEF refVars, CInv, CodesCreditTheirOwner
  <1> QED
    BY <1>1, <1>2, <1>3, <1>4, <1>5, <1>6 DEF CodesNext, YieldNext

LEMMA RelationTypedStep ==
    CInv /\ RelationTyped /\ [CodesNext \/ YieldNext]_refVars => RelationTyped'
  <1> SUFFICES ASSUME CInv, RelationTyped, [CodesNext \/ YieldNext]_refVars PROVE RelationTyped'
    OBVIOUS
  <1>1. ASSUME NEW w \in RefWallets, NEW k \in RefCodes \union {"none"}, recordDeposit(w, k)
        PROVE  RelationTyped'
    <2> DEFINE r == IF k \in DOMAIN codes THEN related(w, k) ELSE relation
    <2>1. relation' = IF w \in DOMAIN r THEN [r EXCEPT ![w].first = TRUE] ELSE r
      BY <1>1 DEF recordDeposit
    <2>2. /\ DOMAIN r \subseteq RefWallets
          /\ \A v \in DOMAIN r : r[v] \in [referrer : RefWallets, first : BOOLEAN]
      BY DEF related, CInv, RelationTyped
    <2> HIDE DEF r
    <2>3. \A v \in DOMAIN relation' : v \in DOMAIN r /\
             (relation'[v] = r[v] \/ relation'[v] = [r[v] EXCEPT !.first = TRUE])
      BY <2>1
    <2>4. \A v \in DOMAIN relation' : relation'[v] \in [referrer : RefWallets, first : BOOLEAN]
      BY <2>2, <2>3
    <2> QED
      BY <2>2, <2>3, <2>4 DEF RelationTyped
  <1>2. (\E c \in CodeCalls : (\E w \in RefWallets : findCode(c, w)) \/ generateReferralCode(c) \/ createCode(c))
            \/ (\E e \in LedgerEvents : ledgerEvent(e)) \/ UNCHANGED refVars
        => UNCHANGED relation
    BY DEF findCode, generateReferralCode, createCode, ledgerEvent, refVars
  <1> QED
    BY <1>1, <1>2 DEF CodesNext, YieldNext, RelationTyped

-----------------------------------------------------------------------------
(* The yield of a wallet *)

Totals == [in_ : Nat, out : Nat, shares : Nat]

\* A price every amount is a multiple of.
GoodPrice(p) == p \in Nat /\ p > 0 /\ \A n \in TxAmounts : n % p = 0

\* What a multiple of a price is in shares, and the shares' worth again.
LEMMA WholeShares ==
    ASSUME NEW n \in Nat, NEW p \in Nat, p > 0, n % p = 0
    PROVE  n \div p \in Nat /\ (n \div p) * p = n
  OBVIOUS

LEMMA WorthAtPrice ==
    ASSUME NEW s \in Nat, NEW p \in Nat, p > 0, NEW q \in Nat
    PROVE  ((s * p) * q) \div p = s * q
  <1>1. (s * p) * q = (s * q) * p
    OBVIOUS
  <1> DEFINE m == s * q
  <1>2. m \in Nat
    OBVIOUS
  <1> HIDE DEF m
  <1>3. (m * p) \div p = m
    BY <1>2
  <1> QED
    BY <1>1, <1>3 DEF m

LEMMA EventTyped ==
    \A e \in LedgerEvents :
        /\ e.type \in {"deposit", "withdrawal", "snapshot"}
        /\ e.type \in {"deposit", "withdrawal"} => e.n \in TxAmounts /\ e.n \in Nat /\ e.n > 0
        /\ e.type = "snapshot" => GoodPrice(atLeastOne(e.n))
  <1>1. \A n \in TxAmounts : n \in Nat /\ n > 0 /\ n % 1 = 0
    BY RefAssumption
  <1>2. \A p \in SharePrices : GoodPrice(atLeastOne(p))
    <2> SUFFICES ASSUME NEW p \in SharePrices PROVE GoodPrice(atLeastOne(p))
      OBVIOUS
    <2>1. p \in Nat
      BY RefAssumption
    <2>2. CASE p > 1
      BY <2>1, <2>2, RefAssumption DEF GoodPrice, atLeastOne
    <2>3. CASE ~(p > 1)
      <3>1. atLeastOne(p) = 1
        BY <2>3 DEF atLeastOne
      <3> QED
        BY <1>1, <3>1 DEF GoodPrice
    <2> QED
      BY <2>2, <2>3
  <1> QED
    BY <1>1, <1>2 DEF LedgerEvents

LEMMA Booked ==
    ASSUME NEW s \in Totals, NEW e \in LedgerEvents, NEW p, GoodPrice(p)
    PROVE  /\ booked(s, e, p) \in Totals
           /\ e.type = "deposit" =>
                /\ booked(s, e, p).in_ = s.in_ + e.n /\ booked(s, e, p).out = s.out
                /\ booked(s, e, p).shares = s.shares + e.n \div p
           /\ e.type = "withdrawal" =>
                /\ booked(s, e, p).in_ = s.in_ /\ booked(s, e, p).out = s.out + e.n
                /\ e.n \div p <= s.shares => booked(s, e, p).shares = s.shares - e.n \div p
           /\ e.type = "snapshot" => booked(s, e, p) = s
  <1>a. s.in_ \in Nat /\ s.out \in Nat /\ s.shares \in Nat /\ p \in Nat /\ p > 0
    BY DEF Totals, GoodPrice
  <1> DEFINE d == e.n \div p
  <1>1. CASE e.type = "deposit"
    <2>1. d \in Nat /\ e.n \in Nat
      BY <1>1, EventTyped, WholeShares DEF GoodPrice
    <2>2. booked(s, e, p) = [s EXCEPT !.in_ = @ + e.n, !.shares = @ + d]
      BY <1>1 DEF booked
    <2> HIDE DEF d
    <2>3. booked(s, e, p) = [in_ |-> s.in_ + e.n, out |-> s.out, shares |-> s.shares + d]
      BY <2>2 DEF Totals
    <2>4. s.in_ + e.n \in Nat /\ s.shares + d \in Nat
      BY <1>a, <2>1
    <2>5. booked(s, e, p) \in Totals
      BY <1>a, <2>3, <2>4 DEF Totals
    <2> QED
      BY <1>1, <2>3, <2>5 DEF d
  <1>2. CASE e.type = "withdrawal"
    <2>1. d \in Nat /\ e.n \in Nat
      BY <1>2, EventTyped, WholeShares DEF GoodPrice
    <2>2. booked(s, e, p) = [s EXCEPT !.out = @ + e.n, !.shares = IF @ > d THEN @ - d ELSE 0]
      BY <1>2 DEF booked
    <2> HIDE DEF d
    <2> DEFINE left == IF s.shares > d THEN s.shares - d ELSE 0
    <2>3. booked(s, e, p) = [in_ |-> s.in_, out |-> s.out + e.n, shares |-> left]
      BY <2>2 DEF Totals
    <2>4. s.out + e.n \in Nat /\ left \in Nat /\ (d <= s.shares => left = s.shares - d)
      BY <1>a, <2>1
    <2> HIDE DEF left
    <2>5. booked(s, e, p) \in Totals
      BY <1>a, <2>3, <2>4 DEF Totals
    <2> QED
      BY <1>2, <2>3, <2>4, <2>5 DEF d
  <1>3. CASE e.type = "snapshot"
    <2>1. booked(s, e, p) = s
      BY <1>3 DEF booked
    <2> QED
      BY <1>3, <2>1
  <1> QED
    BY <1>1, <1>2, <1>3, EventTyped

\* The loop's definition has a solution: one for every length, from the one for
\* the length before.
SumsRecur ==
    /\ sumsUpTo[0] = [in_ |-> 0, out |-> 0, shares |-> 0]
    /\ \A i \in 1..Len(ledger) :
          sumsUpTo[i] = booked(sumsUpTo[i - 1], ledger[i], resolveSharePriceForTimestamp(i))

LEMMA SumsDefined == ledger \in Seq(LedgerEvents) => SumsRecur
  <1> SUFFICES ASSUME ledger \in Seq(LedgerEvents) PROVE SumsRecur
    OBVIOUS
  <1> DEFINE n == Len(ledger)
             step(i, s) == booked(s, ledger[i], resolveSharePriceForTimestamp(i))
             zero == [in_ |-> 0, out |-> 0, shares |-> 0]
             Loop(f, k) == f = [i \in 0..k |-> IF i = 0 THEN zero ELSE step(i, f[i - 1])]
             Q == {k \in 0..n : \E f : Loop(f, k)}
  <1>0. n \in Nat
    OBVIOUS
  <1>d. sumsUpTo = CHOOSE f : Loop(f, n)
    BY DEF sumsUpTo
  <1> HIDE DEF n, step, zero
  <1>1. 0 \in Q
    <2>1. Loop([i \in 0..0 |-> zero], 0)
      OBVIOUS
    <2>2. 0 \in 0..n
      BY <1>0
    <2> HIDE DEF Loop
    <2> QED
      BY <2>1, <2>2
  <1>2. ASSUME NEW k \in 0..(n - 1), k \in Q PROVE k + 1 \in Q
    <2>1. PICK f : Loop(f, k)
      BY <1>2
    <2> DEFINE g == [i \in 0..(k + 1) |-> IF i = k + 1 THEN step(i, f[k]) ELSE f[i]]
    <2>a. k \in Nat /\ k + 1 \in 0..n
      BY <1>0
    <2>2. \A i \in 0..(k + 1) : g[i] = IF i = 0 THEN zero ELSE step(i, g[i - 1])
      <3> SUFFICES ASSUME NEW i \in 0..(k + 1) PROVE g[i] = IF i = 0 THEN zero ELSE step(i, g[i - 1])
        OBVIOUS
      <3>1. CASE i = k + 1
        <4>1. g[i] = step(i, f[k]) /\ k \in 0..(k + 1) /\ k # k + 1 /\ i - 1 = k /\ i # 0
          BY <2>a, <3>1
        <4>2. g[k] = f[k]
          BY <4>1
        <4> QED
          BY <4>1, <4>2
      <3>2. CASE i # k + 1
        <4>1. i \in 0..k /\ (i # 0 => i - 1 \in 0..k /\ i - 1 \in 0..(k + 1) /\ i - 1 # k + 1)
          BY <2>a, <3>2
        <4>2. g[i] = f[i] /\ (i # 0 => g[i - 1] = f[i - 1])
          BY <3>2, <4>1
        <4>3. f[i] = IF i = 0 THEN zero ELSE step(i, f[i - 1])
          BY <2>1, <4>1
        <4> QED
          BY <4>2, <4>3
      <3> QED
        BY <3>1, <3>2
    <2>3. Loop(g, k + 1)
      <3>1. g = [i \in 0..(k + 1) |-> g[i]]
        OBVIOUS
      <3> HIDE DEF g
      <3> QED
        BY <2>2, <3>1
    <2> HIDE DEF Loop, g
    <2> QED
      BY <2>a, <2>3
  <1>3. \A k \in 0..n : k \in Q
    <2> HIDE DEF Q
    <2> QED
      BY <1>0, <1>1, <1>2, StepInduction
  <1>4. Loop(sumsUpTo, n)
    <2>1. \E f : Loop(f, n)
      BY <1>0, <1>3
    <2> HIDE DEF Loop
    <2> QED
      BY <1>d, <2>1
  <1>5. \A i \in 0..n : sumsUpTo[i] = IF i = 0 THEN zero ELSE step(i, sumsUpTo[i - 1])
    <2> DEFINE s == sumsUpTo
    <2>1. s = [i \in 0..n |-> IF i = 0 THEN zero ELSE step(i, s[i - 1])]
      BY <1>4
    <2> HIDE DEF s
    <2>2. \A i \in 0..n : s[i] = IF i = 0 THEN zero ELSE step(i, s[i - 1])
      BY <2>1
    <2> QED
      BY <2>2 DEF s
  <1>6. \A i \in 1..n : i \in 0..n /\ i # 0
    BY <1>0
  <1> QED
    BY <1>0, <1>5, <1>6 DEF SumsRecur, n, step, zero

LEMMA SnapshotsIn ==
    ASSUME ledger \in Seq(LedgerEvents), NEW i \in 0..Len(ledger), Snapshots(i) # {}
    PROVE  /\ Min(Snapshots(i)) \in Snapshots(i) /\ \A j \in Snapshots(i) : Min(Snapshots(i)) <= j
           /\ Max(Snapshots(i)) \in Snapshots(i) /\ \A j \in Snapshots(i) : Max(Snapshots(i)) >= j
  <1>1. i \in Nat /\ Snapshots(i) \subseteq 0..i /\ Snapshots(i) \subseteq Nat
    BY DEF Snapshots
  <1> DEFINE T == Snapshots(i)
  <1> HIDE DEF T
  <1>2. T \subseteq 0..i /\ T # {} /\ T \subseteq Nat
    BY <1>1 DEF T
  <1>3. /\ Min(T) \in T /\ \A j \in T : Min(T) <= j
        /\ Max(T) \in T /\ \A j \in T : Max(T) >= j
    BY <1>1, <1>2, MinIsLeast, MaxIsGreatest
  <1> QED
    BY <1>3 DEF T

LEMMA PricesGood ==
    ASSUME ledger \in Seq(LedgerEvents)
    PROVE  /\ \A i \in 0..Len(ledger) : GoodPrice(resolveSharePriceForTimestamp(i))
           /\ resolveLatestSharePrice = resolveSharePriceForTimestamp(Len(ledger))
  <1>0. Len(ledger) \in 0..Len(ledger)
    OBVIOUS
  <1>1. \A i \in 0..Len(ledger) : \A j \in Snapshots(i) : GoodPrice(priceAt(j))
    BY EventTyped DEF Snapshots, priceAt
  <1>2. GoodPrice(1)
    BY RefAssumption DEF GoodPrice
  <1>3. \A i \in 0..Len(ledger) : GoodPrice(resolveSharePriceForTimestamp(i))
    BY <1>0, <1>1, <1>2, SnapshotsIn DEF resolveSharePriceForTimestamp
  <1> QED
    BY <1>3 DEF resolveSharePriceForTimestamp, resolveLatestSharePrice

LEMMA SumsTyped ==
    ASSUME ledger \in Seq(LedgerEvents)
    PROVE  \A i \in 0..Len(ledger) : sumsUpTo[i] \in Totals
  <1> DEFINE Q == {k \in 0..Len(ledger) : sumsUpTo[k] \in Totals}
  <1>0. SumsRecur /\ Len(ledger) \in Nat
    BY SumsDefined
  <1>1. 0 \in Q
    BY <1>0 DEF SumsRecur, Totals
  <1>2. ASSUME NEW k \in 0..(Len(ledger) - 1), k \in Q PROVE k + 1 \in Q
    <2>1. k + 1 \in 1..Len(ledger) /\ k + 1 \in 0..Len(ledger) /\ (k + 1) - 1 = k
      BY <1>0
    <2>2. sumsUpTo[k + 1] = booked(sumsUpTo[k], ledger[k + 1], resolveSharePriceForTimestamp(k + 1))
      BY <1>0, <2>1 DEF SumsRecur
    <2>3. ledger[k + 1] \in LedgerEvents /\ GoodPrice(resolveSharePriceForTimestamp(k + 1))
      BY <2>1, PricesGood
    <2>4. sumsUpTo[k + 1] \in Totals
      BY <1>2, <2>2, <2>3, Booked
    <2> QED
      BY <2>1, <2>4
  <1>3. \A k \in 0..Len(ledger) : k \in Q
    <2> HIDE DEF Q
    <2> QED
      BY <1>0, <1>1, <1>2, StepInduction
  <1> QED
    BY <1>3

\* What is added up is what was deposited and withdrawn, the shares left are
\* worth what accrued, and no withdrawal was of more shares than there were.
YInv ==
    /\ ledger \in Seq(LedgerEvents) /\ Len(ledger) <= MaxRefEvents
    /\ worth \in Nat /\ out \in Nat /\ in_ \in Nat
    /\ sumsUpTo[Len(ledger)].in_ = in_ /\ sumsUpTo[Len(ledger)].out = out
    /\ sumsUpTo[Len(ledger)].shares * resolveLatestSharePrice = worth
    /\ \A i \in 1..Len(ledger) :
          ledger[i].type = "withdrawal" =>
              ledger[i].n \div resolveSharePriceForTimestamp(i) <= sumsUpTo[i - 1].shares

LEMMA YInvInit == RefInit => YInv
  <1> SUFFICES ASSUME RefInit PROVE YInv
    OBVIOUS
  <1>1. ledger = << >> /\ worth = 0 /\ out = 0 /\ in_ = 0
    BY DEF RefInit
  <1>2. ledger \in Seq(LedgerEvents) /\ Len(ledger) = 0
    BY <1>1
  <1>3. SumsRecur
    BY <1>2, SumsDefined
  <1>4. resolveLatestSharePrice = 1
    BY <1>2 DEF resolveLatestSharePrice, Snapshots
  <1>5. /\ sumsUpTo[Len(ledger)].in_ = 0 /\ sumsUpTo[Len(ledger)].out = 0
        /\ sumsUpTo[Len(ledger)].shares = 0
    BY <1>2, <1>3 DEF SumsRecur
  <1> QED
    BY <1>1, <1>2, <1>4, <1>5, RefAssumption DEF YInv

\* A new event leaves the earlier ones, and where the snapshots among them are.
LEMMA LedgerGrows ==
    ASSUME ledger \in Seq(LedgerEvents), NEW e \in LedgerEvents, ledger' = Append(ledger, e),
           NEW n, n = Len(ledger)
    PROVE  /\ ledger' \in Seq(LedgerEvents) /\ Len(ledger') = n + 1 /\ ledger'[n + 1] = e
           /\ \A i \in 1..n : ledger'[i] = ledger[i]
           /\ \A i \in 0..n : Snapshots(i)' = Snapshots(i)
           /\ Snapshots(n + 1)' = Snapshots(n) \union (IF e.type = "snapshot" THEN {n + 1} ELSE {})
  <1>1. /\ ledger' \in Seq(LedgerEvents) /\ Len(ledger') = n + 1 /\ ledger'[n + 1] = e
        /\ \A i \in 1..n : ledger'[i] = ledger[i]
    OBVIOUS
  <1>2. \A i \in 0..n : \A j \in 1..i : j \in 1..n
    OBVIOUS
  <1>3. \A i \in 0..n : Snapshots(i)' = Snapshots(i)
    BY <1>1, <1>2 DEF Snapshots
  <1>4. 1..(n + 1) = (1..n) \union {n + 1}
    OBVIOUS
  <1>5. Snapshots(n + 1)' = {j \in 1..(n + 1) : ledger'[j].type = "snapshot"}
    BY DEF Snapshots
  <1>6. Snapshots(n + 1)' = Snapshots(n) \union (IF e.type = "snapshot" THEN {n + 1} ELSE {})
    <2>1. \A j \in 1..n : (ledger'[j].type = "snapshot") <=> (ledger[j].type = "snapshot")
      BY <1>1
    <2>2. ledger'[n + 1].type = e.type
      BY <1>1
    <2> QED
      BY <1>4, <1>5, <2>1, <2>2 DEF Snapshots
  <1> QED
    BY <1>1, <1>3, <1>6

\* After the first snapshot a new event changes no price of an earlier one.
LEMMA PricesStay ==
    ASSUME ledger \in Seq(LedgerEvents), NEW e \in LedgerEvents, ledger' = Append(ledger, e),
           Snapshots(Len(ledger)) # {} \/ e.type # "snapshot"
    PROVE  \A i \in 0..Len(ledger) :
              resolveSharePriceForTimestamp(i)' = resolveSharePriceForTimestamp(i)
  <1>n. PICK n \in Nat : n = Len(ledger)
    OBVIOUS
  <1> DEFINE S == Snapshots(n)
  <1>0. /\ n \in Nat /\ n \in 0..n /\ Len(ledger') = n + 1
        /\ \A j \in 1..n : ledger'[j] = ledger[j]
        /\ \A i \in 0..n : Snapshots(i)' = Snapshots(i)
        /\ Snapshots(n + 1)' = S \union (IF e.type = "snapshot" THEN {n + 1} ELSE {})
        /\ ledger' \in Seq(LedgerEvents)
    BY <1>n, LedgerGrows
  <1> SUFFICES ASSUME NEW i \in 0..n
               PROVE  resolveSharePriceForTimestamp(i)' = resolveSharePriceForTimestamp(i)
    BY <1>n
  <1>1. \A j \in 1..n : priceAt(j)' = priceAt(j)
    BY <1>0 DEF priceAt, atLeastOne
  <1>2. S \subseteq 1..n /\ Snapshots(i) \subseteq 1..n
    BY DEF Snapshots
  <1>3. CASE Snapshots(i) # {}
    <2>1. Max(Snapshots(i)) \in 1..n
      BY <1>n, <1>2, <1>3, SnapshotsIn
    <2>2. /\ resolveSharePriceForTimestamp(i) = priceAt(Max(Snapshots(i)))
          /\ resolveSharePriceForTimestamp(i)' = priceAt(Max(Snapshots(i)))'
      BY <1>0, <1>3 DEF resolveSharePriceForTimestamp
    <2>3. priceAt(Max(Snapshots(i)))' = priceAt(Max(Snapshots(i)))
      BY <1>0, <1>1, <2>1 DEF priceAt
    <2> QED
      BY <2>2, <2>3
  <1>4. CASE Snapshots(i) = {} /\ S # {}
    <2>1. Min(S) \in S /\ \A j \in S : Min(S) <= j
      BY <1>n, <1>0, <1>4, SnapshotsIn
    <2> DEFINE T == S \union (IF e.type = "snapshot" THEN {n + 1} ELSE {})
    <2>2. T \subseteq Nat /\ T # {}
      BY <1>0, <1>2, <1>4
    <2>3. Min(T) \in T /\ \A j \in T : Min(T) <= j
      <3> HIDE DEF T
      <3> QED
        BY ONLY <2>2, MinIsLeast
    <2>4. Min(T) <= Min(S) /\ Min(S) \in 1..n /\ Min(T) \in Nat
      BY <1>2, <2>1, <2>2, <2>3
    <2>5. Min(T) # n + 1
      BY <1>0, <2>4
    <2>6. Min(T) \in S
      BY <2>3, <2>5
    <2>7. Min(T) = Min(S)
      BY <2>1, <2>4, <2>6
    <2>8. resolveSharePriceForTimestamp(i) = priceAt(Min(S))
      BY <1>n, <1>4 DEF resolveSharePriceForTimestamp
    <2>9. resolveSharePriceForTimestamp(i)' = atLeastOne(ledger'[Min(T)].n)
      <3>1. Snapshots(i)' = {} /\ (Snapshots(Len(ledger)))' = T
        BY <1>0, <1>4
      <3> HIDE DEF T
      <3> QED
        BY <2>2, <3>1 DEF resolveSharePriceForTimestamp, priceAt
    <2> HIDE DEF T, S
    <2> QED
      BY <1>0, <2>4, <2>7, <2>8, <2>9 DEF priceAt
  <1>5. CASE Snapshots(i) = {} /\ S = {}
    <2>1. Snapshots(i)' = {} /\ (Snapshots(Len(ledger)))' = {}
      BY <1>n, <1>0, <1>5
    <2> QED
      BY <1>n, <1>5, <2>1 DEF resolveSharePriceForTimestamp
  <1> QED
    BY <1>3, <1>4, <1>5

\* The first snapshot prices every event before it.
LEMMA FirstPrice ==
    ASSUME ledger \in Seq(LedgerEvents), NEW e \in LedgerEvents, ledger' = Append(ledger, e),
           Snapshots(Len(ledger)) = {}, e.type = "snapshot"
    PROVE  \A i \in 0..Len(ledger) :
              /\ resolveSharePriceForTimestamp(i) = 1
              /\ resolveSharePriceForTimestamp(i)' = atLeastOne(e.n)
  <1>n. PICK n \in Nat : n = Len(ledger)
    OBVIOUS
  <1>0. /\ n \in Nat /\ Len(ledger') = n + 1 /\ ledger'[n + 1] = e
        /\ \A i \in 0..n : Snapshots(i)' = Snapshots(i)
        /\ Snapshots(n + 1)' = {n + 1}
    BY <1>n, LedgerGrows
  <1> SUFFICES ASSUME NEW i \in 0..n
               PROVE  /\ resolveSharePriceForTimestamp(i) = 1
                      /\ resolveSharePriceForTimestamp(i)' = atLeastOne(e.n)
    BY <1>n
  <1>1. Snapshots(i) = {}
    <2>1. \A j \in 1..i : j \in 1..n
      BY <1>0
    <2>2. Snapshots(i) \subseteq Snapshots(n)
      BY <2>1 DEF Snapshots
    <2> QED
      BY <1>n, <2>2
  <1>2. Min({n + 1}) = n + 1
    <2> DEFINE T == {n + 1}
    <2>1. T \subseteq Nat /\ T # {}
      BY <1>0
    <2>2. Min(T) \in T
      <3> HIDE DEF T
      <3> QED
        BY ONLY <2>1, MinIsLeast
    <2> QED
      BY <2>2
  <1>3. Snapshots(i)' = {} /\ (Snapshots(Len(ledger)))' = {n + 1}
    BY <1>0, <1>1
  <1>4. resolveSharePriceForTimestamp(i)' = atLeastOne(ledger'[n + 1].n)
    BY <1>2, <1>3 DEF resolveSharePriceForTimestamp, priceAt
  <1> QED
    BY <1>n, <1>0, <1>1, <1>4 DEF resolveSharePriceForTimestamp

\* What holds of the loop and its prices over any ledger.
LedgerFacts ==
    /\ SumsRecur
    /\ \A i \in 0..Len(ledger) :
          sumsUpTo[i] \in Totals /\ GoodPrice(resolveSharePriceForTimestamp(i))
    /\ resolveLatestSharePrice = resolveSharePriceForTimestamp(Len(ledger))

LEMMA LedgerSound == ledger \in Seq(LedgerEvents) => LedgerFacts
  BY SumsDefined, SumsTyped, PricesGood DEF LedgerFacts

LEMMA LedgerSoundNext == ledger' \in Seq(LedgerEvents) => LedgerFacts'
  <1>1. (ledger \in Seq(LedgerEvents) => LedgerFacts)'
    BY LedgerSound, PTL
  <1> QED
    BY <1>1

\* Where no price changes, no sum does.
LEMMA SumsStay ==
    ASSUME ledger \in Seq(LedgerEvents), NEW e \in LedgerEvents, ledger' = Append(ledger, e),
           NEW n \in Nat, n = Len(ledger), LedgerFacts, LedgerFacts',
           \A i \in 0..n : resolveSharePriceForTimestamp(i)' = resolveSharePriceForTimestamp(i)
    PROVE  \A i \in 0..n : sumsUpTo'[i] = sumsUpTo[i]
  <1> DEFINE Q == {k \in 0..n : sumsUpTo'[k] = sumsUpTo[k]}
  <1>0. Len(ledger') = n + 1 /\ \A i \in 1..n : ledger'[i] = ledger[i]
    BY LedgerGrows
  <1>1. 0 \in Q
    BY DEF LedgerFacts, SumsRecur
  <1>2. ASSUME NEW k \in 0..(n - 1), k \in Q PROVE k + 1 \in Q
    <2>1. k + 1 \in 1..n /\ k + 1 \in 0..n /\ k + 1 \in 1..(n + 1) /\ (k + 1) - 1 = k
      OBVIOUS
    <2>2. PICK i \in 1..n : i = k + 1
      BY <2>1
    <2>3. sumsUpTo[i] = booked(sumsUpTo[i - 1], ledger[i], resolveSharePriceForTimestamp(i))
      BY <2>1, <2>2 DEF LedgerFacts, SumsRecur
    <2>4. sumsUpTo'[i] = booked(sumsUpTo'[i - 1], ledger'[i], resolveSharePriceForTimestamp(i)')
      BY <1>0, <2>1, <2>2 DEF LedgerFacts, SumsRecur
    <2>5. sumsUpTo'[i - 1] = sumsUpTo[i - 1]
      BY <1>2, <2>1, <2>2
    <2> QED
      BY <1>0, <2>1, <2>2, <2>3, <2>4, <2>5
  <1>3. \A k \in 0..n : k \in Q
    <2> HIDE DEF Q
    <2> QED
      BY <1>1, <1>2, StepInduction
  <1> QED
    BY <1>3

\* The first price r turns what was counted one for one into shares of r each.
LEMMA SumsPriced ==
    ASSUME YInv, NEW e \in LedgerEvents, ledger' = Append(ledger, e),
           NEW n \in Nat, n = Len(ledger), LedgerFacts, LedgerFacts',
           NEW r, GoodPrice(r),
           \A i \in 0..n : /\ resolveSharePriceForTimestamp(i) = 1
                           /\ resolveSharePriceForTimestamp(i)' = r
    PROVE  /\ \A i \in 0..n : /\ sumsUpTo'[i].in_ = sumsUpTo[i].in_
                              /\ sumsUpTo'[i].out = sumsUpTo[i].out
                              /\ sumsUpTo'[i].shares * r = sumsUpTo[i].shares
           /\ \A i \in 1..n : ledger[i].type = "withdrawal" => ledger[i].n \div r <= sumsUpTo'[i - 1].shares
  <1> DEFINE Same(i) == /\ sumsUpTo'[i].in_ = sumsUpTo[i].in_
                        /\ sumsUpTo'[i].out = sumsUpTo[i].out
                        /\ sumsUpTo'[i].shares * r = sumsUpTo[i].shares
             Q == {k \in 0..n : Same(k)}
  <1>0. /\ ledger \in Seq(LedgerEvents) /\ Len(ledger') = n + 1
        /\ \A i \in 1..n : ledger'[i] = ledger[i] /\ ledger[i] \in LedgerEvents
    <2>1. ledger \in Seq(LedgerEvents)
      BY DEF YInv
    <2> QED
      BY <2>1, LedgerGrows
  <1>r. r \in Nat /\ r > 0
    BY DEF GoodPrice
  <1>t. \A i \in 0..n : sumsUpTo[i] \in Totals /\ sumsUpTo'[i] \in Totals
    BY <1>0 DEF LedgerFacts
  <1>o. GoodPrice(1)
    BY DEF LedgerFacts
  <1>b. \A i \in 1..n : /\ sumsUpTo[i] = booked(sumsUpTo[i - 1], ledger[i], 1)
                        /\ sumsUpTo'[i] = booked(sumsUpTo'[i - 1], ledger[i], r)
    <2> SUFFICES ASSUME NEW i \in 1..n
                 PROVE  /\ sumsUpTo[i] = booked(sumsUpTo[i - 1], ledger[i], 1)
                        /\ sumsUpTo'[i] = booked(sumsUpTo'[i - 1], ledger[i], r)
      OBVIOUS
    <2>1. i \in 0..n /\ i \in 1..(n + 1)
      OBVIOUS
    <2>2. sumsUpTo[i] = booked(sumsUpTo[i - 1], ledger[i], resolveSharePriceForTimestamp(i))
      BY <2>1 DEF LedgerFacts, SumsRecur
    <2>3. sumsUpTo'[i] = booked(sumsUpTo'[i - 1], ledger'[i], resolveSharePriceForTimestamp(i)')
      BY <1>0, <2>1 DEF LedgerFacts, SumsRecur
    <2> QED
      BY <1>0, <2>1, <2>2, <2>3
  <1>d. \A m \in Nat : m % r = 0 => m \div r \in Nat /\ (m \div r) * r = m
    BY <1>r, WholeShares
  <1>e. \A m \in Nat : m \div 1 = m
    OBVIOUS
  <1>w. \A i \in 1..n : Same(i - 1) /\ ledger[i].type = "withdrawal" =>
            ledger[i].n \div r <= sumsUpTo'[i - 1].shares
    <2> SUFFICES ASSUME NEW i \in 1..n, Same(i - 1), ledger[i].type = "withdrawal"
                 PROVE  ledger[i].n \div r <= sumsUpTo'[i - 1].shares
      OBVIOUS
    <2>1. i \in 0..n /\ i - 1 \in 0..n
      OBVIOUS
    <2>2. ledger[i].n \div resolveSharePriceForTimestamp(i) <= sumsUpTo[i - 1].shares
      BY DEF YInv
    <2>3. ledger[i].n \in Nat /\ ledger[i].n % r = 0
      BY <1>0, EventTyped DEF GoodPrice
    <2>4. PICK m \in Nat : m = ledger[i].n
      BY <2>3
    <2>5. sumsUpTo[i - 1].shares \in Nat /\ sumsUpTo'[i - 1].shares \in Nat
      BY <1>t, <2>1 DEF Totals
    <2>6. PICK s \in Nat, t \in Nat : s = sumsUpTo[i - 1].shares /\ t = sumsUpTo'[i - 1].shares
      BY <2>5
    <2>7. m <= s
      BY <1>e, <2>1, <2>2, <2>4, <2>6
    <2>8. t * r = s
      BY <2>6
    <2>9. PICK d \in Nat : d = m \div r /\ d * r = m
      BY <1>d, <2>3, <2>4
    <2>10. \A a, b, c \in Nat : c > 0 /\ a * c <= b * c => a <= b
      <3> SUFFICES ASSUME NEW a \in Nat, NEW b \in Nat, NEW c \in Nat, c > 0, b + 1 <= a
                   PROVE  a * c > b * c
        OBVIOUS
      <3>1. \A x, y, z \in Nat : x <= y => x * z <= y * z
        OBVIOUS
      <3>2. (b + 1) * c <= a * c
        BY <3>1
      <3>3. (b + 1) * c = b * c + c
        OBVIOUS
      <3> QED
        BY <3>2, <3>3
    <2>11. d * r <= t * r
      BY <2>7, <2>8, <2>9
    <2>12. d <= t
      BY ONLY <1>r, <2>10, <2>11, d \in Nat, t \in Nat
    <2>13. ledger[i].n \div r = d /\ sumsUpTo'[i - 1].shares = t
      BY <2>4, <2>6, <2>9
    <2> QED
      BY <2>12, <2>13
  <1>1. 0 \in Q
    <2>1. sumsUpTo[0] = [in_ |-> 0, out |-> 0, shares |-> 0] /\ sumsUpTo'[0] = sumsUpTo[0]
      BY DEF LedgerFacts, SumsRecur
    <2>2. 0 * r = 0
      BY <1>r
    <2> QED
      BY <2>1, <2>2
  <1>2. ASSUME NEW k \in 0..(n - 1), k \in Q PROVE k + 1 \in Q
    <2>1. k + 1 \in 1..n /\ k + 1 \in 0..n /\ (k + 1) - 1 = k /\ k \in 0..n
      OBVIOUS
    <2>2. PICK i \in 1..n : i = k + 1
      BY <2>1
    <2>3. i - 1 = k /\ i \in 0..n
      BY <2>1, <2>2
    <2>4. Same(i - 1)
      BY <1>2, <2>3
    <2>5. PICK s \in Totals, t \in Totals, x \in LedgerEvents :
             s = sumsUpTo[i - 1] /\ t = sumsUpTo'[i - 1] /\ x = ledger[i]
      BY <1>0, <1>t, <2>1, <2>3
    <2>6. /\ sumsUpTo[i] = booked(s, x, 1) /\ sumsUpTo'[i] = booked(t, x, r)
          /\ t.in_ = s.in_ /\ t.out = s.out /\ t.shares * r = s.shares
          /\ (x.type = "withdrawal" => x.n \div r <= t.shares)
      <3>1. sumsUpTo[i] = booked(s, x, 1) /\ sumsUpTo'[i] = booked(t, x, r)
        BY <1>b, <2>5
      <3>2. t.in_ = s.in_ /\ t.out = s.out /\ t.shares * r = s.shares
        BY <2>4, <2>5
      <3>3. x.type = "withdrawal" => x.n \div r <= t.shares
        <4> HIDE DEF Same
        <4> QED
          BY <1>w, <2>4, <2>5
      <3> QED
        BY <3>1, <3>2, <3>3
    <2>7. s.shares \in Nat /\ t.shares \in Nat /\ s.in_ \in Nat /\ s.out \in Nat
      BY DEF Totals
    <2>8. CASE x.type = "deposit"
      <3>1. x.n \in Nat /\ x.n % r = 0
        BY <2>8, EventTyped DEF GoodPrice
      <3>2. PICK m \in Nat, d \in Nat : m = x.n /\ d = m \div r /\ d * r = m
        BY <1>d, <3>1
      <3>3. /\ sumsUpTo[i].in_ = s.in_ + m /\ sumsUpTo[i].out = s.out
            /\ sumsUpTo[i].shares = s.shares + m
        BY <1>e, <1>o, <2>6, <2>8, <3>2, Booked
      <3>4. /\ sumsUpTo'[i].in_ = t.in_ + m /\ sumsUpTo'[i].out = t.out
            /\ sumsUpTo'[i].shares = t.shares + d
        BY <2>6, <2>8, <3>2, Booked
      <3>5. (t.shares + d) * r = s.shares + m
        <4>1. \A a, b, c \in Nat : (a + b) * c = a * c + b * c
          OBVIOUS
        <4> QED
          <5>1. PICK a \in Nat : a = t.shares
            BY <2>7
          <5>2. (a + d) * r = a * r + d * r
            BY <1>r, <4>1
          <5> QED
            BY <2>6, <3>2, <5>1, <5>2
      <3> QED
        BY <2>2, <2>3, <2>6, <3>3, <3>4, <3>5
    <2>9. CASE x.type = "withdrawal"
      <3>1. x.n \in Nat /\ x.n % r = 0
        BY <2>9, EventTyped DEF GoodPrice
      <3>2. PICK m \in Nat, d \in Nat : m = x.n /\ d = m \div r /\ d * r = m
        BY <1>d, <3>1
      <3>a. d <= t.shares /\ m <= s.shares
        <4>1. d <= t.shares
          BY <2>6, <2>9, <3>2
        <4>2. \A a, b, c \in Nat : a <= b => a * c <= b * c
          OBVIOUS
        <4>3. d * r <= t.shares * r
          BY <1>r, <2>7, <3>2, <4>1, <4>2
        <4> QED
          BY <2>6, <2>7, <3>2, <4>1, <4>3
      <3>3. /\ sumsUpTo[i].in_ = s.in_ /\ sumsUpTo[i].out = s.out + m
            /\ sumsUpTo[i].shares = s.shares - m
        BY <1>e, <1>o, <2>6, <2>9, <3>2, <3>a, Booked
      <3>4. /\ sumsUpTo'[i].in_ = t.in_ /\ sumsUpTo'[i].out = t.out + m
            /\ sumsUpTo'[i].shares = t.shares - d
        BY <2>6, <2>9, <3>2, <3>a, Booked
      <3>5. (t.shares - d) * r = s.shares - m
        <4>1. \A a, b, c \in Nat : (a - b) * c = a * c - b * c
          OBVIOUS
        <4> QED
          <5>1. PICK a \in Nat : a = t.shares
            BY <2>7
          <5>2. (a - d) * r = a * r - d * r
            BY <1>r, <4>1
          <5> QED
            BY <2>6, <3>2, <5>1, <5>2
      <3> QED
        BY <2>2, <2>3, <2>6, <3>3, <3>4, <3>5
    <2>10. CASE x.type = "snapshot"
      <3>1. sumsUpTo[i] = s /\ sumsUpTo'[i] = t
        BY <1>o, <2>6, <2>10, Booked
      <3> QED
        BY <2>2, <2>3, <2>6, <3>1
    <2> QED
      BY <2>8, <2>9, <2>10, EventTyped
  <1>3. \A k \in 0..n : k \in Q
    <2> HIDE DEF Q
    <2> QED
      BY <1>1, <1>2, StepInduction
  <1>4. \A i \in 1..n : i - 1 \in 0..n
    OBVIOUS
  <1>5. \A i \in 0..n : Same(i)
    BY <1>3
  <1>6. \A i \in 1..n : ledger[i].type = "withdrawal" => ledger[i].n \div r <= sumsUpTo'[i - 1].shares
    <2> HIDE DEF Same
    <2> QED
      BY <1>w, <1>4, <1>5
  <1> QED
    BY <1>5, <1>6

\* The price of the last place: that of a snapshot there, or the one before.
LEMMA LatestPrice ==
    ASSUME ledger \in Seq(LedgerEvents), NEW e \in LedgerEvents, ledger' = Append(ledger, e),
           NEW n \in Nat, n = Len(ledger)
    PROVE  resolveSharePriceForTimestamp(n + 1)' =
              IF e.type = "snapshot" THEN atLeastOne(e.n) ELSE resolveSharePriceForTimestamp(n)
  <1> DEFINE S == Snapshots(n)
             T == S \union (IF e.type = "snapshot" THEN {n + 1} ELSE {})
  <1>0. /\ Len(ledger') = n + 1 /\ ledger'[n + 1] = e
        /\ \A i \in 1..n : ledger'[i] = ledger[i]
        /\ Snapshots(n + 1)' = T /\ (Snapshots(Len(ledger)))' = T
    <2>1. /\ Len(ledger') = n + 1 /\ ledger'[n + 1] = e
          /\ \A i \in 1..n : ledger'[i] = ledger[i]
          /\ Snapshots(n + 1)' = T
      BY LedgerGrows
    <2>2. (Snapshots(Len(ledger)))' = T
      BY <2>1
    <2> QED
      BY <2>1, <2>2
  <1>1. S \subseteq 1..n
    BY DEF Snapshots
  <1>2. CASE T = {}
    <2>1. resolveSharePriceForTimestamp(n + 1)' = 1
      <3> HIDE DEF T
      <3> QED
        BY <1>0, <1>2 DEF resolveSharePriceForTimestamp
    <2>2. S = {} /\ e.type # "snapshot"
      BY <1>2
    <2> QED
      BY <2>1, <2>2 DEF resolveSharePriceForTimestamp
  <1>3. CASE T # {}
    <2>1. T \subseteq 0..(n + 1)
      BY <1>1
    <2>2. Max(T) \in T /\ \A j \in T : Max(T) >= j
      <3>1. n + 1 \in Nat
        OBVIOUS
      <3> HIDE DEF T
      <3> QED
        BY ONLY <1>3, <2>1, <3>1, MaxIsGreatest
    <2>3. resolveSharePriceForTimestamp(n + 1)' = atLeastOne(ledger'[Max(T)].n)
      <3> HIDE DEF T
      <3> QED
        BY <1>0, <1>3 DEF resolveSharePriceForTimestamp, priceAt
    <2>4. CASE e.type = "snapshot"
      <3>1. Max(T) = n + 1
        <4>1. n + 1 \in T
          BY <2>4
        <4>2. Max(T) \in 0..(n + 1) /\ Max(T) >= n + 1
          BY <2>1, <2>2, <4>1
        <4> HIDE DEF T
        <4> QED
          BY <4>2
      <3> QED
        BY <1>0, <2>3, <2>4, <3>1
    <2>5. CASE e.type # "snapshot"
      <3>1. T = S
        BY <2>5
      <3>2. Max(S) \in 1..n
        BY <1>1, <2>2, <3>1
      <3>3. resolveSharePriceForTimestamp(n) = atLeastOne(ledger[Max(S)].n)
        BY <1>3, <3>1 DEF resolveSharePriceForTimestamp, priceAt
      <3> QED
        BY <1>0, <2>3, <2>5, <3>1, <3>2, <3>3
    <2> QED
      BY <2>4, <2>5
  <1> QED
    BY <1>2, <1>3

LEMMA YInvGrows ==
    ASSUME YInv, NEW e \in LedgerEvents, ledgerEvent(e)
    PROVE  YInv'
  <1>n. PICK n \in Nat : n = Len(ledger)
    BY DEF YInv
  <1>a. /\ ledger \in Seq(LedgerEvents) /\ ledger' = Append(ledger, e) /\ n + 1 <= MaxRefEvents
    BY <1>n, RefAssumption DEF ledgerEvent, YInv
  <1>b. /\ ledger' \in Seq(LedgerEvents) /\ Len(ledger') = n + 1 /\ ledger'[n + 1] = e
        /\ \A i \in 1..n : ledger'[i] = ledger[i]
    BY <1>n, <1>a, LedgerGrows
  <1>c. LedgerFacts /\ LedgerFacts'
    BY <1>a, <1>b, LedgerSound, LedgerSoundNext
  <1>d. PICK p : p = resolveLatestSharePrice /\ p = resolveSharePriceForTimestamp(n) /\ GoodPrice(p)
    BY <1>n, <1>c DEF LedgerFacts
  <1>e. PICK s \in Totals : s = sumsUpTo[n]
    BY <1>n, <1>c DEF LedgerFacts
  <1>f. /\ s.in_ = in_ /\ s.out = out /\ s.shares * p = worth
        /\ worth \in Nat /\ in_ \in Nat /\ out \in Nat /\ s.shares \in Nat /\ p \in Nat /\ p > 0
    BY <1>n, <1>d, <1>e DEF YInv, Totals, GoodPrice
  <1>g. PICK q : /\ q = IF e.type = "snapshot" THEN atLeastOne(e.n) ELSE p
                 /\ q = resolveSharePriceForTimestamp(n + 1)' /\ q = resolveLatestSharePrice'
                 /\ GoodPrice(q)
    <2>1. resolveSharePriceForTimestamp(n + 1)' = IF e.type = "snapshot" THEN atLeastOne(e.n) ELSE p
      BY <1>n, <1>a, <1>d, LatestPrice
    <2>2. resolveLatestSharePrice' = (resolveSharePriceForTimestamp(Len(ledger)))'
      BY <1>c DEF LedgerFacts
    <2>3. (resolveSharePriceForTimestamp(Len(ledger)))' = resolveSharePriceForTimestamp(n + 1)'
      BY <1>b
    <2>4. GoodPrice(IF e.type = "snapshot" THEN atLeastOne(e.n) ELSE p)
      BY <1>d, EventTyped
    <2> QED
      BY <2>1, <2>2, <2>3, <2>4
  <1>h. sumsUpTo'[n + 1] = booked(sumsUpTo'[n], e, q)
    <2>1. n + 1 \in 1..(n + 1) /\ (n + 1) - 1 = n
      OBVIOUS
    <2> QED
      BY <1>b, <1>c, <1>g, <2>1 DEF LedgerFacts, SumsRecur
  <1>i. n \in 0..n /\ \A i \in 1..(n + 1) : i \in 1..n \/ i = n + 1
    OBVIOUS
  <1>j. ASSUME worth' \in Nat, in_' \in Nat, out' \in Nat,
               sumsUpTo'[n + 1].in_ = in_', sumsUpTo'[n + 1].out = out',
               sumsUpTo'[n + 1].shares * q = worth',
               \A i \in 1..n : ledger[i].type = "withdrawal" =>
                  ledger[i].n \div resolveSharePriceForTimestamp(i)' <= sumsUpTo'[i - 1].shares,
               e.type = "withdrawal" => e.n \div q <= sumsUpTo'[n].shares
        PROVE  YInv'
    <2>1. \A i \in 1..(n + 1) : ledger'[i].type = "withdrawal" =>
             ledger'[i].n \div resolveSharePriceForTimestamp(i)' <= sumsUpTo'[i - 1].shares
      <3>1. ledger'[n + 1].type = "withdrawal" =>
               ledger'[n + 1].n \div resolveSharePriceForTimestamp(n + 1)' <= sumsUpTo'[(n + 1) - 1].shares
        <4>1. (n + 1) - 1 = n
          OBVIOUS
        <4> QED
          BY <1>b, <1>g, <1>j, <4>1
      <3> QED
        BY <1>b, <1>i, <1>j, <3>1
    <2> QED
      BY <1>a, <1>b, <1>g, <1>j, <2>1 DEF YInv
  <1>1. CASE Snapshots(n) = {} /\ e.type = "snapshot"
    <2>1. \A i \in 0..n : /\ resolveSharePriceForTimestamp(i) = 1
                          /\ resolveSharePriceForTimestamp(i)' = q
      BY <1>n, <1>a, <1>g, <1>1, FirstPrice
    <2>2. /\ \A i \in 0..n : /\ sumsUpTo'[i].in_ = sumsUpTo[i].in_
                             /\ sumsUpTo'[i].out = sumsUpTo[i].out
                             /\ sumsUpTo'[i].shares * q = sumsUpTo[i].shares
          /\ \A i \in 1..n : ledger[i].type = "withdrawal" => ledger[i].n \div q <= sumsUpTo'[i - 1].shares
      BY <1>n, <1>a, <1>c, <1>g, <2>1, SumsPriced
    <2>3. p = 1 /\ s.shares = worth
      <3>1. p = 1
        BY <1>d, <1>i, <2>1
      <3> QED
        BY <1>f, <3>1
    <2>4. worth' = worth /\ UNCHANGED <<in_, out>>
      BY <1>n, <1>1 DEF ledgerEvent
    <2>5. PICK t \in Totals : t = sumsUpTo'[n]
      BY <1>b, <1>c, <1>i DEF LedgerFacts
    <2>6. sumsUpTo'[n + 1] = t
      BY <1>h, <1>g, <1>1, <2>5, Booked
    <2>7. t.in_ = in_ /\ t.out = out /\ t.shares * q = worth
      BY <1>e, <1>f, <1>i, <2>2, <2>3, <2>5
    <2>8. \A i \in 1..n : i \in 0..n
      OBVIOUS
    <2> QED
      BY <1>f, <1>j, <1>1, <2>1, <2>2, <2>4, <2>6, <2>7, <2>8
  <1>2. CASE Snapshots(n) # {} \/ e.type # "snapshot"
    <2>1. \A i \in 0..n : resolveSharePriceForTimestamp(i)' = resolveSharePriceForTimestamp(i)
      BY <1>n, <1>a, <1>2, PricesStay
    <2>2. \A i \in 0..n : sumsUpTo'[i] = sumsUpTo[i]
      BY <1>n, <1>a, <1>c, <2>1, SumsStay
    <2>3. \A i \in 1..n : ledger[i].type = "withdrawal" =>
                  ledger[i].n \div resolveSharePriceForTimestamp(i)' <= sumsUpTo'[i - 1].shares
      <3>1. \A i \in 1..n : i \in 0..n /\ i - 1 \in 0..n
        OBVIOUS
      <3>2. \A i \in 1..n : ledger[i].type = "withdrawal" =>
                  ledger[i].n \div resolveSharePriceForTimestamp(i) <= sumsUpTo[i - 1].shares
        BY <1>n DEF YInv
      <3> QED
        BY <2>1, <2>2, <3>1, <3>2
    <2>4. sumsUpTo'[n + 1] = booked(s, e, q) /\ sumsUpTo'[n] = s
      BY <1>e, <1>h, <1>i, <2>2
    <2>5. CASE e.type = "deposit"
      <3>1. q = p /\ worth' = worth + e.n /\ in_' = in_ + e.n /\ out' = out
        BY <1>g, <2>5 DEF ledgerEvent
      <3>2. PICK m \in Nat, d \in Nat : m = e.n /\ d = m \div q /\ d * p = m
        <4>1. e.n \in Nat /\ e.n % q = 0
          BY <1>g, <2>5, EventTyped DEF GoodPrice
        <4> QED
          BY <1>f, <3>1, <4>1, WholeShares
      <3>3. /\ sumsUpTo'[n + 1].in_ = s.in_ + m /\ sumsUpTo'[n + 1].out = s.out
            /\ sumsUpTo'[n + 1].shares = s.shares + d
        BY <1>g, <2>4, <2>5, <3>2, Booked
      <3>4. (s.shares + d) * p = worth + m
        <4>1. PICK a \in Nat : a = s.shares
          BY <1>f
        <4>2. (a + d) * p = a * p + d * p
          BY <1>f
        <4> QED
          BY <1>f, <3>2, <4>1, <4>2
      <3>5. worth' \in Nat /\ in_' \in Nat /\ out' \in Nat
        BY <1>f, <3>1, <3>2
      <3> QED
        BY <1>f, <1>j, <2>3, <2>5, <3>1, <3>2, <3>3, <3>4, <3>5
    <2>6. CASE e.type = "withdrawal"
      <3>1. q = p /\ worth' = worth - e.n /\ in_' = in_ /\ out' = out + e.n /\ e.n <= worth
        BY <1>g, <2>6 DEF ledgerEvent
      <3>2. PICK m \in Nat, d \in Nat : m = e.n /\ d = m \div q /\ d * p = m
        <4>1. e.n \in Nat /\ e.n % q = 0
          BY <1>g, <2>6, EventTyped DEF GoodPrice
        <4> QED
          BY <1>f, <3>1, <4>1, WholeShares
      <3>a. PICK a \in Nat : a = s.shares
        BY <1>f
      <3>3. d <= a
        <4> SUFFICES ASSUME a + 1 <= d PROVE FALSE
          BY <3>2, <3>a
        <4>1. \A x, y, z \in Nat : x <= y => x * z <= y * z
          OBVIOUS
        <4>2. (a + 1) * p <= d * p
          BY <1>f, <4>1
        <4>3. (a + 1) * p = a * p + p
          BY <1>f
        <4> QED
          BY <1>f, <3>1, <3>2, <3>a, <4>2, <4>3
      <3>4. /\ sumsUpTo'[n + 1].in_ = s.in_ /\ sumsUpTo'[n + 1].out = s.out + m
            /\ sumsUpTo'[n + 1].shares = s.shares - d
        BY <1>g, <2>4, <2>6, <3>2, <3>a, <3>3, Booked
      <3>5. (s.shares - d) * p = worth - m
        <4>1. (a - d) * p = a * p - d * p
          BY <1>f
        <4> QED
          BY <1>f, <3>2, <3>a, <4>1
      <3>6. worth' \in Nat /\ in_' \in Nat /\ out' \in Nat
        BY <1>f, <3>1, <3>2
      <3>7. e.n \div q <= sumsUpTo'[n].shares
        BY <2>4, <3>2, <3>a, <3>3
      <3> QED
        BY <1>f, <1>j, <2>3, <3>1, <3>2, <3>4, <3>5, <3>6, <3>7
    <2>7. CASE e.type = "snapshot"
      <3>1. worth' = (worth * q) \div p /\ in_' = in_ /\ out' = out
        BY <1>n, <1>d, <1>g, <1>2, <2>7 DEF ledgerEvent
      <3>2. sumsUpTo'[n + 1] = s
        BY <1>g, <2>4, <2>7, Booked
      <3>3. q \in Nat
        BY <1>g DEF GoodPrice
      <3>4. worth' = s.shares * q
        <4>1. PICK a \in Nat : a = s.shares
          BY <1>f
        <4>2. ((a * p) * q) \div p = a * q
          BY <1>f, <3>3, WorthAtPrice
        <4> QED
          BY <1>f, <3>1, <4>1, <4>2
      <3>5. s.shares * q \in Nat
        <4>1. \A x, y \in Nat : x * y \in Nat
          OBVIOUS
        <4> QED
          BY <1>f, <3>3, <4>1
      <3> QED
        BY <1>f, <1>j, <2>3, <2>7, <3>1, <3>2, <3>4, <3>5
    <2> QED
      BY <2>5, <2>6, <2>7, EventTyped
  <1> QED
    BY <1>1, <1>2

LEMMA YInvStep == YInv /\ [CodesNext \/ YieldNext]_refVars => YInv'
  <1> SUFFICES ASSUME YInv, [CodesNext \/ YieldNext]_refVars PROVE YInv'
    OBVIOUS
  <1>1. ASSUME NEW e \in LedgerEvents, ledgerEvent(e) PROVE YInv'
    BY <1>1, YInvGrows
  <1>2. CASE UNCHANGED yieldVars
    <2>1. UNCHANGED <<ledger, worth, out, in_>>
      BY <1>2 DEF yieldVars
    <2>2. \A i : resolveSharePriceForTimestamp(i)' = resolveSharePriceForTimestamp(i)
      BY <2>1 DEF resolveSharePriceForTimestamp, Snapshots, priceAt
    <2>3. resolveLatestSharePrice' = resolveLatestSharePrice
      BY <2>1 DEF resolveLatestSharePrice, Snapshots, priceAt
    <2>4. sumsUpTo' = sumsUpTo
      BY <2>1, <2>2 DEF sumsUpTo
    <2> QED
      BY <2>1, <2>2, <2>3, <2>4 DEF YInv
  <1>3. CodesNext \/ UNCHANGED refVars => UNCHANGED yieldVars
    BY DEF CodesNext, findCode, generateReferralCode, createCode, recordDeposit, refVars, yieldVars
  <1> QED
    BY <1>1, <1>2, <1>3 DEF YieldNext

LEMMA AccruedIsComputed == YInv => YieldIsAccrued
  BY DEF YInv, YieldIsAccrued, calculateUserYield

-----------------------------------------------------------------------------
LEMMA ExportInvHolds == Spec => [](HeldInv /\ BulkInv)
  <1>1. Init => HeldInv /\ BulkInv
    BY ExportInvInit DEF Init
  <1>2. HeldInv /\ BulkInv /\ [Next]_vars => (HeldInv /\ BulkInv)'
    BY PartsRun, HeldInvStep, BulkInvStep
  <1> QED
    BY <1>1, <1>2, PTL DEF Spec

LEMMA RefInvHolds == Spec => [](CInv /\ RelationTyped /\ YInv)
  <1>1. Init => CInv /\ RelationTyped /\ YInv
    BY CInvInit, YInvInit DEF Init
  <1>2. CInv /\ RelationTyped /\ YInv /\ [Next]_vars => (CInv /\ RelationTyped /\ YInv)'
    BY PartsRun, CInvStep, RelationTypedStep, YInvStep
  <1> QED
    BY <1>1, <1>2, PTL DEF Spec

\* What a caller was given is what the tables have: an export and its verdict
\* (recordExportJob, verifyExport), the row of a bulk export (upsert), a
\* referral code (getOrCreateReferralCode), the yield a reward is computed from
\* (calculateUserYield).
THEOREM HandedOutIsKept == Spec => []HandedOutIsRecorded
  <1>1. HeldInv => DownloadsAreRecorded
    BY DEF HeldInv, DownloadsAreRecorded
  <1>2. BulkInv => BulkRowLagsOnlyAstray
    BY DEF BulkInv, InOrder, BulkRowLagsOnlyAstray
  <1>3. CInv => CodesCreditTheirOwner
    BY DEF CInv
  <1>4. HeldInv /\ BulkInv /\ CInv /\ YInv => HandedOutIsRecorded
    BY <1>1, <1>2, <1>3, AccruedIsComputed DEF HandedOutIsRecorded
  <1> QED
    BY <1>4, ExportInvHolds, RefInvHolds, PTL

-----------------------------------------------------------------------------
(* Pages *)

\* A window of a sequence: the places after a, up to m.
LEMMA CutOut ==
    ASSUME NEW S, NEW s \in Seq(S), NEW a \in Nat, NEW m \in Nat, m <= Len(s)
    PROVE  /\ SubSeq(s, a + 1, m) \in Seq(S)
           /\ Len(SubSeq(s, a + 1, m)) = IF a < m THEN m - a ELSE 0
           /\ DOMAIN SubSeq(s, a + 1, m) = 1..Len(SubSeq(s, a + 1, m))
           /\ \A i \in 1..(m - a) : SubSeq(s, a + 1, m)[i] = s[a + i]
  <1> DEFINE w == SubSeq(s, a + 1, m)
  <1>1. \A i \in (a + 1)..m : s[i] \in S
    BY LenProperties
  <1>2. a + 1 \in Int /\ m \in Int
    OBVIOUS
  <1>3. /\ w \in Seq(S) /\ Len(w) = IF a + 1 <= m THEN m - (a + 1) + 1 ELSE 0
        /\ \A i \in 1..(m - (a + 1) + 1) : w[i] = s[(a + 1) + i - 1]
    BY ONLY <1>1, <1>2, SubSeqProperties
  <1> HIDE DEF w
  <1>4. Len(w) = IF a < m THEN m - a ELSE 0
    BY <1>3
  <1>5. ASSUME NEW i \in 1..(m - a) PROVE w[i] = s[a + i]
    <2>1. i \in 1..(m - (a + 1) + 1) /\ (a + 1) + i - 1 = a + i
      OBVIOUS
    <2> QED
      BY <1>3, <2>1
  <1>6. DOMAIN w = 1..Len(w)
    BY <1>3, LenProperties
  <1> QED
    BY <1>3, <1>4, <1>5, <1>6 DEF w

-----------------------------------------------------------------------------
(* A wallet's transactions, page by page *)

\* The rows before the cursor have been given, as many as are skipped are
\* before it, and after a reply the rows before its last one have been given.
PgInv ==
    /\ DOMAIN txs \subseteq TxRows /\ IsFiniteSet(DOMAIN txs)
    /\ now_ \in Nat /\ \A t \in DOMAIN txs : txs[t] \in Nat
    /\ opened \subseteq DOMAIN txs
    /\ phase \in {"idle", "total", "skip", "find"} /\ skip \in Nat /\ pages \in Nat
    /\ cursor = 0 \/ cursor \in DOMAIN txs
    /\ reply.next = 0 \/ reply.next \in DOMAIN txs
    /\ phase # "idle" /\ cursor # 0 => \A t \in opened : before(t, cursor) => t \in got
    /\ skip # 0 => cursor # 0
    /\ phase = "find" /\ cursor # 0 => skip <= Cardinality(skipped(cursor))
    /\ phase = "skip" => cursor # 0
    /\ phase = "idle" /\ pages > 0 =>
          /\ reply.next = 0 => opened \subseteq got
          /\ reply.next # 0 => \A t \in opened : before(t, reply.next) => t \in got
          /\ reply.hasMore => reply.next = Last(reply.data)
          /\ ~reply.hasMore => reply.next = 0
          /\ reply.data = << >> => ~reply.hasMore
    /\ reply.data \in Seq(DOMAIN txs) /\ Len(reply.data) <= PageLimit
    /\ reply.total \in Nat /\ reply.total <= Cardinality(DOMAIN txs)

LEMMA PgInvInit == PageInit => PgInv
  <1> SUFFICES ASSUME PageInit PROVE PgInv
    OBVIOUS
  <1>1. /\ txs = << >> /\ now_ = 0 /\ phase = "idle" /\ cursor = 0 /\ skip = 0
        /\ reply = [data |-> << >>, next |-> 0, hasMore |-> FALSE, total |-> 0]
        /\ pages = 0 /\ opened = {} /\ got = {}
    BY DEF PageInit, NoReply
  <1>2. DOMAIN txs = {} /\ IsFiniteSet(DOMAIN txs) /\ Cardinality(DOMAIN txs) = 0
    BY <1>1, FS_EmptySet
  <1>3. reply.data = << >> /\ reply.next = 0 /\ reply.total = 0 /\ reply.hasMore = FALSE
    BY <1>1
  <1>4. reply.data \in Seq(DOMAIN txs) /\ Len(reply.data) = 0
    BY <1>3
  <1>5. 0 <= PageLimit
    BY PagesAssumption
  <1> QED
    BY <1>1, <1>2, <1>3, <1>4, <1>5 DEF PgInv

\* A new row changes no order among the ones there are.
LEMMA RowRecorded ==
    ASSUME PgInv, NEW t \in TxRows, recordTx(t)
    PROVE  PgInv'
  <1> DEFINE D == DOMAIN txs
  <1>1. /\ t \notin D /\ txs' = [u \in D \union {t} |-> IF u = t THEN now_ ELSE txs[u]]
        /\ UNCHANGED <<now_, phase, order, cursor, skip, reply, pages, opened, got>>
    BY DEF recordTx
  <1>2. DOMAIN txs' = D \union {t} /\ \A u \in D : txs'[u] = txs[u]
    BY <1>1
  <1>3. IsFiniteSet(D)
    BY DEF PgInv
  <1>4. /\ IsFiniteSet(DOMAIN txs') /\ Cardinality(D) \in Nat
        /\ Cardinality(DOMAIN txs') = Cardinality(D) + 1
    BY <1>1, <1>2, <1>3, FS_AddElement, FS_CardinalityType
  <1>5. \A u, v \in D : before(u, v)' <=> before(u, v)
    BY <1>1, <1>2 DEF before
  <1>6. opened \subseteq D /\ (cursor = 0 \/ cursor \in D) /\ (reply.next = 0 \/ reply.next \in D)
    BY DEF PgInv
  <1>7. ASSUME NEW c \in D
        PROVE  Cardinality(skipped(c)) <= Cardinality(skipped(c)') /\ Cardinality(skipped(c)') \in Nat
    <2>1. skipped(c)' = {u \in DOMAIN txs' : before(u, c)'}
      BY DEF skipped
    <2>2. skipped(c) \in SUBSET (skipped(c)')
      BY <1>2, <1>5, <2>1 DEF skipped
    <2>3. skipped(c)' \in SUBSET (DOMAIN txs')
      BY <2>1
    <2>4. IsFiniteSet(skipped(c)')
      BY ONLY <1>4, <2>3, FS_Subset
    <2> QED
      BY ONLY <2>2, <2>4, FS_Subset, FS_CardinalityType
  <1>8. \A c \in D : Cardinality(skipped(c)) \in Nat
    <2> SUFFICES ASSUME NEW c \in D PROVE Cardinality(skipped(c)) \in Nat
      OBVIOUS
    <2>1. skipped(c) \in SUBSET D
      BY DEF skipped
    <2>2. IsFiniteSet(skipped(c))
      BY ONLY <1>3, <2>1, FS_Subset
    <2> QED
      BY ONLY <2>2, FS_CardinalityType
  <1>9. phase = "find" /\ cursor # 0 => skip <= Cardinality(skipped(cursor)')
    <2> SUFFICES ASSUME phase = "find", cursor # 0 PROVE skip <= Cardinality(skipped(cursor)')
      OBVIOUS
    <2>1. skip \in Nat /\ skip <= Cardinality(skipped(cursor)) /\ cursor \in D
      BY DEF PgInv
    <2>2. PICK c \in D : c = cursor
      BY <2>1
    <2>3. skipped(cursor) = skipped(c) /\ skipped(cursor)' = skipped(c)'
      BY <1>1, <2>2 DEF skipped
    <2> QED
      BY <1>7, <1>8, <2>1, <2>2, <2>3
  <1>10. DOMAIN txs' \subseteq TxRows /\ \A u \in DOMAIN txs' : txs'[u] \in Nat
    BY <1>1, <1>2 DEF PgInv
  <1>11. reply.data \in Seq(DOMAIN txs')
    <2>1. \A i \in DOMAIN reply.data : reply.data[i] \in DOMAIN txs'
      BY <1>2 DEF PgInv
    <2>2. \A s \in Seq(D) : (\A i \in DOMAIN s : s[i] \in DOMAIN txs') => s \in Seq(DOMAIN txs')
      OBVIOUS
    <2> QED
      BY <2>1, <2>2 DEF PgInv
  <1>12. reply.total <= Cardinality(DOMAIN txs')
    <2>1. reply.total \in Nat /\ reply.total <= Cardinality(D)
      BY DEF PgInv
    <2> QED
      BY <1>4, <2>1
  <1>13. /\ phase # "idle" /\ cursor # 0 => \A u \in opened : before(u, cursor)' => u \in got
         /\ phase = "idle" /\ pages > 0 /\ reply.next # 0 =>
               \A u \in opened : before(u, reply.next)' => u \in got
    BY <1>1, <1>5, <1>6 DEF PgInv
  <1>14. /\ opened \subseteq DOMAIN txs'
         /\ cursor = 0 \/ cursor \in DOMAIN txs'
         /\ reply.next = 0 \/ reply.next \in DOMAIN txs'
    BY <1>2, <1>6
  <1> QED
    BY <1>1, <1>4, <1>9, <1>10, <1>11, <1>12, <1>13, <1>14 DEF PgInv

\* What is fetched: the places of the ordering after those skipped.
LEMMA PageFetched ==
    ASSUME PgInv, phase = "find", NEW s \in Orderings,
           NEW rows, rows = fetched(s),
           NEW data, data = IF Len(rows) > PageLimit THEN SubSeq(rows, 1, PageLimit) ELSE rows
    PROVE  /\ data \in Seq(DOMAIN txs) /\ Len(data) <= PageLimit
           /\ Len(rows) > PageLimit => /\ data # << >> /\ Last(data) \in DOMAIN txs
                                       /\ \A t \in opened : before(t, Last(data)) => t \in got \cup Range(data)
           /\ ~(Len(rows) > PageLimit) => opened \subseteq got \cup Range(data)
  <1> DEFINE D == DOMAIN txs
             n == Cardinality(D)
             m == IF skip + PageLimit + 1 < n THEN skip + PageLimit + 1 ELSE n
  <1>1. /\ IsFiniteSet(D) /\ skip \in Nat /\ opened \subseteq D
        /\ (cursor = 0 \/ cursor \in D) /\ (skip # 0 => cursor # 0)
        /\ (cursor # 0 => skip <= Cardinality(skipped(cursor)))
        /\ (cursor # 0 => \A t \in opened : before(t, cursor) => t \in got)
    BY DEF PgInv
  <1>2. n \in Nat /\ PageLimit \in Nat /\ PageLimit > 0
    BY <1>1, FS_CardinalityType, PagesAssumption
  <1> HIDE DEF n
  <1>3. /\ s \in [1..n -> D] /\ \A i, j \in 1..n : i # j => s[i] # s[j]
        /\ \A i, j \in 1..n : before(s[i], s[j]) => i < j
    BY DEF Orderings, SetToSeqs, n
  <1>4. s \in Seq(D) /\ Len(s) = n /\ DOMAIN s = 1..n
    BY <1>2, <1>3
  <1>5. \A t \in D : \E i \in 1..n : s[i] = t
    <2>1. s \in Injection(1..n, D)
      BY <1>3 DEF Injection, IsInjective
    <2>2. Cardinality(1..n) = n
      BY <1>2, FS_Interval
    <2>3. Cardinality(1..n) = Cardinality(D)
      BY <2>2 DEF n
    <2>4. s \in Surjection(1..n, D)
      BY ONLY <1>1, <2>1, <2>3, FS_Injection
    <2> QED
      BY <2>4 DEF Surjection
  <1>6. \A i \in 1..n : i <= skip /\ s[i] \in opened => s[i] \in got
    <2> SUFFICES ASSUME NEW k \in 1..n, k <= skip, s[k] \in opened PROVE s[k] \in got
      OBVIOUS
    <2>1. cursor # 0 /\ cursor \in D
      BY <1>1
    <2> DEFINE B == skipped(cursor)
    <2>2. B \in SUBSET D
      BY DEF skipped
    <2>3. IsFiniteSet(B)
      BY ONLY <1>1, <2>2, FS_Subset
    <2>4. \A x, y \in D : x \in B /\ y \notin B => before(x, y)
      <3> SUFFICES ASSUME NEW x \in D, NEW y \in D, x \in B, y \notin B PROVE before(x, y)
        OBVIOUS
      <3>1. before(x, cursor) /\ ~before(y, cursor)
        BY DEF skipped
      <3>2. txs[x] \in Nat /\ txs[y] \in Nat /\ txs[cursor] \in Nat
        BY <2>1 DEF PgInv
      <3> QED
        BY <3>1, <3>2 DEF before
    <2>5. \A b \in B : \E i \in 1..n : s[i] = b
      BY <1>5, <2>2
    <2>6. \A i, j \in 1..n : s[i] \in B /\ s[j] \notin B => i < j
      BY <1>3, <2>4
    <2>7. Cardinality(B) \in Nat
      BY ONLY <2>3, FS_CardinalityType
    <2>8. k <= Cardinality(B)
      BY <1>1, <1>2, <2>1, <2>7
    <2> HIDE DEF B
    <2>9. \A i \in 1..n : i <= Cardinality(B) => s[i] \in B
      BY ONLY <1>2, <2>3, <2>5, <2>6, FirstPlaces
    <2>10. s[k] \in skipped(cursor)
      BY <2>8, <2>9 DEF B
    <2> QED
      BY <1>1, <2>1, <2>10 DEF skipped
  <1>7. rows = SubSeq(s, skip + 1, m)
    BY <1>4 DEF fetched
  <1>m. m \in Nat /\ m <= n /\ m <= skip + PageLimit + 1
    BY <1>1, <1>2
  <1>8. /\ rows \in Seq(D) /\ Len(rows) = IF skip < m THEN m - skip ELSE 0
        /\ \A i \in 1..(m - skip) : rows[i] = s[skip + i]
        /\ DOMAIN rows = 1..Len(rows)
    <2>1. skip \in Nat /\ s \in Seq(D) /\ m \in Nat /\ m <= Len(s)
      BY <1>1, <1>4, <1>m
    <2> HIDE DEF m, D
    <2>2. /\ SubSeq(s, skip + 1, m) \in Seq(D)
          /\ Len(SubSeq(s, skip + 1, m)) = IF skip < m THEN m - skip ELSE 0
          /\ DOMAIN SubSeq(s, skip + 1, m) = 1..Len(SubSeq(s, skip + 1, m))
          /\ \A i \in 1..(m - skip) : SubSeq(s, skip + 1, m)[i] = s[skip + i]
      BY ONLY <2>1, CutOut
    <2> QED
      BY ONLY <1>7, <2>2
  <1>9. CASE Len(rows) > PageLimit
    <2>1. m = skip + PageLimit + 1 /\ m - skip = PageLimit + 1 /\ Len(rows) = PageLimit + 1
          /\ skip + PageLimit \in 1..n /\ skip + PageLimit < n
      BY <1>1, <1>2, <1>8, <1>9, <1>m
    <2>3. data = SubSeq(rows, 0 + 1, PageLimit)
      <3>1. data = SubSeq(rows, 1, PageLimit)
        BY <1>9
      <3>2. 0 + 1 = 1
        OBVIOUS
      <3> QED
        BY ONLY <3>1, <3>2
    <2>4. /\ data \in Seq(D) /\ Len(data) = PageLimit /\ DOMAIN data = 1..PageLimit
          /\ \A i \in 1..PageLimit : data[i] = rows[0 + i]
      <3>1. /\ 0 \in Nat /\ PageLimit \in Nat /\ PageLimit <= Len(rows) /\ rows \in Seq(D)
            /\ 0 < PageLimit /\ PageLimit - 0 = PageLimit
        BY <1>2, <1>8, <2>1
      <3> HIDE DEF D
      <3>w. /\ SubSeq(rows, 0 + 1, PageLimit) \in Seq(D)
            /\ Len(SubSeq(rows, 0 + 1, PageLimit)) = IF 0 < PageLimit THEN PageLimit - 0 ELSE 0
            /\ DOMAIN SubSeq(rows, 0 + 1, PageLimit) = 1..Len(SubSeq(rows, 0 + 1, PageLimit))
            /\ \A i \in 1..(PageLimit - 0) : SubSeq(rows, 0 + 1, PageLimit)[i] = rows[0 + i]
        BY ONLY <3>1, CutOut
      <3>2. /\ data \in Seq(D) /\ Len(data) = IF 0 < PageLimit THEN PageLimit - 0 ELSE 0
            /\ DOMAIN data = 1..Len(data)
            /\ \A i \in 1..(PageLimit - 0) : data[i] = rows[0 + i]
        BY ONLY <2>3, <3>w
      <3> QED
        BY <3>1, <3>2
    <2>5. Len(data) = PageLimit /\ \A i \in 1..PageLimit : data[i] = s[skip + i]
      <3> SUFFICES ASSUME NEW i \in 1..PageLimit PROVE data[i] = s[skip + i]
        BY <2>4
      <3>1. i \in 1..(m - skip) /\ 0 + i = i
        BY <1>2, <2>1
      <3> QED
        BY <1>8, <2>4, <3>1
    <2>6. Last(data) = s[skip + PageLimit] /\ data # << >>
      <3>1. PageLimit \in 1..PageLimit
        BY <1>2
      <3>2. Last(data) = s[skip + PageLimit]
        BY <2>5, <3>1 DEF Last
      <3>3. Len(<< >>) = 0
        OBVIOUS
      <3> QED
        BY <1>2, <2>5, <3>2, <3>3
    <2>7. \A t \in opened : before(t, Last(data)) => t \in got \cup Range(data)
      <3> SUFFICES ASSUME NEW t \in opened, before(t, Last(data)) PROVE t \in got \cup Range(data)
        OBVIOUS
      <3>1. PICK i \in 1..n : s[i] = t
        BY <1>1, <1>5
      <3>2. i < skip + PageLimit
        BY <1>3, <2>1, <2>6, <3>1
      <3>3. CASE i <= skip
        BY <1>6, <3>1, <3>3
      <3>4. CASE ~(i <= skip)
        <4>1. PICK j \in 1..PageLimit : i = skip + j
          <5>1. i - skip \in 1..PageLimit /\ i = skip + (i - skip)
            BY <1>1, <1>2, <3>2, <3>4
          <5> QED
            BY <5>1
        <4>2. data[j] = t /\ j \in DOMAIN data
          BY ONLY <2>4, <2>5, <3>1, <4>1
        <4> QED
          BY <4>2 DEF Range
      <3> QED
        BY <3>3, <3>4
    <2> QED
      BY <1>2, <1>3, <1>9, <2>1, <2>4, <2>5, <2>6, <2>7
  <1>10. CASE ~(Len(rows) > PageLimit)
    <2>1. data = rows /\ data \in Seq(D) /\ Len(data) <= PageLimit
      <3>1. Len(rows) \in Nat
        BY <1>8
      <3> QED
        BY <1>2, <1>8, <1>10, <3>1
    <2>2. n <= skip \/ m = n
      BY <1>1, <1>2, <1>8, <1>10, <1>m
    <2>3. opened \subseteq got \cup Range(data)
      <3> SUFFICES ASSUME NEW t \in opened PROVE t \in got \cup Range(data)
        OBVIOUS
      <3>1. PICK i \in 1..n : s[i] = t
        BY <1>1, <1>5
      <3>2. CASE i <= skip
        BY <1>6, <3>1, <3>2
      <3>3. CASE ~(i <= skip)
        <4>0. m = n
          BY <1>1, <1>2, <2>2, <3>3
        <4>1. PICK j \in 1..(m - skip) : i = skip + j
          <5>1. i - skip \in 1..(m - skip) /\ i = skip + (i - skip)
            BY <1>1, <1>2, <3>3, <4>0
          <5> QED
            BY <5>1
        <4>2. Len(rows) = m - skip /\ j \in 1..Len(rows)
          <5>1. skip < m
            BY ONLY <1>1, <1>m, <4>1
          <5> QED
            BY ONLY <1>8, <4>1, <5>1
        <4>3. data[j] = t /\ j \in DOMAIN data
          BY ONLY <1>8, <2>1, <3>1, <4>1, <4>2
        <4> QED
          BY <4>3 DEF Range
      <3> QED
        BY <3>2, <3>3
    <2> QED
      BY <1>10, <2>1, <2>3
  <1> QED
    BY <1>9, <1>10

LEMMA PgInvStep == PgInv /\ [PageNext]_pageVars => PgInv'
  <1> SUFFICES ASSUME PgInv, [PageNext]_pageVars PROVE PgInv'
    OBVIOUS
  <1>c. \A c \in DOMAIN txs : Cardinality(skipped(c)) \in Nat
    <2> SUFFICES ASSUME NEW c \in DOMAIN txs PROVE Cardinality(skipped(c)) \in Nat
      OBVIOUS
    <2>1. skipped(c) \in SUBSET DOMAIN txs /\ IsFiniteSet(DOMAIN txs)
      BY DEF skipped, PgInv
    <2>2. IsFiniteSet(skipped(c))
      BY ONLY <2>1, FS_Subset
    <2> QED
      BY ONLY <2>2, FS_CardinalityType
  <1>1. ASSUME NEW t \in TxRows, recordTx(t) PROVE PgInv'
    BY <1>1, RowRecorded
  <1>2. CASE pagesTick
    <2>1. now_' = now_ + 1 /\ UNCHANGED <<txs, phase, order, cursor, skip, reply, pages, opened, got>>
      BY <1>2 DEF pagesTick
    <2>2. now_' \in Nat
      BY <2>1 DEF PgInv
    <2> QED
      BY <2>1, <2>2 DEF PgInv, before, skipped
  <1>3. CASE listTransactions
    <2>1. /\ phase = "idle" /\ phase' = "total" /\ skip' = 0
          /\ UNCHANGED <<txs, now_, order, reply, pages, got>>
      BY <1>3 DEF listTransactions
    <2>2. CASE pages = 0 /\ cursor' = 0 /\ opened' = DOMAIN txs
      BY <2>1, <2>2 DEF PgInv
    <2>3. CASE pages > 0 /\ reply.next # 0 /\ cursor' = reply.next /\ UNCHANGED opened
      <3>1. \A t \in opened : before(t, cursor)' => t \in got
        BY <2>1, <2>3 DEF PgInv, before
      <3> QED
        BY <2>1, <2>3, <3>1 DEF PgInv
    <2> QED
      BY <1>3, <2>2, <2>3 DEF listTransactions
  <1>4. CASE countTotal
    <2>1. /\ phase = "total" /\ reply' = [NoReply EXCEPT !.total = Cardinality(DOMAIN txs)]
          /\ phase' = IF cursor = 0 THEN "find" ELSE "skip"
          /\ UNCHANGED <<txs, now_, order, cursor, skip, pages, opened, got>>
      BY <1>4 DEF countTotal
    <2>2. /\ reply'.data = << >> /\ reply'.next = 0 /\ reply'.hasMore = FALSE
          /\ reply'.total = Cardinality(DOMAIN txs)
      BY <2>1 DEF NoReply
    <2>3. reply'.total \in Nat /\ reply'.total <= Cardinality(DOMAIN txs')
      <3>1. Cardinality(DOMAIN txs) \in Nat
        BY FS_CardinalityType DEF PgInv
      <3> QED
        BY <2>1, <2>2, <3>1
    <2>4. reply'.data \in Seq(DOMAIN txs') /\ Len(reply'.data) <= PageLimit
      BY <2>2, PagesAssumption
    <2>5. phase' # "idle" /\ (phase' = "find" => cursor = 0) /\ (phase' = "skip" => cursor # 0)
      BY <2>1
    <2>6. \A t \in opened : cursor # 0 /\ before(t, cursor)' => t \in got
      BY <2>1 DEF PgInv, before
    <2> QED
      BY <2>1, <2>2, <2>3, <2>4, <2>5, <2>6 DEF PgInv
  <1>5. CASE countSkip
    <2>1. /\ phase = "skip" /\ skip' = Cardinality(skipped(cursor)) /\ phase' = "find"
          /\ UNCHANGED <<txs, now_, order, cursor, reply, pages, opened, got>>
      BY <1>5 DEF countSkip
    <2>2. cursor # 0 /\ cursor \in DOMAIN txs
      BY <2>1 DEF PgInv
    <2>3. skip' \in Nat /\ skip' <= Cardinality(skipped(cursor)')
      <3>1. skipped(cursor)' = skipped(cursor)
        BY <2>1 DEF skipped, before
      <3>2. Cardinality(skipped(cursor)) \in Nat
        BY <1>c, <2>2
      <3> QED
        BY <2>1, <3>1, <3>2
    <2>4. \A t \in opened : before(t, cursor)' => t \in got
      BY <2>1, <2>2 DEF PgInv, before
    <2> QED
      BY <2>1, <2>2, <2>3, <2>4 DEF PgInv
  <1>6. CASE findPage
    <2>1. PICK s \in Orderings :
            LET rows == fetched(s)
                more == Len(rows) > PageLimit
                data == IF more THEN SubSeq(rows, 1, PageLimit) ELSE rows
            IN /\ reply' = [data |-> data, hasMore |-> more, total |-> reply.total,
                            next |-> IF more THEN data[Len(data)] ELSE 0]
               /\ got' = got \cup Range(data)
      BY <1>6 DEF findPage
    <2>2. /\ phase = "find" /\ phase' = "idle" /\ pages' = pages + 1
          /\ UNCHANGED <<txs, now_, order, cursor, skip, opened>>
      BY <1>6 DEF findPage
    <2>3. PICK rows : rows = fetched(s)
      OBVIOUS
    <2>4. PICK data : data = IF Len(rows) > PageLimit THEN SubSeq(rows, 1, PageLimit) ELSE rows
      OBVIOUS
    <2>5. /\ reply'.data = data /\ reply'.hasMore = (Len(rows) > PageLimit) /\ reply'.total = reply.total
          /\ reply'.next = IF Len(rows) > PageLimit THEN Last(data) ELSE 0
          /\ got' = got \cup Range(data)
      BY <2>1, <2>3, <2>4 DEF Last
    <2>6. /\ data \in Seq(DOMAIN txs) /\ Len(data) <= PageLimit
          /\ Len(rows) > PageLimit => /\ data # << >> /\ Last(data) \in DOMAIN txs
                                       /\ \A t \in opened : before(t, Last(data)) => t \in got \cup Range(data)
          /\ ~(Len(rows) > PageLimit) => opened \subseteq got \cup Range(data)
      BY <2>2, <2>3, <2>4, PageFetched
    <2>8. \A c \in DOMAIN txs : c # 0
      BY PagesAssumption DEF PgInv
    <2>9. pages' \in Nat
      BY <2>2 DEF PgInv
    <2>10. /\ reply'.next = 0 => opened \subseteq got'
           /\ reply'.next # 0 => \A t \in opened : before(t, reply.next)' => t \in got'
           /\ reply'.hasMore => reply'.next = Last(reply'.data)
           /\ ~reply'.hasMore => reply'.next = 0
           /\ reply'.data = << >> => ~reply'.hasMore
           /\ reply'.next = 0 \/ reply'.next \in DOMAIN txs
      <3>1. CASE Len(rows) > PageLimit
        <4>1. reply'.hasMore /\ reply'.next = Last(data) /\ reply'.data = data
          BY <2>5, <3>1
        <4>2. /\ data # << >> /\ Last(data) \in DOMAIN txs
              /\ \A t \in opened : before(t, Last(data)) => t \in got'
          BY <2>5, <2>6, <3>1
        <4>3. \A t \in opened : before(t, reply.next)' => t \in got'
          BY <2>2, <4>1, <4>2 DEF before
        <4> QED
          BY <2>8, <4>1, <4>2, <4>3
      <3>2. CASE ~(Len(rows) > PageLimit)
        <4>1. ~reply'.hasMore /\ reply'.next = 0 /\ opened \subseteq got'
          BY <2>5, <2>6, <3>2
        <4> QED
          BY <4>1
      <3> QED
        BY <3>1, <3>2
    <2>11. reply'.total \in Nat /\ reply'.total <= Cardinality(DOMAIN txs')
      BY <2>2, <2>5 DEF PgInv
    <2>12. /\ DOMAIN txs \subseteq TxRows /\ IsFiniteSet(DOMAIN txs) /\ now_ \in Nat
           /\ \A t \in DOMAIN txs : txs[t] \in Nat
           /\ opened \subseteq DOMAIN txs /\ skip \in Nat /\ (cursor = 0 \/ cursor \in DOMAIN txs)
           /\ (skip # 0 => cursor # 0)
      BY DEF PgInv
    <2> QED
      BY <2>2, <2>5, <2>6, <2>9, <2>10, <2>11, <2>12 DEF PgInv
  <1>7. CASE UNCHANGED pageVars
    BY <1>7 DEF pageVars, PgInv, before, skipped
  <1> QED
    BY <1>1, <1>2, <1>3, <1>4, <1>5, <1>6, <1>7 DEF PageNext

LEMMA RowsAreGiven == PgInv => NoRowMissed
  <1> SUFFICES ASSUME PgInv, phase = "idle", pages > 0, NEW t \in opened,
                      reply.data = << >> \/ ~reply.hasMore \/ before(t, reply.data[Len(reply.data)])
               PROVE  t \in got
    BY DEF NoRowMissed
  <1> QED
    BY DEF PgInv, Last

-----------------------------------------------------------------------------
(* The recent webhook deliveries, page by page *)

\* What has been shown is in order, the cursor is the last of it, and what was
\* there at the opening and still is has been shown or is behind the cursor.
DlInv ==
    /\ made \in Seq(Delivery) /\ \A i, j \in DOMAIN made : made[i] = made[j] => i = j
    /\ msNow \in 0..MaxDeliveryTime
    /\ reading.limit \in {0} \cup PageLimits
    /\ reading.cursor = <<>> \/ \E c \in Delivery : reading.cursor = <<c>>
    /\ reading = [limit |-> reading.limit, cursor |-> reading.cursor]
    /\ pageTrail \in Seq(Delivery) /\ atOpening \subseteq Delivery
    /\ \A i, j \in DOMAIN pageTrail : i < j => newer(pageTrail[i], pageTrail[j])
    /\ reading.cursor # <<>> => /\ reading.limit # 0 /\ pageTrail # <<>>
                                /\ reading.cursor = <<Last(pageTrail)>>
    /\ reading.limit # 0 =>
          \A r \in atOpening \cap ToSet(made) :
              r \in ToSet(pageTrail) \/ (reading.cursor # <<>> /\ newer(reading.cursor[1], r))

LEMMA DlInvInit == DlInit => DlInv
  <1> SUFFICES ASSUME DlInit PROVE DlInv
    OBVIOUS
  <1>1. /\ made = <<>> /\ msNow = 0 /\ reading = [limit |-> 0, cursor |-> <<>>]
        /\ pageTrail = <<>> /\ atOpening = {}
    BY DEF DlInit
  <1>2. 0 \in 0..MaxDeliveryTime
    BY DlAssumption
  <1> QED
    BY <1>1, <1>2 DEF DlInv

LEMMA NewerTyped == \A r \in Delivery : r.at \in Nat /\ r.id \in Nat
  <1>1. \A x \in 0..MaxDeliveryTime : x \in Nat
    BY DlAssumption
  <1> QED
    BY <1>1, DlAssumption DEF Delivery

LEMMA NewerOrder ==
    /\ \A x \in Delivery : ~newer(x, x)
    /\ \A x, y, z \in Delivery : newer(x, y) /\ newer(y, z) => newer(x, z)
    /\ \A x, y \in Delivery : x = y \/ newer(x, y) \/ newer(y, x)
  <1>1. \A x \in Delivery : ~newer(x, x)
    BY NewerTyped DEF newer
  <1>2. \A x, y, z \in Delivery : newer(x, y) /\ newer(y, z) => newer(x, z)
    BY NewerTyped DEF newer
  <1>3. \A x, y \in Delivery : x = y \/ newer(x, y) \/ newer(y, x)
    <2> SUFFICES ASSUME NEW x \in Delivery, NEW y \in Delivery, ~newer(x, y), ~newer(y, x)
                 PROVE  x = y
      OBVIOUS
    <2>1. x.at = y.at /\ x.id = y.id
      BY NewerTyped DEF newer
    <2>2. x = [at |-> x.at, id |-> x.id] /\ y = [at |-> y.at, id |-> y.id]
      BY DEF Delivery
    <2> QED
      BY <2>1, <2>2
  <1> QED
    BY <1>1, <1>2, <1>3

\* The sorted list holds each delivery once, the newer ones before.
LEMMA SortedByNewer ==
    ASSUME made \in Seq(Delivery), NEW n, n = Cardinality(ToSet(made))
    PROVE  /\ n \in Nat /\ sorted \in Seq(ToSet(made)) /\ Len(sorted) = n
           /\ \A r \in ToSet(made) : \E i \in 1..n : sorted[i] = r
           /\ \A i, j \in 1..n : i < j <=> newer(sorted[i], sorted[j])
           /\ \A i, j \in 1..n : sorted[i] = sorted[j] => i = j
  <1> DEFINE S == ToSet(made)
             R == {w \in S \X S : newer(w[1], w[2])}
  <1>1. S \subseteq Delivery
    BY DEF ToSet
  <1>2. IsFiniteSet(S)
    <2>1. made \in Surjection(1..Len(made), S)
      <3>1. made \in [1..Len(made) -> S] /\ \A r \in S : \E i \in 1..Len(made) : made[i] = r
        BY DEF ToSet
      <3> QED
        BY <3>1 DEF Surjection
    <2>2. IsFiniteSet(1..Len(made))
      BY FS_Interval
    <2> QED
      BY ONLY <2>1, <2>2, FS_Surjection
  <1>3. sorted = [p \in 1..n |-> CHOOSE r \in S : Cardinality({q \in S : newer(q, r)}) = p - 1]
    BY DEF sorted
  <1>4. \A x, y \in S : <<x, y>> \in R <=> newer(x, y)
    OBVIOUS
  <1> HIDE DEF R, S
  <1>5. StrictOrder(R, S)
    BY <1>1, <1>4, NewerOrder DEF StrictOrder
  <1>6. \A x \in S : {q \in S : newer(q, x)} = Below(R, S, x)
    BY <1>4 DEF Below
  <1>7. n = Cardinality(S)
    BY DEF S
  <1>8. n \in Nat /\ \A p \in 1..n : \E x \in S : Rank(R, S, x) = p - 1
    BY <1>2, <1>5, <1>7, RankIsPlace
  <1>9. \A p \in 1..n : sorted[p] \in S /\ Rank(R, S, sorted[p]) = p - 1
    <2> SUFFICES ASSUME NEW p \in 1..n PROVE sorted[p] \in S /\ Rank(R, S, sorted[p]) = p - 1
      OBVIOUS
    <2>1. \E r \in S : Cardinality({q \in S : newer(q, r)}) = p - 1
      BY <1>6, <1>8 DEF Rank
    <2>2. sorted[p] = CHOOSE r \in S : Cardinality({q \in S : newer(q, r)}) = p - 1
      BY <1>3
    <2>3. sorted[p] \in S /\ Cardinality({q \in S : newer(q, sorted[p])}) = p - 1
      BY <2>1, <2>2
    <2> QED
      BY <1>6, <2>3 DEF Rank
  <1>a. /\ \A x \in S : \E i \in 1..n : sorted[i] = x
        /\ \A i, j \in 1..n : i < j <=> <<sorted[i], sorted[j]>> \in R
        /\ \A i, j \in 1..n : sorted[i] = sorted[j] => i = j
    <2>1. \A p \in 1..Cardinality(S) : sorted[p] \in S /\ Rank(R, S, sorted[p]) = p - 1
      BY <1>7, <1>9
    <2>2. /\ \A x \in S : \E i \in 1..Cardinality(S) : sorted[i] = x
          /\ \A i, j \in 1..Cardinality(S) : i < j <=> <<sorted[i], sorted[j]>> \in R
          /\ \A i, j \in 1..Cardinality(S) : sorted[i] = sorted[j] => i = j
      BY ONLY <1>2, <1>5, <2>1, RankedSequence
    <2> QED
      BY <1>7, <2>2
  <1>b. sorted \in Seq(S) /\ Len(sorted) = n
    <2> DEFINE g(p) == CHOOSE r \in S : Cardinality({q \in S : newer(q, r)}) = p - 1
    <2>1. sorted = [p \in 1..n |-> g(p)]
      BY <1>3
    <2> HIDE DEF g
    <2>2. sorted \in [1..n -> S]
      BY <1>9, <2>1
    <2> QED
      BY <1>8, <2>2
  <1>c. \A i, j \in 1..n : <<sorted[i], sorted[j]>> \in R <=> newer(sorted[i], sorted[j])
    BY <1>4, <1>9
  <1> QED
    BY <1>8, <1>a, <1>b, <1>c DEF S

\* A page: what follows the cursor, in order, and all of it up to the next one.
LEMMA PageShown ==
    ASSUME DlInv, NEW limit \in PageLimits, NEW after,
           after = <<>> \/ \E c \in Delivery : after = <<c>>, beginning(after) # 0,
           NEW page, page = listWebhookDeliveryPage(limit, after)
    PROVE  /\ page.deliveries \in Seq(ToSet(made))
           /\ \A i, j \in DOMAIN page.deliveries :
                 i < j => newer(page.deliveries[i], page.deliveries[j])
           /\ after # <<>> => \A i \in DOMAIN page.deliveries : newer(after[1], page.deliveries[i])
           /\ page.nextCursor = <<>> \/ (page.deliveries # <<>> /\ page.nextCursor = <<Last(page.deliveries)>>)
           /\ \A r \in ToSet(made) :
                 after = <<>> \/ newer(after[1], r) =>
                    \/ r \in ToSet(page.deliveries)
                    \/ page.nextCursor # <<>> /\ newer(page.nextCursor[1], r)
  <1>0. PICK n : n = Cardinality(ToSet(made))
    OBVIOUS
  <1>1. /\ n \in Nat /\ sorted \in Seq(ToSet(made)) /\ Len(sorted) = n
        /\ \A r \in ToSet(made) : \E i \in 1..n : sorted[i] = r
        /\ \A i, j \in 1..n : i < j <=> newer(sorted[i], sorted[j])
        /\ \A i, j \in 1..n : sorted[i] = sorted[j] => i = j
    BY <1>0, SortedByNewer DEF DlInv
  <1>d. DOMAIN sorted = 1..n /\ \A i \in 1..n : sorted[i] \in ToSet(made)
    BY <1>1
  <1>2. PICK a \in 0..n : /\ beginning(after) = a + 1
                          /\ after = <<>> => a = 0
                          /\ after # <<>> => a \in 1..n /\ sorted[a] = after[1]
    <2>1. CASE after = <<>>
      <3>1. beginning(after) = 0 + 1 /\ 0 \in 0..n
        BY <1>1, <2>1 DEF beginning
      <3> QED
        BY <2>1, <3>1
    <2>2. CASE after # <<>>
      <3>1. after[1] \in ToSet(made)
        BY <2>2 DEF beginning, expiredCursor
      <3>2. \E i \in DOMAIN sorted : sorted[i] = after[1]
        BY <1>1, <1>d, <3>1
      <3>3. PICK i : i = CHOOSE j \in DOMAIN sorted : sorted[j] = after[1]
        OBVIOUS
      <3>4. i \in 1..n /\ sorted[i] = after[1]
        BY <1>d, <3>2, <3>3
      <3>5. beginning(after) = i + 1
        BY <2>2, <3>1, <3>3 DEF beginning, startIndex
      <3> QED
        BY <2>2, <3>4, <3>5
    <2> QED
      BY <2>1, <2>2
  <1>l. limit \in Nat /\ limit > 0
    BY DlAssumption
  <1> DEFINE m == IF a + 1 + limit <= n THEN a + 1 + limit ELSE n
             items == SubSeq(sorted, a + 1, m)
             data == page.deliveries
  <1>3. /\ data = IF Len(items) > limit THEN SubSeq(items, 1, limit) ELSE items
        /\ page.nextCursor = IF Len(items) > limit THEN <<items[limit]>> ELSE <<>>
    BY <1>1, <1>2 DEF listWebhookDeliveryPage, encodeDeliveryCursor
  <1>4. m \in Nat /\ m <= Len(sorted) /\ a \in Nat /\ a <= n
    BY <1>1, <1>2, <1>l
  <1>5. /\ items \in Seq(ToSet(made)) /\ Len(items) = IF a < m THEN m - a ELSE 0
        /\ DOMAIN items = 1..Len(items) /\ \A i \in 1..(m - a) : items[i] = sorted[a + i]
    <2> HIDE DEF m
    <2> QED
      BY ONLY <1>1, <1>4, CutOut
  <1> HIDE DEF items, data
  <1>6. \* What is in the page, and what is not.
        /\ data \in Seq(ToSet(made)) /\ DOMAIN data = 1..Len(data) /\ a + Len(data) <= n
        /\ \A i \in 1..Len(data) : data[i] = sorted[a + i]
        /\ page.nextCursor = <<>> => a + Len(data) = n
        /\ page.nextCursor # <<>> => Len(data) > 0 /\ page.nextCursor = <<sorted[a + Len(data)]>>
    <2>1. CASE Len(items) > limit
      <3>1. m = a + 1 + limit /\ Len(items) = limit + 1 /\ m - a = limit + 1 /\ a + limit < n
        BY <1>1, <1>4, <1>5, <1>l, <2>1
      <3>2. data = SubSeq(items, 0 + 1, limit)
        <4>1. data = SubSeq(items, 1, limit)
          BY <1>3, <2>1
        <4>2. 0 + 1 = 1
          OBVIOUS
        <4> QED
          BY ONLY <4>1, <4>2
      <3>3. /\ SubSeq(items, 0 + 1, limit) \in Seq(ToSet(made))
            /\ Len(SubSeq(items, 0 + 1, limit)) = IF 0 < limit THEN limit - 0 ELSE 0
            /\ DOMAIN SubSeq(items, 0 + 1, limit) = 1..Len(SubSeq(items, 0 + 1, limit))
            /\ \A i \in 1..(limit - 0) : SubSeq(items, 0 + 1, limit)[i] = items[0 + i]
        <4>1. 0 \in Nat /\ limit \in Nat /\ limit <= Len(items) /\ items \in Seq(ToSet(made))
          BY <1>5, <1>l, <3>1
        <4> QED
          BY ONLY <4>1, CutOut
      <3>4. data \in Seq(ToSet(made)) /\ Len(data) = limit /\ DOMAIN data = 1..limit
            /\ \A i \in 1..limit : data[i] = items[i]
        BY <1>l, <3>2, <3>3
      <3>5. \A i \in 1..limit : items[i] = sorted[a + i]
        <4>1. \A i \in 1..limit : i \in 1..(m - a)
          BY <1>l, <3>1
        <4> QED
          BY <1>5, <4>1
      <3>6. page.nextCursor = <<sorted[a + limit]>> /\ page.nextCursor # <<>>
        <4>1. limit \in 1..limit
          BY <1>l
        <4> QED
          BY <1>3, <2>1, <3>5, <4>1
      <3> QED
        BY <1>1, <1>4, <1>l, <3>1, <3>4, <3>5, <3>6
    <2>2. CASE ~(Len(items) > limit)
      <3>1. data = items /\ page.nextCursor = <<>>
        BY <1>3, <2>2
      <3>2. m = n
        BY <1>1, <1>4, <1>5, <1>l, <2>2
      <3>3. Len(items) = n - a
        BY <1>1, <1>4, <1>5, <3>2
      <3> QED
        BY <1>1, <1>4, <1>5, <3>1, <3>2, <3>3
    <2> QED
      BY <2>1, <2>2
  <1> HIDE DEF m
  <1>7. \A i \in 1..Len(data) : a + i \in 1..n
    BY <1>1, <1>4, <1>6
  <1>8. \A i, j \in DOMAIN data : i < j => newer(data[i], data[j])
    <2> SUFFICES ASSUME NEW i \in 1..Len(data), NEW j \in 1..Len(data), i < j
                 PROVE  newer(data[i], data[j])
      BY <1>6
    <2>1. a + i \in 1..n /\ a + j \in 1..n /\ a + i < a + j
      BY <1>4, <1>7
    <2> QED
      BY <1>1, <1>6, <2>1
  <1>9. after # <<>> => \A i \in DOMAIN data : newer(after[1], data[i])
    <2> SUFFICES ASSUME after # <<>>, NEW i \in 1..Len(data) PROVE newer(after[1], data[i])
      BY <1>6
    <2>1. a \in 1..n /\ a + i \in 1..n /\ a < a + i /\ sorted[a] = after[1]
      BY <1>2, <1>4, <1>7
    <2> QED
      BY <1>1, <1>6, <2>1
  <1>10. page.nextCursor # <<>> => data # <<>> /\ page.nextCursor = <<Last(data)>>
    <2> SUFFICES ASSUME page.nextCursor # <<>> PROVE data # <<>> /\ page.nextCursor = <<Last(data)>>
      OBVIOUS
    <2>1. Len(data) \in 1..Len(data) /\ Len(<<>>) = 0
      BY <1>6
    <2>2. Last(data) = sorted[a + Len(data)]
      BY <1>6, <2>1 DEF Last
    <2> QED
      BY <1>6, <2>1, <2>2
  <1>11. ASSUME NEW r \in ToSet(made), after = <<>> \/ newer(after[1], r)
         PROVE  r \in ToSet(data) \/ (page.nextCursor # <<>> /\ newer(page.nextCursor[1], r))
    <2>1. PICK k \in 1..n : sorted[k] = r
      BY <1>1
    <2>2. a < k
      BY <1>1, <1>2, <1>11, <2>1
    <2>3. CASE k <= a + Len(data)
      <3>1. PICK j \in 1..Len(data) : k = a + j
        <4>1. k - a \in 1..Len(data) /\ k = a + (k - a)
          BY <1>1, <1>4, <1>6, <2>2, <2>3
        <4> QED
          BY <4>1
      <3>2. data[j] = r /\ j \in DOMAIN data
        BY <1>6, <2>1, <3>1
      <3> QED
        BY <3>2 DEF ToSet
    <2>4. CASE ~(k <= a + Len(data))
      <3>1. page.nextCursor # <<>>
        BY <1>1, <1>6, <2>4
      <3>2. a + Len(data) \in 1..n /\ a + Len(data) < k
        <4>1. Len(data) \in Nat /\ Len(data) > 0
          BY <1>6, <3>1
        <4> QED
          BY <1>1, <1>4, <1>6, <2>4, <4>1
      <3>3. newer(sorted[a + Len(data)], r)
        BY <1>1, <2>1, <3>2
      <3> QED
        BY <1>6, <3>1, <3>3
    <2> QED
      BY <2>3, <2>4
  <1> QED
    BY <1>6, <1>8, <1>9, <1>10, <1>11 DEF data

\* Deliveries come to the front, and some of the oldest are let go of.
LEMMA DeliveriesChange ==
    ASSUME DlInv, UNCHANGED <<msNow, reading, pageTrail, atOpening>>,
           made' \in Seq(Delivery), \A i, j \in DOMAIN made' : made'[i] = made'[j] => i = j,
           (atOpening \cap ToSet(made')) \subseteq ToSet(made)
    PROVE  DlInv'
  BY DEF DlInv

LEMMA DeliveryFresh ==
    ASSUME DlInv, NEW id \in DeliveryIds, freshDelivery(id)
    PROVE  /\ unshift(id) \in Seq(Delivery) /\ Len(unshift(id)) = Len(made) + 1
           /\ \A i, j \in DOMAIN unshift(id) : unshift(id)[i] = unshift(id)[j] => i = j
           /\ (atOpening \cap ToSet(unshift(id))) \subseteq ToSet(made)
  <1> DEFINE r == [at |-> msNow, id |-> id]
             all == unshift(id)
  <1>1. r \in Delivery /\ r \notin ToSet(made) /\ r \notin atOpening
    <2>1. r \in Delivery
      BY DEF Delivery, DlInv
    <2>2. r.id = id
      OBVIOUS
    <2> QED
      BY <2>1, <2>2 DEF freshDelivery
  <1>2. all = <<r>> \o made
    BY DEF unshift
  <1> HIDE DEF r, all
  <1>3. made \in Seq(Delivery)
    BY DEF DlInv
  <1>4. /\ all \in Seq(Delivery) /\ Len(all) = Len(made) + 1 /\ all[1] = r
        /\ \A i \in 1..Len(made) : all[i + 1] = made[i]
    <2>1. <<r>> \in Seq(Delivery) /\ Len(<<r>>) = 1 /\ <<r>>[1] = r
      BY <1>1
    <2>2. /\ <<r>> \o made \in Seq(Delivery) /\ Len(<<r>> \o made) = Len(<<r>>) + Len(made)
          /\ \A i \in 1..(Len(<<r>>) + Len(made)) :
                (<<r>> \o made)[i] = IF i <= Len(<<r>>) THEN <<r>>[i] ELSE made[i - Len(<<r>>)]
      BY ONLY <1>3, <2>1, ConcatProperties
    <2>3. Len(made) \in Nat
      BY <1>3
    <2>4. Len(all) = Len(made) + 1 /\ all[1] = r
      BY <1>2, <2>1, <2>2, <2>3
    <2>5. \A i \in 1..Len(made) : all[i + 1] = made[i]
      <3> SUFFICES ASSUME NEW i \in 1..Len(made) PROVE all[i + 1] = made[i]
        OBVIOUS
      <3>1. i + 1 \in 1..(1 + Len(made)) /\ ~(i + 1 <= 1) /\ (i + 1) - 1 = i
        BY <2>3
      <3> QED
        BY <1>2, <2>1, <2>2, <3>1
    <2> QED
      BY <1>2, <2>2, <2>4, <2>5
  <1>5. \A i \in DOMAIN all : i = 1 \/ (i - 1 \in 1..Len(made) /\ all[i] = made[i - 1])
    <2> SUFFICES ASSUME NEW i \in 1..(Len(made) + 1), i # 1
                 PROVE  i - 1 \in 1..Len(made) /\ all[i] = made[i - 1]
      BY <1>4
    <2>1. i - 1 \in 1..Len(made) /\ (i - 1) + 1 = i
      BY <1>3
    <2> QED
      BY <1>4, <2>1
  <1>6. \A i \in 1..Len(made) : made[i] \in ToSet(made) /\ i \in DOMAIN made
    BY <1>3 DEF ToSet
  <1>7. \A i, j \in DOMAIN all : all[i] = all[j] => i = j
    <2> SUFFICES ASSUME NEW i \in DOMAIN all, NEW j \in DOMAIN all, all[i] = all[j] PROVE i = j
      OBVIOUS
    <2>1. i \in Nat /\ j \in Nat
      BY <1>4
    <2>2. CASE i # 1 /\ j # 1
      <3>1. i - 1 = j - 1
        BY <1>5, <1>6, <2>2 DEF DlInv
      <3> QED
        BY <2>1, <3>1
    <2> QED
      BY <1>1, <1>4, <1>5, <1>6, <2>2
  <1>8. (atOpening \cap ToSet(all)) \subseteq ToSet(made)
    BY <1>1, <1>4, <1>5, <1>6 DEF ToSet
  <1> QED
    BY <1>4, <1>7, <1>8 DEF all

\* A page is shown, at the opening of the list or after the cursor.
LEMMA PageFollows ==
    ASSUME DlInv, NEW limit \in PageLimits, NEW after, getDeliveries(limit, after),
           (after = <<>> /\ reading.cursor = <<>>) \/
              (after # <<>> /\ after = reading.cursor /\ limit = reading.limit)
    PROVE  DlInv'
  <1> DEFINE opens == after = <<>>
             before_ == IF opens THEN <<>> ELSE pageTrail
  <1>0. UNCHANGED <<made, msNow>>
    BY DEF getDeliveries
  <1>1. CASE beginning(after) = 0
    <2>1. reading' = [limit |-> 0, cursor |-> <<>>] /\ pageTrail' = <<>> /\ atOpening' = {}
      BY <1>1 DEF getDeliveries
    <2>2. reading'.limit = 0 /\ reading'.cursor = <<>>
      BY <2>1
    <2> QED
      BY <1>0, <2>1, <2>2 DEF DlInv
  <1>2. CASE beginning(after) # 0
    <2>1. PICK page : page = listWebhookDeliveryPage(limit, after)
      OBVIOUS
    <2> DEFINE data == page.deliveries
    <2>2. /\ reading' = [limit |-> limit, cursor |-> page.nextCursor]
          /\ pageTrail' = before_ \o data
          /\ atOpening' = IF opens THEN ToSet(made) ELSE atOpening
      BY <1>2, <2>1 DEF getDeliveries
    <2>3. after = <<>> \/ \E c \in Delivery : after = <<c>>
      BY DEF DlInv
    <2>4. /\ data \in Seq(ToSet(made))
          /\ \A i, j \in DOMAIN data : i < j => newer(data[i], data[j])
          /\ after # <<>> => \A i \in DOMAIN data : newer(after[1], data[i])
          /\ page.nextCursor = <<>> \/ (data # <<>> /\ page.nextCursor = <<Last(data)>>)
          /\ \A r \in ToSet(made) :
                 after = <<>> \/ newer(after[1], r) =>
                    \/ r \in ToSet(data)
                    \/ page.nextCursor # <<>> /\ newer(page.nextCursor[1], r)
      BY <1>2, <2>1, <2>3, PageShown
    <2>5. ToSet(made) \subseteq Delivery
      BY DEF ToSet, DlInv
    <2>6. data \in Seq(Delivery) /\ \A i \in DOMAIN data : data[i] \in Delivery
      <3>1. \A i \in DOMAIN data : data[i] \in Delivery
        BY <2>4, <2>5
      <3>2. \A s \in Seq(ToSet(made)) : (\A i \in DOMAIN s : s[i] \in Delivery) => s \in Seq(Delivery)
        OBVIOUS
      <3> QED
        BY <2>4, <3>1, <3>2
    <2>7. /\ before_ \in Seq(Delivery)
          /\ \A i, j \in DOMAIN before_ : i < j => newer(before_[i], before_[j])
          /\ \A i \in DOMAIN before_, j \in DOMAIN data : newer(before_[i], data[j])
      <3>1. CASE opens
        BY <3>1
      <3>2. CASE ~opens
        <4>1. /\ before_ = pageTrail /\ pageTrail \in Seq(Delivery) /\ pageTrail # <<>>
              /\ after = <<Last(pageTrail)>>
              /\ \A i, j \in DOMAIN pageTrail : i < j => newer(pageTrail[i], pageTrail[j])
          BY <3>2 DEF DlInv
        <4>2. Len(pageTrail) \in DOMAIN pageTrail /\ Last(pageTrail) = pageTrail[Len(pageTrail)]
          BY <4>1 DEF Last
        <4>3. after[1] = Last(pageTrail) /\ after # <<>>
          BY <4>1
        <4>4. \A i \in DOMAIN pageTrail : i = Len(pageTrail) \/ i < Len(pageTrail)
          BY <4>1
        <4>5. \A i \in DOMAIN pageTrail : pageTrail[i] \in Delivery
          BY <4>1
        <4> HIDE DEF data, before_, opens
        <4>6. \A i \in DOMAIN pageTrail, j \in DOMAIN data : newer(pageTrail[i], data[j])
          <5> SUFFICES ASSUME NEW i \in DOMAIN pageTrail, NEW j \in DOMAIN data
                       PROVE  newer(pageTrail[i], data[j])
            OBVIOUS
          <5>1. newer(Last(pageTrail), data[j])
            BY <2>4, <4>3
          <5>2. pageTrail[i] = Last(pageTrail) \/ newer(pageTrail[i], Last(pageTrail))
            BY <4>1, <4>2, <4>4
          <5> QED
            BY <2>6, <4>2, <4>5, <5>1, <5>2, NewerOrder
        <4> QED
          BY <4>1, <4>6
      <3> QED
        BY <3>1, <3>2
    <2> HIDE DEF data, before_
    <2> DEFINE b == Len(before_)
               d == Len(data)
    <2>8. /\ pageTrail' \in Seq(Delivery) /\ Len(pageTrail') = b + d /\ b \in Nat /\ d \in Nat
          /\ \A i \in 1..(b + d) : pageTrail'[i] = IF i <= b THEN before_[i] ELSE data[i - b]
      <3>1. /\ before_ \o data \in Seq(Delivery) /\ Len(before_ \o data) = b + d
            /\ \A i \in 1..(b + d) : (before_ \o data)[i] = IF i <= b THEN before_[i] ELSE data[i - b]
        BY ONLY <2>6, <2>7, ConcatProperties
      <3>2. b \in Nat /\ d \in Nat
        BY <2>6, <2>7
      <3> QED
        BY <2>2, <3>1, <3>2
    <2>9. DOMAIN before_ = 1..b /\ DOMAIN data = 1..d /\ DOMAIN pageTrail' = 1..(b + d)
      BY <2>6, <2>7, <2>8
    <2> HIDE DEF b, d
    <2>10. \A i \in 1..b : i \in 1..(b + d) /\ pageTrail'[i] = before_[i]
      BY <2>8
    <2>11. \A i \in 1..d : b + i \in 1..(b + d) /\ pageTrail'[b + i] = data[i]
      <3> SUFFICES ASSUME NEW i \in 1..d PROVE b + i \in 1..(b + d) /\ pageTrail'[b + i] = data[i]
        OBVIOUS
      <3>1. b + i \in 1..(b + d) /\ ~(b + i <= b) /\ (b + i) - b = i
        BY <2>8
      <3> QED
        BY <2>8, <3>1
    <2>12. \A i \in 1..(b + d) : i \in 1..b \/ \E k \in 1..d : i = b + k
      <3> SUFFICES ASSUME NEW i \in 1..(b + d), i \notin 1..b PROVE \E k \in 1..d : i = b + k
        OBVIOUS
      <3>1. i - b \in 1..d /\ i = b + (i - b)
        BY <2>8
      <3> QED
        BY <3>1
    <2>13. \A i, j \in DOMAIN pageTrail' : i < j => newer(pageTrail'[i], pageTrail'[j])
      <3> SUFFICES ASSUME NEW i \in 1..(b + d), NEW j \in 1..(b + d), i < j
                   PROVE  newer(pageTrail'[i], pageTrail'[j])
        BY <2>9
      <3>1. CASE i \in 1..b /\ j \in 1..b
        BY <2>7, <2>9, <2>10, <3>1
      <3>2. ASSUME i \in 1..b, NEW k \in 1..d, j = b + k PROVE newer(pageTrail'[i], pageTrail'[j])
        BY <2>7, <2>9, <2>10, <2>11, <3>2
      <3>3. ASSUME NEW k \in 1..d, i = b + k, NEW l \in 1..d, j = b + l
            PROVE  newer(pageTrail'[i], pageTrail'[j])
        <4>1. k < l
          BY <2>8, <3>3
        <4> QED
          BY <2>4, <2>9, <2>11, <3>3, <4>1
      <3>4. ASSUME NEW k \in 1..d, i = b + k, j \in 1..b PROVE FALSE
        BY <2>8, <3>4
      <3> QED
        BY <2>12, <3>1, <3>2, <3>3, <3>4
    <2>14. ToSet(before_) \cup ToSet(data) \subseteq ToSet(pageTrail')
      BY <2>9, <2>10, <2>11 DEF ToSet
    <2>15. data # <<>> => pageTrail' # <<>> /\ Last(pageTrail') = Last(data)
      <3> SUFFICES ASSUME data # <<>> PROVE pageTrail' # <<>> /\ Last(pageTrail') = Last(data)
        OBVIOUS
      <3>1. d > 0
        BY <2>6 DEF d
      <3>2. d \in 1..d
        BY <2>8, <3>1
      <3>3. Last(pageTrail') = pageTrail'[b + d] /\ Last(data) = data[d]
        BY <2>8 DEF Last, d
      <3>4. Len(<<>>) = 0 /\ b + d # 0
        BY <2>8, <3>1
      <3> QED
        BY <2>8, <2>11, <3>2, <3>3, <3>4
    <2>16. reading'.limit = limit /\ reading'.cursor = page.nextCursor
           /\ reading' = [limit |-> reading'.limit, cursor |-> reading'.cursor]
      BY <2>2
    <2>17. /\ limit # 0 /\ limit \in {0} \cup PageLimits
           /\ (page.nextCursor # <<>> => /\ pageTrail' # <<>> /\ page.nextCursor = <<Last(pageTrail')>>
                                          /\ Last(pageTrail') \in Delivery)
      <3>1. data # <<>> => Last(data) \in Delivery
        <4>1. data # <<>> => Len(data) \in DOMAIN data
          BY <2>6
        <4> QED
          BY <2>6, <4>1 DEF Last
      <3> QED
        BY <2>4, <2>15, <3>1, DlAssumption DEF data
    <2>18. \A r \in atOpening' \cap ToSet(made) :
              r \in ToSet(pageTrail') \/ (page.nextCursor # <<>> /\ newer(page.nextCursor[1], r))
      <3> SUFFICES ASSUME NEW r \in atOpening', r \in ToSet(made)
                   PROVE  r \in ToSet(pageTrail') \/ (page.nextCursor # <<>> /\ newer(page.nextCursor[1], r))
        OBVIOUS
      <3>1. CASE opens
        BY <2>4, <2>14, <3>1 DEF data
      <3>2. CASE ~opens
        <4>1. r \in ToSet(pageTrail) \/ newer(after[1], r)
          BY <2>2, <3>2, DlAssumption DEF DlInv
        <4>2. before_ = pageTrail
          BY <3>2 DEF before_
        <4> QED
          BY <2>4, <2>14, <4>1, <4>2 DEF data
      <3> QED
        BY <3>1, <3>2
    <2>19. atOpening' \subseteq Delivery
      BY <2>2, <2>5 DEF DlInv
    <2> QED
      BY <1>0, <2>8, <2>13, <2>16, <2>17, <2>18, <2>19 DEF DlInv
  <1> QED
    BY <1>1, <1>2

LEMMA DlInvStep == DlInv /\ [DlNext]_dlVars => DlInv'
  <1> SUFFICES ASSUME DlInv, [DlNext]_dlVars PROVE DlInv'
    OBVIOUS
  <1>1. ASSUME NEW id \in DeliveryIds, emitted(id) PROVE DlInv'
    <2> DEFINE all == unshift(id)
               m == IF Len(all) < deliveryRetention THEN Len(all) ELSE deliveryRetention
    <2>1. /\ freshDelivery(id) /\ made' = SubSeq(all, 1, m)
          /\ UNCHANGED <<msNow, reading, pageTrail, atOpening>>
      BY <1>1 DEF emitted
    <2>2. /\ all \in Seq(Delivery)
          /\ \A i, j \in DOMAIN all : all[i] = all[j] => i = j
          /\ (atOpening \cap ToSet(all)) \subseteq ToSet(made)
      BY <2>1, DeliveryFresh
    <2> HIDE DEF all
    <2>3. 0 \in Nat /\ m \in Nat /\ m <= Len(all) /\ 0 + 1 = 1
      BY <2>2, DlAssumption
    <2> HIDE DEF m
    <2>4. /\ SubSeq(all, 0 + 1, m) \in Seq(Delivery)
          /\ Len(SubSeq(all, 0 + 1, m)) = IF 0 < m THEN m - 0 ELSE 0
          /\ DOMAIN SubSeq(all, 0 + 1, m) = 1..Len(SubSeq(all, 0 + 1, m))
          /\ \A i \in 1..(m - 0) : SubSeq(all, 0 + 1, m)[i] = all[0 + i]
      BY ONLY <2>2, <2>3, CutOut
    <2>5. /\ made' \in Seq(Delivery) /\ DOMAIN made' = 1..m
          /\ \A i \in 1..m : made'[i] = all[i] /\ i \in DOMAIN all
      <3>1. made' = SubSeq(all, 0 + 1, m)
        BY ONLY <2>1, <2>3
      <3>2. made' \in Seq(Delivery) /\ DOMAIN made' = 1..m
        BY <2>3, <2>4, <3>1
      <3>3. \A i \in 1..m : made'[i] = all[i]
        <4>1. \A i \in 1..m : i \in 1..(m - 0) /\ 0 + i = i
          BY <2>3
        <4> QED
          BY <2>4, <3>1, <4>1
      <3>4. \A i \in 1..m : i \in DOMAIN all
        BY <2>2, <2>3
      <3> QED
        BY <3>2, <3>3, <3>4
    <2>6. \A i, j \in DOMAIN made' : made'[i] = made'[j] => i = j
      BY <2>2, <2>5
    <2>7. (atOpening \cap ToSet(made')) \subseteq ToSet(made)
      <3>1. ToSet(made') \subseteq ToSet(all)
        BY <2>5 DEF ToSet
      <3> QED
        BY <2>2, <3>1
    <2> QED
      BY <2>1, <2>5, <2>6, <2>7, DeliveriesChange
  <1>2. ASSUME NEW id \in DeliveryIds, retried(id) PROVE DlInv'
    <2>1. /\ freshDelivery(id) /\ made' = unshift(id)
          /\ UNCHANGED <<msNow, reading, pageTrail, atOpening>>
      BY <1>2 DEF retried
    <2> QED
      BY <2>1, DeliveryFresh, DeliveriesChange
  <1>3. CASE msTick
    <2>1. msNow' \in 0..MaxDeliveryTime /\ UNCHANGED <<made, reading, pageTrail, atOpening>>
      BY <1>3, DlAssumption DEF msTick, DlInv
    <2> QED
      BY <2>1 DEF DlInv
  <1>4. ASSUME NEW limit \in PageLimits, openDeliveries(limit) PROVE DlInv'
    BY <1>4, PageFollows DEF openDeliveries
  <1>5. CASE nextDeliveries
    <2>1. reading.cursor # <<>> /\ getDeliveries(reading.limit, reading.cursor)
      BY <1>5 DEF nextDeliveries
    <2>2. reading.limit \in PageLimits
      BY <2>1 DEF DlInv
    <2> QED
      BY <2>1, <2>2, PageFollows
  <1>6. CASE UNCHANGED dlVars
    BY <1>6 DEF dlVars, DlInv
  <1> QED
    BY <1>1, <1>2, <1>3, <1>4, <1>5, <1>6 DEF DlNext

LEMMA DeliveriesShown == DlInv => ShownOnce /\ NoneSkipped
  <1> SUFFICES ASSUME DlInv PROVE ShownOnce /\ NoneSkipped
    OBVIOUS
  <1>1. ShownOnce
    <2> SUFFICES ASSUME NEW i \in DOMAIN pageTrail, NEW j \in DOMAIN pageTrail,
                        pageTrail[i] = pageTrail[j], i # j
                 PROVE  FALSE
      BY DEF ShownOnce
    <2>1. i \in Nat /\ j \in Nat /\ pageTrail[i] \in Delivery
      BY DEF DlInv
    <2>2. i < j \/ j < i
      BY <2>1
    <2>3. newer(pageTrail[i], pageTrail[i])
      BY <2>2 DEF DlInv
    <2> QED
      BY <2>1, <2>3, NewerOrder
  <1>2. NoneSkipped
    BY DEF DlInv, NoneSkipped
  <1> QED
    BY <1>1, <1>2

-----------------------------------------------------------------------------
(* The lists in memory, page by page *)

Kinds == {"transactions", "holdings", "history"}

QueryOK(q) ==
    /\ q = [kind |-> q.kind, type |-> q.type, sortBy |-> q.sortBy, desc |-> q.desc,
            limit |-> q.limit, range |-> q.range, from |-> q.from, to |-> q.to]
    /\ q.kind \in Kinds /\ q.desc \in BOOLEAN /\ q.sortBy \in {"timestamp", "type"}
    /\ q.limit \in Nat /\ q.limit > 0

\* What a query lists, and in which order.
RowsOf(q) ==
    CASE q.kind = "transactions" -> filterTransactions(Rows, q.type, q.range)
      [] q.kind = "holdings" -> filterPortfolioHoldings(Rows, q.type)
      [] q.kind = "history" -> filterVaultHistory(Rows, q.range)

ItemsOf(q) == sortItems(RowsOf(q), q.sortBy, q.desc)

LEMMA AnswerIsPage ==
    ASSUME NEW q, q.kind \in Kinds
    PROVE  /\ \A cursor_ : Answer(q, cursor_, 0) = paginateWithCursor(ItemsOf(q), q.limit, cursor_)
           /\ \A page \in Nat : page > 0 /\ q.kind = "transactions" =>
                 Answer(q, 0, page) = paginateWithOffset(ItemsOf(q), q.limit, page)
  <1>1. CASE q.kind = "transactions"
    BY <1>1 DEF Answer, ItemsOf, RowsOf, buildTransactionsResponse
  <1>2. CASE q.kind = "holdings"
    BY <1>2 DEF Answer, ItemsOf, RowsOf, buildPortfolioHoldingsResponse
  <1>3. CASE q.kind = "history"
    BY <1>3 DEF Answer, ItemsOf, RowsOf, buildVaultHistoryResponse
  <1> QED
    BY <1>1, <1>2, <1>3 DEF Kinds

LEMMA RowsTyped ==
    ASSUME size \in Nat
    PROVE  /\ IsFiniteSet(Rows)
           /\ \A r \in Rows : /\ r.id \in 1..size /\ r.id \in Nat /\ r.time \in Int
                              /\ r.type \in {"deposit", "withdrawal"}
           /\ \A r, s \in Rows : r.id = s.id => r = s
  <1> DEFINE row(i) == [id |-> i, time |-> size - i,
                        type |-> IF i % 2 = 1 THEN "deposit" ELSE "withdrawal"]
             f == [i \in 1..size |-> row(i)]
  <1>1. Rows = {row(i) : i \in 1..size}
    BY DEF Rows
  <1>2. \A i \in 1..size : /\ row(i).id = i /\ i \in Nat /\ row(i).time \in Int
                           /\ row(i).type \in {"deposit", "withdrawal"}
    OBVIOUS
  <1> HIDE DEF row
  <1>3. f \in Surjection(1..size, Rows)
    BY <1>1 DEF Surjection
  <1>4. IsFiniteSet(1..size)
    BY FS_Interval
  <1>5. IsFiniteSet(Rows)
    BY ONLY <1>3, <1>4, FS_Surjection
  <1> QED
    BY <1>1, <1>2, <1>5

\* The rows of one time or type keep their places: a strict order.
LEMMA PrecedesOrders ==
    ASSUME size \in Nat, NEW sortBy \in {"timestamp", "type"}, NEW desc \in BOOLEAN
    PROVE  /\ \A x \in Rows : ~precedes(x, x, sortBy, desc)
           /\ \A x, y, z \in Rows : precedes(x, y, sortBy, desc) /\ precedes(y, z, sortBy, desc)
                                        => precedes(x, z, sortBy, desc)
           /\ \A x, y \in Rows : x = y \/ precedes(x, y, sortBy, desc) \/ precedes(y, x, sortBy, desc)
  <1> DEFINE c(x, y) == compare(x, y, sortBy)
  <1>1. \A x, y \in Rows : c(x, y) \in Int /\ c(y, x) = -c(x, y)
    <2>1. CASE sortBy = "timestamp"
      BY <2>1, RowsTyped DEF compare
    <2>2. CASE sortBy = "type"
      BY <2>2, RowsTyped DEF compare
    <2> QED
      BY <2>1, <2>2
  <1>2. \A x, y, z \in Rows : c(x, y) <= 0 /\ c(y, z) <= 0 =>
           c(x, z) <= 0 /\ (c(x, z) = 0 => c(x, y) = 0 /\ c(y, z) = 0)
    <2>1. CASE sortBy = "timestamp"
      <3>1. \A a, b, d \in Int : a - b <= 0 /\ b - d <= 0 => a - d <= 0 /\ (a - d = 0 => a - b = 0 /\ b - d = 0)
        OBVIOUS
      <3>2. \A x, y \in Rows : c(x, y) = x.time - y.time
        BY <2>1 DEF compare
      <3>3. \A x \in Rows : x.time \in Int
        BY RowsTyped
      <3> HIDE DEF c
      <3> QED
        BY <3>1, <3>2, <3>3
    <2>2. CASE sortBy = "type"
      BY <2>2, RowsTyped DEF compare
    <2> QED
      BY <2>1, <2>2
  <1>3. \A x, y \in Rows : precedes(x, y, sortBy, desc) <=>
           \/ c(x, y) = 0 /\ x.id < y.id
           \/ c(x, y) < 0 /\ ~desc
           \/ c(x, y) > 0 /\ desc
    <2> SUFFICES ASSUME NEW x \in Rows, NEW y \in Rows
                 PROVE  precedes(x, y, sortBy, desc) <=>
                           \/ c(x, y) = 0 /\ x.id < y.id
                           \/ c(x, y) < 0 /\ ~desc
                           \/ c(x, y) > 0 /\ desc
      OBVIOUS
    <2>1. c(x, y) \in Int
      BY <1>1
    <2>2. precedes(x, y, sortBy, desc) <=>
             IF c(x, y) = 0 THEN x.id < y.id ELSE IF desc THEN c(x, y) > 0 ELSE c(x, y) < 0
      BY DEF precedes
    <2> HIDE DEF c
    <2> QED
      BY <2>1, <2>2
  <1>4. \A x, y \in Rows : /\ x.id \in Nat /\ y.id \in Nat /\ (x.id = y.id => x = y)
    BY RowsTyped
  <1> DEFINE p(x, y) == precedes(x, y, sortBy, desc)
  <1> HIDE DEF c, p
  <1>5. \A x \in Rows : ~p(x, x)
    <2> SUFFICES ASSUME NEW x \in Rows PROVE ~p(x, x)
      OBVIOUS
    <2>1. c(x, x) = 0
      BY <1>1
    <2> QED
      BY <1>3, <1>4, <2>1 DEF p
  <1>6. \A x, y \in Rows : x = y \/ p(x, y) \/ p(y, x)
    <2> SUFFICES ASSUME NEW x \in Rows, NEW y \in Rows, x # y PROVE p(x, y) \/ p(y, x)
      OBVIOUS
    <2>1. /\ c(x, y) \in Int /\ c(y, x) = -c(x, y)
          /\ (x.id < y.id \/ y.id < x.id)
      BY <1>1, <1>4
    <2>2. (c(x, y) = 0 /\ c(y, x) = 0) \/ (c(x, y) < 0 /\ c(y, x) > 0) \/ (c(x, y) > 0 /\ c(y, x) < 0)
      BY <2>1
    <2> QED
      BY <1>3, <2>1, <2>2 DEF p
  <1>7. \A x, y, z \in Rows : p(x, y) /\ p(y, z) => p(x, z)
    <2> SUFFICES ASSUME NEW x \in Rows, NEW y \in Rows, NEW z \in Rows, p(x, y), p(y, z)
                 PROVE  p(x, z)
      OBVIOUS
    <2>1. /\ p(x, y) <=> (c(x, y) = 0 /\ x.id < y.id) \/ (c(x, y) < 0 /\ ~desc) \/ (c(x, y) > 0 /\ desc)
          /\ p(y, z) <=> (c(y, z) = 0 /\ y.id < z.id) \/ (c(y, z) < 0 /\ ~desc) \/ (c(y, z) > 0 /\ desc)
          /\ p(x, z) <=> (c(x, z) = 0 /\ x.id < z.id) \/ (c(x, z) < 0 /\ ~desc) \/ (c(x, z) > 0 /\ desc)
      BY <1>3 DEF p
    <2>2. /\ c(x, y) \in Int /\ c(y, x) = -c(x, y) /\ c(y, z) \in Int /\ c(z, y) = -c(y, z)
          /\ c(x, z) \in Int /\ c(z, x) = -c(x, z)
          /\ x.id \in Nat /\ y.id \in Nat /\ z.id \in Nat
      BY <1>1, <1>4
    <2>3. /\ c(x, y) <= 0 /\ c(y, z) <= 0 =>
               c(x, z) <= 0 /\ (c(x, z) = 0 => c(x, y) = 0 /\ c(y, z) = 0)
          /\ c(z, y) <= 0 /\ c(y, x) <= 0 =>
               c(z, x) <= 0 /\ (c(z, x) = 0 => c(z, y) = 0 /\ c(y, x) = 0)
      BY <1>2
    <2>4. CASE desc
      <3>1. c(z, y) <= 0 /\ c(y, x) <= 0
        BY <2>1, <2>2, <2>4
      <3>2. c(x, z) >= 0 /\ (c(x, z) = 0 => c(y, z) = 0 /\ c(x, y) = 0)
        BY <2>2, <2>3, <3>1
      <3> QED
        BY <2>1, <2>2, <2>4, <3>2
    <2>5. CASE ~desc
      <3>1. c(x, y) <= 0 /\ c(y, z) <= 0
        BY <2>1, <2>2, <2>5
      <3>2. c(x, z) <= 0 /\ (c(x, z) = 0 => c(x, y) = 0 /\ c(y, z) = 0)
        BY <2>3, <3>1
      <3> QED
        BY <2>1, <2>2, <2>5, <3>2
    <2> QED
      BY <2>4, <2>5
  <1> QED
    BY <1>5, <1>6, <1>7 DEF p

\* A list holds each of its rows once.
LEMMA ItemsOnce ==
    ASSUME size \in Nat, NEW q, QueryOK(q), NEW all, all = ItemsOf(q)
    PROVE  /\ all \in Seq(1..size) /\ Len(all) \in Nat
           /\ \A i, j \in 1..Len(all) : all[i] = all[j] => i = j
  <1> DEFINE S == RowsOf(q)
             R == {w \in S \X S : precedes(w[1], w[2], q.sortBy, q.desc)}
             n == Cardinality(S)
             at(p) == CHOOSE r \in S : Cardinality({x \in S : precedes(x, r, q.sortBy, q.desc)}) = p - 1
  <1>1. S \in SUBSET Rows
    BY DEF RowsOf, filterTransactions, filterPortfolioHoldings, filterVaultHistory, QueryOK, Kinds
  <1>2. IsFiniteSet(S)
    <2>1. IsFiniteSet(Rows)
      BY RowsTyped
    <2> QED
      BY ONLY <1>1, <2>1, FS_Subset
  <1>3. all = [p \in 1..n |-> at(p).id]
    BY DEF ItemsOf, sortItems
  <1>4. \A x, y \in S : <<x, y>> \in R <=> precedes(x, y, q.sortBy, q.desc)
    OBVIOUS
  <1> HIDE DEF R, S, n
  <1>5. StrictOrder(R, S)
    <2>1. q.sortBy \in {"timestamp", "type"} /\ q.desc \in BOOLEAN
      BY DEF QueryOK
    <2>2. /\ \A x \in Rows : ~precedes(x, x, q.sortBy, q.desc)
          /\ \A x, y, z \in Rows : precedes(x, y, q.sortBy, q.desc) /\ precedes(y, z, q.sortBy, q.desc)
                                      => precedes(x, z, q.sortBy, q.desc)
          /\ \A x, y \in Rows : x = y \/ precedes(x, y, q.sortBy, q.desc) \/ precedes(y, x, q.sortBy, q.desc)
      BY ONLY <2>1, size \in Nat, PrecedesOrders
    <2> QED
      BY <1>1, <1>4, <2>2 DEF StrictOrder
  <1>6. \A r \in S : {x \in S : precedes(x, r, q.sortBy, q.desc)} = Below(R, S, r)
    BY <1>4 DEF Below
  <1>7. n \in Nat /\ \A p \in 1..n : \E r \in S : Rank(R, S, r) = p - 1
    BY <1>2, <1>5, RankIsPlace DEF n
  <1>8. \A p \in 1..n : at(p) \in S /\ Rank(R, S, at(p)) = p - 1
    <2> SUFFICES ASSUME NEW p \in 1..n PROVE at(p) \in S /\ Rank(R, S, at(p)) = p - 1
      OBVIOUS
    <2>1. \E r \in S : Cardinality({x \in S : precedes(x, r, q.sortBy, q.desc)}) = p - 1
      BY <1>6, <1>7 DEF Rank
    <2>2. at(p) \in S /\ Cardinality({x \in S : precedes(x, at(p), q.sortBy, q.desc)}) = p - 1
      BY <2>1
    <2> HIDE DEF at
    <2> QED
      BY <1>6, <2>2 DEF Rank
  <1> HIDE DEF at
  <1>9. \A p \in 1..n : at(p).id \in 1..size
    BY <1>1, <1>8, RowsTyped
  <1>10. all \in Seq(1..size) /\ Len(all) = n
    <2>1. all \in [1..n -> 1..size]
      BY <1>3, <1>9
    <2> QED
      BY <1>7, <2>1
  <1>11. \A i, j \in 1..n : all[i] = all[j] => i = j
    <2> SUFFICES ASSUME NEW i \in 1..n, NEW j \in 1..n, all[i] = all[j] PROVE i = j
      OBVIOUS
    <2>1. at(i).id = at(j).id
      BY <1>3
    <2>2. at(i) = at(j)
      BY <1>1, <1>8, <2>1, RowsTyped
    <2>3. i - 1 = j - 1
      BY <1>8, <2>2
    <2> QED
      BY <2>3
  <1> QED
    BY <1>7, <1>10, <1>11

\* w is what s holds after place from, up to place m.
IsCut(w, s, from, m, S) ==
    /\ m \in Nat /\ w \in Seq(S)
    /\ Len(w) = IF from < m THEN m - from ELSE 0
    /\ DOMAIN w = 1..Len(w)
    /\ \A i \in 1..Len(w) : w[i] = s[from + i]

LEMMA Sliced ==
    ASSUME NEW S, NEW s \in Seq(S), NEW from \in Nat, NEW to \in Nat,
           NEW m, m = IF to < Len(s) THEN to ELSE Len(s)
    PROVE  IsCut(slice(s, from, to), s, from, m, S)
  <1>1. m \in Nat /\ m <= Len(s)
    OBVIOUS
  <1>2. slice(s, from, to) = SubSeq(s, from + 1, m)
    BY DEF slice
  <1>3. /\ SubSeq(s, from + 1, m) \in Seq(S)
        /\ Len(SubSeq(s, from + 1, m)) = IF from < m THEN m - from ELSE 0
        /\ DOMAIN SubSeq(s, from + 1, m) = 1..Len(SubSeq(s, from + 1, m))
        /\ \A i \in 1..(m - from) : SubSeq(s, from + 1, m)[i] = s[from + i]
    BY ONLY <1>1, s \in Seq(S), from \in Nat, CutOut
  <1> DEFINE w == SubSeq(s, from + 1, m)
  <1> HIDE DEF w
  <1>4. \A i \in 1..Len(w) : i \in 1..(m - from)
    BY <1>1, <1>3 DEF w
  <1>5. \A i \in 1..Len(w) : w[i] = s[from + i]
    BY <1>3, <1>4 DEF w
  <1> QED
    BY <1>1, <1>2, <1>3, <1>5 DEF w, IsCut

\* The page paginateWithCursor cuts out of a list from place a on.
PageFrom(L, limit, a) ==
    LET window == slice(L, a, a + limit + 1)
        more == hasMore(Len(window), limit)
        data == IF more THEN slice(window, 0, limit) ELSE window
        back == IF a - limit - 1 > 0 THEN a - limit - 1 ELSE 0
    IN [ok |-> TRUE, data |-> data,
        next |-> IF more /\ data # << >> THEN data[Len(data)] ELSE 0,
        prev |-> IF a > 0 /\ data # << >> /\ back < Len(L) THEN L[back + 1] ELSE 0]

\* A page that follows place a: the next cursor is its last row and the
\* previous one a row from which a page reaches back to it.
PageAt(L, limit, page, a) ==
    /\ page.ok
    /\ Len(page.data) \in 0..limit /\ a + Len(page.data) <= Len(L)
    /\ DOMAIN page.data = 1..Len(page.data)
    /\ \A i \in 1..Len(page.data) : page.data[i] = L[a + i]
    /\ page.next = 0 => a + Len(page.data) = Len(L)
    /\ page.next # 0 => Len(page.data) = limit /\ page.next = L[a + Len(page.data)]
    /\ page.prev # 0 => a > 0 /\ \E p \in 1..a : page.prev = L[p] /\ a <= p + limit

LEMMA FirstRows ==
    ASSUME NEW S, NEW s \in Seq(S), NEW k \in Nat, Len(s) \in Nat, k < Len(s)
    PROVE  /\ slice(s, 0, k) \in Seq(S) /\ Len(slice(s, 0, k)) = k /\ DOMAIN slice(s, 0, k) = 1..k
           /\ \A i \in 1..k : slice(s, 0, k)[i] = s[i]
  <1>1. slice(s, 0, k) = SubSeq(s, 1, k)
    BY DEF slice
  <1>2. /\ SubSeq(s, 1, k) \in Seq(S) /\ Len(SubSeq(s, 1, k)) = k /\ DOMAIN SubSeq(s, 1, k) = 1..k
        /\ \A i \in 1..k : SubSeq(s, 1, k)[i] = s[i]
    OBVIOUS
  <1> QED
    BY ONLY <1>1, <1>2

LEMMA PageCut ==
    ASSUME NEW D, NEW L \in Seq(D), 0 \notin D, NEW limit \in Nat, limit > 0, NEW a \in 0..Len(L)
    PROVE  PageAt(L, limit, PageFrom(L, limit, a), a) /\ PageFrom(L, limit, a).data \in Seq(D)
  <1> DEFINE N == Len(L)
             to == a + limit + 1
             m == IF to < N THEN to ELSE N
             window == slice(L, a, to)
             more == hasMore(Len(window), limit)
             data == IF more THEN slice(window, 0, limit) ELSE window
             page == PageFrom(L, limit, a)
             back == IF a - limit - 1 > 0 THEN a - limit - 1 ELSE 0
  <1>1. N \in Nat /\ a \in Nat /\ a <= N /\ to \in Nat
    OBVIOUS
  <1>2. page = [ok |-> TRUE, data |-> data,
                next |-> IF more /\ data # << >> THEN data[Len(data)] ELSE 0,
                prev |-> IF a > 0 /\ data # << >> /\ back < N THEN L[back + 1] ELSE 0]
    BY DEF PageFrom
  <1>3. /\ m \in Nat /\ window \in Seq(D)
        /\ Len(window) = IF a < m THEN m - a ELSE 0
        /\ DOMAIN window = 1..Len(window)
        /\ \A i \in 1..Len(window) : window[i] = L[a + i]
    <2>1. PICK b \in Nat : b = to
      BY <1>1
    <2>2. PICK e \in Nat : e = IF b < Len(L) THEN b ELSE Len(L)
      BY <1>1
    <2>3. L \in Seq(D) /\ a \in Nat /\ b \in Nat
      OBVIOUS
    <2>4. IsCut(slice(L, a, b), L, a, e, D)
      BY ONLY <2>2, <2>3, Sliced
    <2>5. window = slice(L, a, b) /\ m = e
      BY ONLY <2>1, <2>2
    <2> HIDE DEF window, m
    <2>6. IsCut(window, L, a, m, D)
      BY ONLY <2>4, <2>5
    <2> QED
      BY ONLY <2>6 DEF IsCut
  <1>4. Len(window) = m - a
    <2>1. m \in Nat /\ a <= m
      BY <1>1
    <2> HIDE DEF window, m
    <2> QED
      BY <1>1, <1>3, <2>1
  <1>5. more <=> a + limit < N
    BY <1>1, <1>4 DEF hasMore
  <1> DEFINE d == IF more THEN limit ELSE N - a
  <1>6. /\ d \in Nat /\ data \in Seq(D) /\ Len(data) = d /\ DOMAIN data = 1..d
        /\ \A i \in 1..d : data[i] = L[a + i]
    <2>1. CASE more
      <3>1. Len(window) \in Nat /\ limit < Len(window)
        BY <1>1, <1>4, <1>5, <2>1
      <3> HIDE DEF window
      <3> DEFINE v == slice(window, 0, limit)
      <3>2. window \in Seq(D)
        BY <1>3
      <3>3. /\ v \in Seq(D) /\ Len(v) = limit /\ DOMAIN v = 1..limit
            /\ \A i \in 1..limit : v[i] = window[i]
        BY ONLY <3>1, <3>2, limit \in Nat, FirstRows
      <3> HIDE DEF v
      <3>5. \A i \in 1..limit : i \in 1..Len(window)
        BY <3>1
      <3>6. \A i \in 1..limit : v[i] = L[a + i]
        BY <1>3, <3>3, <3>5
      <3>7. data = v /\ d = limit
        BY <2>1 DEF v
      <3> HIDE DEF data, d
      <3> QED
        BY <3>3, <3>6, <3>7
    <2>2. CASE ~more
      <3>1. N - a \in Nat /\ Len(window) = N - a
        BY <1>1, <1>4, <1>5, <2>2
      <3> QED
        BY <1>3, <2>2, <3>1
    <2> QED
      BY <2>1, <2>2
  <1> HIDE DEF data, window, more, d, page
  <1>7. /\ page.ok /\ page.data = data /\ Len(page.data) = d
        /\ page.next = IF more /\ data # << >> THEN data[Len(data)] ELSE 0
        /\ page.prev = IF a > 0 /\ data # << >> /\ back < N THEN L[back + 1] ELSE 0
    BY <1>2, <1>6
  <1>8. d \in 0..limit /\ a + d <= N /\ (~more => a + d = N) /\ (more => d = limit /\ a + d < N)
    BY <1>1, <1>5, <1>6 DEF d
  <1>9. page.next = 0 => a + d = N
    <2>1. CASE more
      <3>1. d \in 1..d /\ data # << >> /\ Len(data) = d /\ a + d \in 1..N
        BY <1>1, <1>6, <1>8, <2>1
      <3>2. page.next = L[a + d]
        BY <1>6, <1>7, <2>1, <3>1
      <3>3. L[a + d] \in D
        BY <3>1
      <3> QED
        BY <3>2, <3>3
    <2> QED
      BY <1>8, <2>1
  <1>10. page.next # 0 => d = limit /\ page.next = L[a + d]
    <2> SUFFICES ASSUME page.next # 0 PROVE d = limit /\ page.next = L[a + d]
      OBVIOUS
    <2>1. more
      BY <1>7
    <2>2. d \in 1..d /\ data # << >> /\ Len(data) = d
      BY <1>1, <1>6, <1>8, <2>1
    <2> QED
      BY <1>6, <1>7, <1>8, <2>1, <2>2
  <1>11. page.prev # 0 => a > 0 /\ \E p \in 1..a : page.prev = L[p] /\ a <= p + limit
    <2> SUFFICES ASSUME page.prev # 0
                 PROVE  a > 0 /\ \E p \in 1..a : page.prev = L[p] /\ a <= p + limit
      OBVIOUS
    <2>1. a > 0 /\ page.prev = L[back + 1]
      BY <1>7
    <2>2. back + 1 \in 1..a /\ a <= (back + 1) + limit
      BY <1>1, <2>1
    <2> QED
      BY <2>1, <2>2
  <1> QED
    BY <1>6, <1>7, <1>8, <1>9, <1>10, <1>11 DEF PageAt, page

\* A cursor is a place of the list, or none of it.
LEMMA CursorPage ==
    ASSUME NEW n \in Nat, NEW L \in Seq(1..n), NEW limit \in Nat, limit > 0,
           \A i, j \in 1..Len(L) : L[i] = L[j] => i = j
    PROVE  /\ paginateWithCursor(L, limit, 0) = PageFrom(L, limit, 0)
           /\ \A a \in 1..Len(L) : paginateWithCursor(L, limit, L[a]) = PageFrom(L, limit, a)
           /\ \A cursor_ : cursor_ # 0 /\ (\A a \in 1..Len(L) : L[a] # cursor_)
                             => paginateWithCursor(L, limit, cursor_) = NoPage
  <1>1. DOMAIN L = 1..Len(L)
    OBVIOUS
  <1>2. paginateWithCursor(L, limit, 0) = PageFrom(L, limit, 0)
    BY DEF paginateWithCursor, PageFrom
  <1>3. ASSUME NEW a \in 1..Len(L) PROVE paginateWithCursor(L, limit, L[a]) = PageFrom(L, limit, a)
    <2> DEFINE at == {i \in DOMAIN L : L[i] = L[a]}
               k == CHOOSE i \in at : TRUE
    <2>1. L[a] # 0
      OBVIOUS
    <2>2. at = {a}
      BY <1>1
    <2>3. k = a
      BY <2>2
    <2>4. startAfter(k - 1) = a
      BY <2>3 DEF startAfter
    <2> HIDE DEF k
    <2>5. paginateWithCursor(L, limit, L[a]) = PageFrom(L, limit, startAfter(k - 1))
      BY <2>1, <2>2 DEF paginateWithCursor, PageFrom, k
    <2> QED
      BY <2>4, <2>5
  <1>4. ASSUME NEW cursor_, cursor_ # 0, \A a \in 1..Len(L) : L[a] # cursor_
        PROVE  paginateWithCursor(L, limit, cursor_) = NoPage
    BY <1>1, <1>4 DEF paginateWithCursor
  <1> QED
    BY <1>2, <1>3, <1>4

\* What was shown is an unbroken stretch of the list; the next cursor is a row
\* at or inside its ends, and the previous one a row from which a page of this
\* size reaches back to it.
Unbroken(L, limit, page, rows_) ==
    \E i, j \in 0..Len(L) :
        /\ i <= j /\ rows_ = {L[k] : k \in (i + 1)..j}
        /\ page.next # 0 => \E b \in i..j : b > 0 /\ page.next = L[b]
        /\ page.prev # 0 => \E p \in 1..j : page.prev = L[p] /\ i <= p + limit

\* A client that only moved forward was shown the first places of the list.
Forward(L, page, path) ==
    path # << >> =>
        /\ Len(path) \in 1..Len(L) /\ DOMAIN path = 1..Len(path)
        /\ \A i \in 1..Len(path) : path[i] = L[i]
        /\ page.next # 0 => page.next = L[Len(path)]
        /\ page.next = 0 => Len(path) = Len(L)

Fits(q, page, path, rows_) ==
    /\ q = NoQuery => rows_ = {}
    /\ q # NoQuery => QueryOK(q)
    /\ rows_ \subseteq 1..size /\ path \in Seq(1..size)
    /\ q # NoQuery /\ page.ok =>
         /\ Len(page.data) <= q.limit
         /\ Unbroken(ItemsOf(q), q.limit, page, rows_)
         /\ Forward(ItemsOf(q), page, path)

LstInv == size \in ListSizes /\ Fits(query, shown, trail, seen)

LEMMA LstInvInit == ListInit => LstInv
  <1> SUFFICES ASSUME ListInit PROVE LstInv
    OBVIOUS
  <1>1. seen \subseteq 1..size /\ trail \in Seq(1..size)
    BY DEF ListInit
  <1> QED
    BY <1>1 DEF ListInit, LstInv, Fits

\* The list of a query depends on the collection alone.
LEMMA FitsKept ==
    ASSUME NEW q, NEW page, NEW path, NEW rows_, Fits(q, page, path, rows_), size' = size,
           query' = q, shown' = page, trail' = path, seen' = rows_, size \in ListSizes
    PROVE  LstInv'
  <1>1. Rows' = Rows
    BY DEF Rows
  <1>2. ItemsOf(query)' = ItemsOf(q)
    BY <1>1 DEF ItemsOf, RowsOf, filterTransactions, filterPortfolioHoldings, filterVaultHistory
  <1>3. QueryOK(q) <=> QueryOK(query)'
    BY DEF QueryOK
  <1>4. /\ query' = NoQuery => seen' = {}
        /\ query' # NoQuery => QueryOK(query)'
        /\ seen' \subseteq 1..size' /\ trail' \in Seq(1..size')
    BY <1>3 DEF Fits
  <1>5. query' # NoQuery /\ shown'.ok =>
         /\ Len(shown'.data) <= query'.limit
         /\ Unbroken(ItemsOf(query)', query'.limit, shown', seen')
         /\ Forward(ItemsOf(query)', shown', trail')
    BY <1>2 DEF Fits
  <1> QED
    BY <1>4, <1>5 DEF LstInv, Fits, Unbroken, Forward

\* The rows of a page of the list.
LEMMA RowsShown ==
    ASSUME NEW D, NEW L \in Seq(D), NEW limit \in Nat, NEW a \in 0..Len(L), NEW page,
           PageAt(L, limit, page, a)
    PROVE  /\ Range(page.data) = {L[k] : k \in (a + 1)..(a + Len(page.data))}
           /\ Range(page.data) \subseteq D
  <1> DEFINE d == Len(page.data)
  <1>1. /\ d \in Nat /\ a \in Nat /\ a + d <= Len(L) /\ Len(L) \in Nat
        /\ DOMAIN page.data = 1..d /\ \A i \in 1..d : page.data[i] = L[a + i]
    BY DEF PageAt
  <1> HIDE DEF d
  <1>2. ASSUME NEW k \in (a + 1)..(a + d) PROVE k - a \in 1..d /\ a + (k - a) = k
    BY <1>1
  <1>3. ASSUME NEW i \in 1..d PROVE a + i \in (a + 1)..(a + d) /\ a + i \in 1..Len(L)
    BY <1>1
  <1>4. Range(page.data) = {page.data[i] : i \in 1..d}
    BY <1>1 DEF Range
  <1>5. {page.data[i] : i \in 1..d} \subseteq {L[k] : k \in (a + 1)..(a + d)}
    BY <1>1, <1>3
  <1>6. ASSUME NEW k \in (a + 1)..(a + d) PROVE L[k] \in {page.data[i] : i \in 1..d}
    <2>1. page.data[k - a] = L[a + (k - a)]
      BY <1>1, <1>2
    <2> QED
      BY <1>2, <2>1
  <1>7. {page.data[i] : i \in 1..d} \subseteq D
    <2>1. \A k \in 1..Len(L) : L[k] \in D
      OBVIOUS
    <2>2. \A i \in 1..d : page.data[i] \in D
      BY <1>1, <1>3, <2>1
    <2> QED
      BY <2>2
  <1> QED
    BY <1>4, <1>5, <1>6, <1>7 DEF d

\* A first page, or one reached with a cursor another filter gave.
LEMMA PageAlone ==
    ASSUME NEW D, NEW L \in Seq(D), NEW limit \in Nat, limit > 0, NEW a \in 0..Len(L),
           NEW page, PageAt(L, limit, page, a)
    PROVE  Unbroken(L, limit, page, Range(page.data))
  <1> DEFINE d == Len(page.data)
  <1>1. /\ d \in 0..limit /\ a \in Nat /\ a + d <= Len(L) /\ Len(L) \in Nat
        /\ page.next # 0 => d = limit /\ page.next = L[a + d]
        /\ page.prev # 0 => a > 0 /\ \E p \in 1..a : page.prev = L[p] /\ a <= p + limit
    BY DEF PageAt
  <1>2. Range(page.data) = {L[k] : k \in (a + 1)..(a + d)}
    <2>1. /\ Range(page.data) = {L[k] : k \in (a + 1)..(a + Len(page.data))}
          /\ Range(page.data) \subseteq D
      BY ONLY L \in Seq(D), limit \in Nat, a \in 0..Len(L), PageAt(L, limit, page, a), RowsShown, Zenon
    <2> QED
      BY ONLY <2>1
  <1> HIDE DEF d
  <1>3. a \in 0..Len(L) /\ a + d \in 0..Len(L) /\ a <= a + d
    BY <1>1
  <1>4. page.next # 0 => a + d \in a..(a + d) /\ a + d > 0
    BY <1>1
  <1>5. \A p \in 1..a : p \in 1..(a + d)
    BY <1>1
  <1> QED
    BY <1>1, <1>2, <1>3, <1>4, <1>5 DEF Unbroken

\* A page that begins in the stretch, or reaches back to it, lengthens it.
LEMMA PageJoins ==
    ASSUME NEW D, NEW L \in Seq(D), NEW limit \in Nat, limit > 0, NEW a \in 0..Len(L),
           NEW page, PageAt(L, limit, page, a),
           NEW i \in 0..Len(L), NEW j \in 0..Len(L), i <= j, NEW rows_,
           rows_ = {L[k] : k \in (i + 1)..j}, a <= j, i <= a + limit
    PROVE  Unbroken(L, limit, page, rows_ \union Range(page.data))
  <1> DEFINE d == Len(page.data)
             u == IF a < i THEN a ELSE i
             v == IF a + d < j THEN j ELSE a + d
  <1>1. /\ d \in 0..limit /\ a \in Nat /\ a + d <= Len(L) /\ Len(L) \in Nat
        /\ page.next = 0 => a + d = Len(L)
        /\ page.next # 0 => d = limit /\ page.next = L[a + d]
        /\ page.prev # 0 => a > 0 /\ \E p \in 1..a : page.prev = L[p] /\ a <= p + limit
    BY DEF PageAt
  <1>2. Range(page.data) = {L[k] : k \in (a + 1)..(a + d)}
    <2>1. /\ Range(page.data) = {L[k] : k \in (a + 1)..(a + Len(page.data))}
          /\ Range(page.data) \subseteq D
      BY ONLY L \in Seq(D), limit \in Nat, a \in 0..Len(L), PageAt(L, limit, page, a), RowsShown, Zenon
    <2> QED
      BY ONLY <2>1
  <1> HIDE DEF d
  <1>3. i <= a + d
    BY <1>1
  <1>4. /\ u \in Nat /\ v \in Nat /\ u <= v /\ v <= Len(L) /\ u <= a /\ u <= i /\ j <= v /\ a + d <= v
        /\ u \in {a, i} /\ v \in {a + d, j} /\ d \in Nat
    BY <1>1, <1>3
  <1> HIDE DEF u, v
  <1>5. \A k \in Int : k \in (u + 1)..v <=> k \in (i + 1)..j \/ k \in (a + 1)..(a + d)
    <2>1. \A x, y, e, f, g, h, k \in Int :
             /\ x \in {e, f} /\ x <= e /\ x <= f /\ y \in {g, h} /\ g <= y /\ h <= y
             /\ e <= g /\ f <= h /\ e <= h /\ f <= g
             => ((x + 1 <= k /\ k <= y) <=> (f + 1 <= k /\ k <= h) \/ (e + 1 <= k /\ k <= g))
      OBVIOUS
    <2>2. /\ u \in Int /\ v \in Int /\ a \in Int /\ i \in Int /\ a + d \in Int /\ j \in Int
          /\ a <= a + d /\ i <= j /\ a <= j /\ i <= a + d
      BY <1>1, <1>3, <1>4
    <2>3. \A k \in Int : (u + 1 <= k /\ k <= v) <=> (i + 1 <= k /\ k <= j) \/ (a + 1 <= k /\ k <= a + d)
      BY ONLY <1>4, <2>1, <2>2
    <2> QED
      BY <2>2, <2>3
  <1>6. (u + 1)..v = ((i + 1)..j) \union ((a + 1)..(a + d))
    <2>1. \A k \in (u + 1)..v : k \in Int
      BY <1>4
    <2>2. \A k \in ((i + 1)..j) \union ((a + 1)..(a + d)) : k \in Int
      BY <1>1
    <2> QED
      BY ONLY <1>5, <2>1, <2>2
  <1>7. rows_ \union Range(page.data) = {L[k] : k \in (u + 1)..v}
    BY <1>2, <1>6
  <1>8. page.next # 0 => \E b \in u..v : b > 0 /\ page.next = L[b]
    <2> SUFFICES ASSUME page.next # 0 PROVE \E b \in u..v : b > 0 /\ page.next = L[b]
      OBVIOUS
    <2>1. a + d \in u..v /\ a + d > 0
      BY <1>1, <1>4
    <2> QED
      BY <1>1, <2>1
  <1>9. page.prev # 0 => \E p \in 1..v : page.prev = L[p] /\ u <= p + limit
    <2> SUFFICES ASSUME page.prev # 0 PROVE \E p \in 1..v : page.prev = L[p] /\ u <= p + limit
      OBVIOUS
    <2>1. PICK p \in 1..a : page.prev = L[p] /\ a <= p + limit
      BY <1>1
    <2>2. p \in Int /\ 1 <= p /\ p <= a /\ a <= p + limit /\ u <= a /\ a <= a + d /\ a + d <= v
          /\ u \in Int /\ v \in Int /\ a \in Int /\ a + d \in Int
      BY <1>1, <1>4, <2>1
    <2>3. p \in 1..v /\ u <= p + limit
      BY ONLY <2>2, limit \in Nat
    <2> QED
      BY <2>1, <2>3
  <1>10. u \in 0..Len(L) /\ v \in 0..Len(L)
    BY <1>1, <1>4
  <1> QED
    BY <1>4, <1>7, <1>8, <1>9, <1>10 DEF Unbroken

LEMMA ForwardFrom ==
    ASSUME NEW D, NEW L \in Seq(D), NEW limit \in Nat, NEW path \in Seq(D), Len(path) \in 0..Len(L),
           \A i \in 1..Len(path) : path[i] = L[i],
           NEW page, PageAt(L, limit, page, Len(path)), page.data \in Seq(D)
    PROVE  Forward(L, page, path \o page.data)
  <1> DEFINE t == Len(path)
             d == Len(page.data)
             w == path \o page.data
  <1>1. /\ t \in Nat /\ d \in Nat /\ t + d <= Len(L) /\ Len(L) \in Nat
        /\ \A i \in 1..d : page.data[i] = L[t + i]
        /\ page.next = 0 => t + d = Len(L)
        /\ page.next # 0 => page.next = L[t + d]
    BY DEF PageAt
  <1>2. /\ w \in Seq(D) /\ Len(w) = t + d /\ DOMAIN w = 1..(t + d)
        /\ \A i \in 1..(t + d) : w[i] = IF i <= t THEN path[i] ELSE page.data[i - t]
    <2>1. t \in Nat /\ d \in Nat
      BY <1>1
    <2> QED
      BY <2>1
  <1> HIDE DEF t, d, w
  <1>3. \A i \in 1..(t + d) : w[i] = L[i]
    <2> SUFFICES ASSUME NEW i \in 1..(t + d) PROVE w[i] = L[i]
      OBVIOUS
    <2>1. CASE i <= t
      <3>1. i \in 1..Len(path)
        BY <1>1, <2>1 DEF t
      <3> QED
        BY <1>2, <2>1, <3>1
    <2>2. CASE i > t
      <3>1. i - t \in 1..d /\ t + (i - t) = i /\ ~(i <= t)
        BY <1>1, <2>2
      <3>2. page.data[i - t] = L[t + (i - t)]
        BY <1>1, <3>1
      <3> QED
        BY <1>2, <3>1, <3>2
    <2> QED
      BY <1>1, <2>1, <2>2
  <1>4. w # << >> => Len(w) \in 1..Len(L)
    BY <1>1, <1>2
  <1> QED
    BY <1>1, <1>2, <1>3, <1>4 DEF Forward, w

\* The answers paginateWithCursor gives for a list: what each cursor leads to.
LEMMA AnswerAt ==
    ASSUME size \in Nat, NEW q, QueryOK(q)
    PROVE  /\ ItemsOf(q) \in Seq(1..size) /\ Len(ItemsOf(q)) \in Nat
           /\ \A i, j \in 1..Len(ItemsOf(q)) : ItemsOf(q)[i] = ItemsOf(q)[j] => i = j
           /\ PageAt(ItemsOf(q), q.limit, Answer(q, 0, 0), 0)
           /\ Answer(q, 0, 0).data \in Seq(1..size)
           /\ \A a \in 1..Len(ItemsOf(q)) :
                 /\ PageAt(ItemsOf(q), q.limit, Answer(q, ItemsOf(q)[a], 0), a)
                 /\ Answer(q, ItemsOf(q)[a], 0).data \in Seq(1..size)
           /\ \A cursor_ : cursor_ # 0 /\ (\A a \in 1..Len(ItemsOf(q)) : ItemsOf(q)[a] # cursor_)
                             => Answer(q, cursor_, 0) = NoPage
  <1>1. PICK L : L = ItemsOf(q)
    OBVIOUS
  <1>2. /\ L \in Seq(1..size) /\ Len(L) \in Nat
        /\ \A i, j \in 1..Len(L) : L[i] = L[j] => i = j
    BY ONLY size \in Nat, QueryOK(q), <1>1, ItemsOnce
  <1>3. q.limit \in Nat /\ q.limit > 0 /\ q.kind \in Kinds
    BY DEF QueryOK
  <1>4. PICK limit \in Nat : limit = q.limit /\ limit > 0
    BY <1>3
  <1>5. \A cursor_ : Answer(q, cursor_, 0) = paginateWithCursor(L, limit, cursor_)
    BY ONLY <1>1, <1>3, <1>4, AnswerIsPage
  <1>6. /\ paginateWithCursor(L, limit, 0) = PageFrom(L, limit, 0)
        /\ \A a \in 1..Len(L) : paginateWithCursor(L, limit, L[a]) = PageFrom(L, limit, a)
        /\ \A cursor_ : cursor_ # 0 /\ (\A a \in 1..Len(L) : L[a] # cursor_)
                          => paginateWithCursor(L, limit, cursor_) = NoPage
    BY ONLY size \in Nat, <1>2, <1>4, CursorPage
  <1>7. \A a \in 0..Len(L) : PageAt(L, limit, PageFrom(L, limit, a), a)
                             /\ PageFrom(L, limit, a).data \in Seq(1..size)
    <2> DEFINE D == 1..size
    <2>1. 0 \notin D /\ L \in Seq(D)
      BY <1>2
    <2> HIDE DEF D
    <2>2. \A a \in 0..Len(L) : PageAt(L, limit, PageFrom(L, limit, a), a)
                               /\ PageFrom(L, limit, a).data \in Seq(D)
      BY ONLY <2>1, <1>4, PageCut
    <2> QED
      BY <2>2 DEF D
  <1>8. 0 \in 0..Len(L) /\ \A a \in 1..Len(L) : a \in 0..Len(L)
    BY <1>2
  <1>9. PageAt(L, limit, Answer(q, 0, 0), 0) /\ Answer(q, 0, 0).data \in Seq(1..size)
    BY ONLY <1>5, <1>6, <1>7, <1>8
  <1>10. \A a \in 1..Len(L) : /\ PageAt(L, limit, Answer(q, L[a], 0), a)
                              /\ Answer(q, L[a], 0).data \in Seq(1..size)
    BY ONLY <1>5, <1>6, <1>7, <1>8
  <1>11. \A cursor_ : cursor_ # 0 /\ (\A a \in 1..Len(L) : L[a] # cursor_)
                       => Answer(q, cursor_, 0) = NoPage
    BY ONLY <1>5, <1>6
  <1> QED
    BY ONLY <1>1, <1>2, <1>4, <1>9, <1>10, <1>11

LEMMA QueryIsOne == \A q : QueryOK(q) => q # NoQuery
  <1>1. NoQuery.kind = "none"
    BY DEF NoQuery
  <1> QED
    BY <1>1 DEF QueryOK, Kinds

\* The answer to any cursor, as a stretch of its own.
LEMMA AloneFits ==
    ASSUME size \in Nat, NEW q, QueryOK(q), NEW a \in 0..Len(ItemsOf(q)), NEW page,
           PageAt(ItemsOf(q), q.limit, page, a), page.data \in Seq(1..size),
           NEW path \in Seq(1..size), Forward(ItemsOf(q), page, path)
    PROVE  Fits(q, page, path, Range(page.data))
  <1>1. PICK L : L = ItemsOf(q)
    OBVIOUS
  <1>2. PICK limit \in Nat : limit = q.limit /\ limit > 0
    BY DEF QueryOK
  <1>3. L \in Seq(1..size) /\ a \in 0..Len(L) /\ PageAt(L, limit, page, a)
    BY <1>1, <1>2, AnswerAt
  <1> DEFINE D == 1..size
  <1>4. L \in Seq(D)
    BY <1>3
  <1> HIDE DEF D
  <1>5. Unbroken(L, limit, page, Range(page.data))
    BY ONLY <1>2, <1>3, <1>4, PageAlone
  <1>6. Range(page.data) \subseteq D
    BY ONLY <1>2, <1>3, <1>4, RowsShown
  <1>7. Len(page.data) <= limit
    BY <1>2, <1>3 DEF PageAt
  <1>8. q # NoQuery
    BY QueryIsOne
  <1>9. Range(page.data) \subseteq 1..size
    BY <1>6 DEF D
  <1> QED
    BY <1>1, <1>2, <1>5, <1>7, <1>8, <1>9 DEF Fits

LEMMA OpenFits ==
    ASSUME size \in Nat, NEW q, QueryOK(q)
    PROVE  Fits(q, Answer(q, 0, 0), Answer(q, 0, 0).data, Range(Answer(q, 0, 0).data))
  <1>1. PICK r : r = Answer(q, 0, 0)
    OBVIOUS
  <1>2. PICK L : L = ItemsOf(q)
    OBVIOUS
  <1>3. PICK limit \in Nat : limit = q.limit
    BY DEF QueryOK
  <1>4. L \in Seq(1..size) /\ Len(L) \in Nat /\ PageAt(L, limit, r, 0) /\ r.data \in Seq(1..size)
    BY ONLY size \in Nat, QueryOK(q), <1>1, <1>2, <1>3, AnswerAt
  <1> DEFINE D == 1..size
             e == << >>
  <1>5. L \in Seq(D) /\ r.data \in Seq(D) /\ 0 \in 0..Len(L)
    BY <1>4
  <1> HIDE DEF D
  <1>6. e \in Seq(D) /\ Len(e) = 0 /\ (\A i \in 1..Len(e) : e[i] = L[i]) /\ e \o r.data = r.data
    BY <1>5
  <1> HIDE DEF e
  <1>7. Len(e) \in 0..Len(L) /\ PageAt(L, limit, r, Len(e))
    BY <1>4, <1>5, <1>6
  <1>8. Forward(L, r, e \o r.data)
    BY ONLY <1>3, <1>5, <1>6, <1>7, ForwardFrom
  <1>9. Forward(L, r, r.data)
    BY <1>6, <1>8
  <1>10. Fits(q, r, r.data, Range(r.data))
    BY ONLY size \in Nat, QueryOK(q), <1>2, <1>3, <1>4, <1>5, <1>9, AloneFits
  <1> QED
    BY <1>1, <1>10

LEMMA RefilterFits ==
    ASSUME size \in Nat, NEW q, QueryOK(q), NEW cursor_, cursor_ # 0
    PROVE  Fits(q, Answer(q, cursor_, 0), << >>, Range(Answer(q, cursor_, 0).data))
  <1> DEFINE L == ItemsOf(q)
             r == Answer(q, cursor_, 0)
  <1>1. \A page : Forward(L, page, << >>)
    BY DEF Forward
  <1>2. << >> \in Seq(1..size)
    OBVIOUS
  <1>3. CASE \E a \in 1..Len(L) : L[a] = cursor_
    <2>1. PICK a \in 1..Len(L) : L[a] = cursor_
      BY <1>3
    <2>2. a \in 0..Len(L) /\ PageAt(L, q.limit, r, a) /\ r.data \in Seq(1..size)
      BY <2>1, AnswerAt
    <2> HIDE DEF L, r
    <2>3. PICK page : page = r
      OBVIOUS
    <2>4. Fits(q, page, << >>, Range(page.data))
      <3>1. PageAt(ItemsOf(q), q.limit, page, a) /\ page.data \in Seq(1..size) /\ a \in 0..Len(ItemsOf(q))
            /\ Forward(ItemsOf(q), page, << >>)
        BY <1>1, <2>2, <2>3 DEF L
      <3> QED
        BY ONLY size \in Nat, QueryOK(q), <1>2, <3>1, AloneFits
    <2> QED
      BY <2>3, <2>4 DEF r
  <1>4. CASE \A a \in 1..Len(L) : L[a] # cursor_
    <2>1. r = NoPage /\ L \in Seq(1..size) /\ Len(L) \in Nat
      BY <1>4, AnswerAt
    <2>2. NoPage.data = << >> /\ NoPage.next = 0 /\ NoPage.prev = 0 /\ NoPage.ok
      BY DEF NoPage
    <2>3. Range(<< >>) = {}
      BY DEF Range
    <2>4. /\ 0 \in 0..Len(L) /\ {} = {L[k] : k \in (0 + 1)..0}
      BY <2>1
    <2> HIDE DEF L, r
    <2>5. Unbroken(L, q.limit, NoPage, {})
      BY <2>2, <2>4 DEF Unbroken
    <2>6. Len(NoPage.data) <= q.limit
      BY <2>2 DEF QueryOK
    <2>7. Fits(q, NoPage, << >>, {})
      BY <1>1, <1>2, <2>5, <2>6 DEF Fits, L
    <2> QED
      BY <2>1, <2>2, <2>3, <2>7 DEF r
  <1> QED
    BY <1>3, <1>4

LEMMA NextFits ==
    ASSUME size \in Nat, NEW q, QueryOK(q), NEW page, NEW path, NEW rows_, Fits(q, page, path, rows_),
           page.ok, page.next # 0, NEW r, r = Answer(q, page.next, 0)
    PROVE  Fits(q, r, IF path = << >> THEN << >> ELSE path \o r.data, rows_ \union Range(r.data))
  <1>1. PICK L : L = ItemsOf(q)
    OBVIOUS
  <1>2. PICK limit \in Nat : limit = q.limit /\ limit > 0
    BY DEF QueryOK
  <1>3. /\ L \in Seq(1..size) /\ Len(L) \in Nat
        /\ \A i, j \in 1..Len(L) : L[i] = L[j] => i = j
        /\ \A a \in 1..Len(L) : PageAt(L, limit, Answer(q, L[a], 0), a)
                                /\ Answer(q, L[a], 0).data \in Seq(1..size)
    BY ONLY size \in Nat, QueryOK(q), <1>1, <1>2, AnswerAt
  <1>4. q # NoQuery
    BY QueryIsOne
  <1>5. /\ rows_ \subseteq 1..size /\ path \in Seq(1..size)
        /\ Unbroken(L, limit, page, rows_) /\ Forward(L, page, path)
    BY <1>1, <1>2, <1>4 DEF Fits
  <1>6. PICK i \in 0..Len(L), j \in 0..Len(L) :
           /\ i <= j /\ rows_ = {L[k] : k \in (i + 1)..j}
           /\ \E b \in i..j : b > 0 /\ page.next = L[b]
    BY <1>5 DEF Unbroken
  <1>7. PICK b \in i..j : b > 0 /\ page.next = L[b]
    BY <1>6
  <1>8. b \in 1..Len(L) /\ b \in 0..Len(L) /\ b <= j /\ i <= b + limit
    BY <1>3, <1>7
  <1>9. PageAt(L, limit, r, b) /\ r.data \in Seq(1..size)
    BY <1>3, <1>7, <1>8
  <1> DEFINE D == 1..size
  <1>10. L \in Seq(D) /\ r.data \in Seq(D) /\ path \in Seq(D)
    BY <1>3, <1>5, <1>9
  <1> HIDE DEF D
  <1>11. Unbroken(L, limit, r, rows_ \union Range(r.data))
    BY ONLY <1>2, <1>6, <1>8, <1>9, <1>10, PageJoins
  <1>12. Range(r.data) \subseteq 1..size
    <2>1. Range(r.data) \subseteq D
      BY ONLY <1>2, <1>8, <1>9, <1>10, RowsShown
    <2> QED
      BY <2>1 DEF D
  <1>13. Len(r.data) <= limit /\ r.ok
    BY <1>9 DEF PageAt
  <1>14. CASE path = << >>
    <2>1. Forward(L, r, << >>) /\ << >> \in Seq(1..size)
      BY DEF Forward
    <2> QED
      BY <1>1, <1>2, <1>4, <1>5, <1>11, <1>12, <1>13, <1>14, <2>1 DEF Fits
  <1>15. CASE path # << >>
    <2>1. /\ Len(path) \in 1..Len(L) /\ \A k \in 1..Len(path) : path[k] = L[k]
          /\ page.next = L[Len(path)]
      BY <1>5, <1>15 DEF Forward
    <2>2. Len(path) = b
      BY <1>3, <1>7, <1>8, <2>1
    <2>3. Len(path) \in 0..Len(L) /\ PageAt(L, limit, r, Len(path))
      BY <1>8, <1>9, <2>2
    <2>4. Forward(L, r, path \o r.data)
      BY ONLY <1>2, <1>10, <2>1, <2>3, ForwardFrom
    <2>5. path \o r.data \in Seq(1..size)
      BY <1>5, <1>9
    <2> QED
      BY <1>1, <1>2, <1>4, <1>5, <1>11, <1>12, <1>13, <1>15, <2>4, <2>5 DEF Fits
  <1> QED
    BY <1>14, <1>15

LEMMA PrevFits ==
    ASSUME size \in Nat, NEW q, QueryOK(q), NEW page, NEW path, NEW rows_, Fits(q, page, path, rows_),
           page.ok, page.prev # 0, NEW r, r = Answer(q, page.prev, 0)
    PROVE  Fits(q, r, << >>, rows_ \union Range(r.data))
  <1>1. PICK L : L = ItemsOf(q)
    OBVIOUS
  <1>2. PICK limit \in Nat : limit = q.limit /\ limit > 0
    BY DEF QueryOK
  <1>3. /\ L \in Seq(1..size) /\ Len(L) \in Nat
        /\ \A a \in 1..Len(L) : PageAt(L, limit, Answer(q, L[a], 0), a)
                                /\ Answer(q, L[a], 0).data \in Seq(1..size)
    BY ONLY size \in Nat, QueryOK(q), <1>1, <1>2, AnswerAt
  <1>4. q # NoQuery
    BY QueryIsOne
  <1>5. rows_ \subseteq 1..size /\ Unbroken(L, limit, page, rows_)
    BY <1>1, <1>2, <1>4 DEF Fits
  <1>6. PICK i \in 0..Len(L), j \in 0..Len(L) :
           /\ i <= j /\ rows_ = {L[k] : k \in (i + 1)..j}
           /\ \E p \in 1..j : page.prev = L[p] /\ i <= p + limit
    BY <1>5 DEF Unbroken
  <1>7. PICK p \in 1..j : page.prev = L[p] /\ i <= p + limit
    BY <1>6
  <1>8. p \in 1..Len(L) /\ p \in 0..Len(L) /\ p <= j /\ i <= p + limit
    BY <1>3, <1>7
  <1>9. PageAt(L, limit, r, p) /\ r.data \in Seq(1..size)
    BY <1>3, <1>7, <1>8
  <1> DEFINE D == 1..size
  <1>10. L \in Seq(D)
    BY <1>3
  <1> HIDE DEF D
  <1>11. Unbroken(L, limit, r, rows_ \union Range(r.data))
    BY ONLY <1>2, <1>6, <1>8, <1>9, <1>10, PageJoins
  <1>12. Range(r.data) \subseteq 1..size
    <2>1. Range(r.data) \subseteq D
      BY ONLY <1>2, <1>8, <1>9, <1>10, RowsShown
    <2> QED
      BY <2>1 DEF D
  <1>13. Len(r.data) <= limit /\ r.ok
    BY <1>9 DEF PageAt
  <1>14. Forward(L, r, << >>) /\ << >> \in Seq(1..size)
    BY DEF Forward
  <1> QED
    BY <1>1, <1>2, <1>4, <1>5, <1>11, <1>12, <1>13, <1>14 DEF Fits

\* Page numbers: a stretch of its own, with no cursors.
LEMMA JumpFits ==
    ASSUME size \in Nat, NEW q, QueryOK(q), q.kind = "transactions", NEW n \in 1..3
    PROVE  Fits(q, Answer(q, 0, n), << >>, Range(Answer(q, 0, n).data))
  <1>1. PICK L : L = ItemsOf(q)
    OBVIOUS
  <1>2. PICK limit \in Nat : limit = q.limit /\ limit > 0
    BY DEF QueryOK
  <1>3. L \in Seq(1..size) /\ Len(L) \in Nat
    BY ONLY size \in Nat, QueryOK(q), <1>1, AnswerAt
  <1>4. Answer(q, 0, n) = paginateWithOffset(L, limit, n)
    <2>1. n \in Nat /\ n > 0 /\ q.kind \in Kinds
      BY DEF Kinds
    <2> QED
      BY ONLY <1>1, <1>2, <2>1, q.kind = "transactions", AnswerIsPage
  <1>5. PICK from \in Nat : from = (n - 1) * limit
    <2>1. CASE n = 1
      BY <1>2, <2>1
    <2>2. CASE n = 2
      BY <1>2, <2>2
    <2>3. CASE n = 3
      BY <1>2, <2>3
    <2> QED
      BY <2>1, <2>2, <2>3
  <1>6. PICK to \in Nat : to = from + limit
    BY <1>2, <1>5
  <1>7. PICK page : page = Answer(q, 0, n)
    OBVIOUS
  <1>8. page = [NoPage EXCEPT !.data = slice(L, from, to)]
    BY ONLY <1>4, <1>5, <1>6, <1>7 DEF paginateWithOffset
  <1>9. page.data = slice(L, from, to) /\ page.ok /\ page.next = 0 /\ page.prev = 0
    BY <1>8 DEF NoPage
  <1>10. PICK e \in Nat : e = IF to < Len(L) THEN to ELSE Len(L)
    BY <1>3
  <1> DEFINE D == 1..size
  <1>11. L \in Seq(D)
    BY <1>3
  <1> HIDE DEF D
  <1>12. /\ page.data \in Seq(D)
         /\ Len(page.data) = IF from < e THEN e - from ELSE 0
         /\ DOMAIN page.data = 1..Len(page.data)
         /\ \A i \in 1..Len(page.data) : page.data[i] = L[from + i]
    <2>1. /\ slice(L, from, to) \in Seq(D)
          /\ Len(slice(L, from, to)) = IF from < e THEN e - from ELSE 0
          /\ DOMAIN slice(L, from, to) = 1..Len(slice(L, from, to))
          /\ \A i \in 1..Len(slice(L, from, to)) : slice(L, from, to)[i] = L[from + i]
      <3>1. slice(L, from, to) = SubSeq(L, from + 1, e)
        BY <1>10 DEF slice
      <3>2. e \in Nat /\ e <= Len(L)
        BY <1>3, <1>10
      <3>3. /\ SubSeq(L, from + 1, e) \in Seq(D)
            /\ Len(SubSeq(L, from + 1, e)) = IF from < e THEN e - from ELSE 0
            /\ DOMAIN SubSeq(L, from + 1, e) = 1..Len(SubSeq(L, from + 1, e))
            /\ \A i \in 1..(e - from) : SubSeq(L, from + 1, e)[i] = L[from + i]
        BY ONLY <1>11, from \in Nat, <3>2, CutOut
      <3> DEFINE w == SubSeq(L, from + 1, e)
      <3> HIDE DEF w
      <3>4. \A i \in 1..Len(w) : i \in 1..(e - from)
        BY <3>2, <3>3 DEF w
      <3>5. \A i \in 1..Len(w) : w[i] = L[from + i]
        BY <3>3, <3>4 DEF w
      <3> QED
        BY ONLY <3>1, <3>3, <3>5 DEF w
    <2> QED
      BY ONLY <1>9, <2>1
  <1>13. PICK a \in Nat : a = IF from < e THEN from ELSE 0
    BY <1>5
  <1>14. Len(page.data) <= limit /\ Len(page.data) \in Nat /\ a + Len(page.data) <= Len(L) /\ a <= Len(L)
         /\ \A i \in 1..Len(page.data) : page.data[i] = L[a + i]
    <2>1. Len(L) \in Nat
      BY <1>3
    <2>2. /\ Len(page.data) = (IF from < e THEN e - from ELSE 0)
          /\ \A i \in 1..Len(page.data) : page.data[i] = L[from + i]
      BY <1>12
    <2>3. e <= to /\ e <= Len(L)
      BY ONLY <1>10, <2>1, to \in Nat, e \in Nat
    <2>4. CASE from < e
      <3>1. a = from /\ Len(page.data) = e - from
        BY <1>13, <2>2, <2>4
      <3>2. /\ e - from <= limit /\ e - from \in Nat
            /\ from + (e - from) <= Len(L) /\ from <= Len(L)
        BY ONLY <1>6, <2>1, <2>3, <2>4, limit \in Nat, from \in Nat, e \in Nat, to \in Nat
      <3> QED
        BY ONLY <2>2, <3>1, <3>2
    <2>5. CASE ~(from < e)
      <3>1. a = 0 /\ Len(page.data) = 0
        BY <1>13, <2>2, <2>5
      <3>2. 0 <= limit /\ 0 \in Nat /\ 0 + 0 <= Len(L) /\ 0 <= Len(L) /\ 1..0 = {}
        BY ONLY <2>1, limit \in Nat
      <3> QED
        BY ONLY <3>1, <3>2
    <2> QED
      BY ONLY <2>4, <2>5
  <1>15. Range(page.data) = {L[k] : k \in (a + 1)..(a + Len(page.data))} /\ Range(page.data) \subseteq 1..size
    <2>1. PICK d \in Nat : d = Len(page.data)
      BY <1>14
    <2>2. \A k \in (a + 1)..(a + d) : k - a \in 1..d /\ a + (k - a) = k
      BY <2>1
    <2>3. \A i \in 1..d : a + i \in (a + 1)..(a + d) /\ a + i \in 1..Len(L)
      BY <1>3, <1>14, <2>1
    <2>4. Range(page.data) = {page.data[i] : i \in 1..d}
      BY <1>12, <2>1 DEF Range
    <2>5. \A k \in (a + 1)..(a + d) : page.data[k - a] = L[k]
      BY <1>14, <2>1, <2>2
    <2>6. {page.data[i] : i \in 1..d} = {L[k] : k \in (a + 1)..(a + d)}
      <3>1. \A i \in 1..d : page.data[i] = L[a + i]
        BY <1>14, <2>1
      <3>2. {page.data[i] : i \in 1..d} \subseteq {L[k] : k \in (a + 1)..(a + d)}
        BY <2>3, <3>1
      <3>3. {L[k] : k \in (a + 1)..(a + d)} \subseteq {page.data[i] : i \in 1..d}
        BY ONLY <2>2, <2>5
      <3> QED
        BY <3>2, <3>3
    <2>7. \A i \in 1..d : page.data[i] \in 1..size
      <3>1. \A k \in 1..Len(L) : L[k] \in D
        BY <1>11
      <3>2. \A i \in 1..d : page.data[i] \in D
        BY <1>14, <2>1, <2>3, <3>1
      <3> QED
        BY <3>2 DEF D
    <2> QED
      BY <2>1, <2>4, <2>6, <2>7
  <1>16. Unbroken(L, limit, page, Range(page.data))
    <2>1. a \in 0..Len(L) /\ a + Len(page.data) \in 0..Len(L) /\ a <= a + Len(page.data)
      BY <1>3, <1>14
    <2> QED
      BY <1>9, <1>15, <2>1 DEF Unbroken
  <1>17. Forward(L, page, << >>) /\ << >> \in Seq(1..size)
    BY DEF Forward
  <1> QED
    BY <1>1, <1>2, <1>7, <1>9, <1>14, <1>15, <1>16, <1>17, QueryIsOne DEF Fits

LEMMA LstInvStep == LstInv /\ [ListNext]_listVars => LstInv'
  <1> SUFFICES ASSUME LstInv, [ListNext]_listVars PROVE LstInv'
    OBVIOUS
  <1>1. /\ size \in ListSizes /\ size \in Nat /\ Fits(query, shown, trail, seen)
        /\ query # NoQuery => QueryOK(query)
    BY ListAssumption DEF LstInv, Fits
  <1>2. ASSUME NEW q, NEW page, NEW path, NEW rows_, Show(q, page, path, rows_),
               Fits(q, page, path, rows_)
        PROVE  LstInv'
    <2>1. query' = q /\ shown' = page /\ size' = size /\ trail' = path /\ seen' = rows_
      BY <1>2 DEF Show
    <2> QED
      BY ONLY <1>1, <1>2, <2>1, FitsKept
  <1>3. ASSUME NEW kind \in Kinds, NEW type \in {"all", "deposit"}, NEW sortBy \in {"timestamp", "type"},
               NEW desc \in BOOLEAN, NEW limit \in LimitArgs, NEW from \in Boundaries,
               NEW to \in Boundaries, openList(kind, type, sortBy, desc, limit, from, to)
        PROVE  LstInv'
    <2> DEFINE range == parseUtcDateRange(from, to)
    <2>1. PICK q : q = [kind |-> kind, type |-> type, sortBy |-> sortBy, desc |-> desc,
                        limit |-> parsePaginationQuery(limit), range |-> range,
                        from |-> from, to |-> to]
      OBVIOUS
    <2>2. \/ range = << >> /\ Show(q, BadRange, << >>, {})
          \/ Show(q, Answer(q, 0, 0), Answer(q, 0, 0).data, Range(Answer(q, 0, 0).data))
      BY <1>3, <2>1 DEF openList
    <2>3. parsePaginationQuery(limit) \in Nat /\ parsePaginationQuery(limit) > 0
      BY ListAssumption DEF parsePaginationQuery
    <2>4. QueryOK(q)
      BY <2>1, <2>3 DEF QueryOK
    <2>5. CASE range = << >> /\ Show(q, BadRange, << >>, {})
      <3>1. ~BadRange.ok
        BY DEF BadRange, NoPage
      <3>2. Fits(q, BadRange, << >>, {})
        BY <2>4, <3>1 DEF Fits
      <3> QED
        BY <1>2, <2>5, <3>2
    <2>6. CASE Show(q, Answer(q, 0, 0), Answer(q, 0, 0).data, Range(Answer(q, 0, 0).data))
      <3>1. Fits(q, Answer(q, 0, 0), Answer(q, 0, 0).data, Range(Answer(q, 0, 0).data))
        BY <1>1, <2>4, OpenFits
      <3> QED
        BY <1>2, <2>6, <3>1
    <2> QED
      BY <2>2, <2>5, <2>6
  <1>4. CASE nextPage
    <2>1. PICK q : q = query
      OBVIOUS
    <2>2. PICK r : r = Answer(q, shown.next, 0)
      OBVIOUS
    <2>3. /\ query # NoQuery /\ shown.ok /\ shown.next # 0
          /\ Show(q, r, IF trail = << >> THEN << >> ELSE trail \o r.data, seen \union Range(r.data))
      BY <1>4, <2>1, <2>2 DEF nextPage, Browsing
    <2>4. PICK page : page = shown
      OBVIOUS
    <2>5. PICK path : path = trail
      OBVIOUS
    <2>6. PICK rows_ : rows_ = seen
      OBVIOUS
    <2>7. QueryOK(q) /\ Fits(q, page, path, rows_) /\ page.ok /\ page.next # 0 /\ r = Answer(q, page.next, 0)
      BY <1>1, <2>1, <2>2, <2>3, <2>4, <2>5, <2>6
    <2>8. Fits(q, r, IF path = << >> THEN << >> ELSE path \o r.data, rows_ \union Range(r.data))
      BY ONLY <1>1, <2>7, NextFits
    <2>9. Show(q, r, IF path = << >> THEN << >> ELSE path \o r.data, rows_ \union Range(r.data))
      BY <2>3, <2>5, <2>6
    <2> QED
      BY ONLY <1>2, <2>8, <2>9
  <1>5. CASE prevPage
    <2>1. PICK q : q = query
      OBVIOUS
    <2>2. PICK r : r = Answer(q, shown.prev, 0)
      OBVIOUS
    <2>3. /\ query # NoQuery /\ shown.ok /\ shown.prev # 0
          /\ Show(q, r, << >>, seen \union Range(r.data))
      BY <1>5, <2>1, <2>2 DEF prevPage, Browsing
    <2>4. PICK page : page = shown
      OBVIOUS
    <2>5. PICK path : path = trail
      OBVIOUS
    <2>6. PICK rows_ : rows_ = seen
      OBVIOUS
    <2>7. QueryOK(q) /\ Fits(q, page, path, rows_) /\ page.ok /\ page.prev # 0 /\ r = Answer(q, page.prev, 0)
      BY <1>1, <2>1, <2>2, <2>3, <2>4, <2>5, <2>6
    <2>8. Fits(q, r, << >>, rows_ \union Range(r.data))
      BY ONLY <1>1, <2>7, PrevFits
    <2>9. Show(q, r, << >>, rows_ \union Range(r.data))
      BY <2>3, <2>6
    <2> QED
      BY ONLY <1>2, <2>8, <2>9
  <1>6. ASSUME NEW type \in {"all", "deposit"}, refilter(type) PROVE LstInv'
    <2>1. PICK q : q = [query EXCEPT !.type = type]
      OBVIOUS
    <2>2. PICK c : c = shown.next
      OBVIOUS
    <2>3. /\ query # NoQuery /\ c # 0
          /\ Show(q, Answer(q, c, 0), << >>, Range(Answer(q, c, 0).data))
      BY <1>6, <2>1, <2>2 DEF refilter, Browsing
    <2>4. QueryOK(q)
      BY <1>1, <2>1, <2>3 DEF QueryOK
    <2>5. Fits(q, Answer(q, c, 0), << >>, Range(Answer(q, c, 0).data))
      BY ONLY <1>1, <2>3, <2>4, RefilterFits
    <2> QED
      BY <1>2, <2>3, <2>5
  <1>7. ASSUME NEW n \in 1..3, jumpTo(n) PROVE LstInv'
    <2>1. PICK q : q = query
      OBVIOUS
    <2>2. /\ query # NoQuery /\ q.kind = "transactions"
          /\ Show(q, Answer(q, 0, n), << >>, Range(Answer(q, 0, n).data))
      BY <1>7, <2>1 DEF jumpTo, Browsing
    <2>3. QueryOK(q)
      BY <1>1, <2>1, <2>2
    <2>4. Fits(q, Answer(q, 0, n), << >>, Range(Answer(q, 0, n).data))
      BY ONLY <1>1, <2>2, <2>3, JumpFits
    <2> QED
      BY <1>2, <2>2, <2>4
  <1>8. CASE UNCHANGED listVars
    <2>1. size' = size /\ query' = query /\ shown' = shown /\ trail' = trail /\ seen' = seen
      BY <1>8 DEF listVars
    <2>2. PICK q, page, path, rows_ : q = query /\ page = shown /\ path = trail /\ rows_ = seen
      OBVIOUS
    <2>3. /\ Fits(q, page, path, rows_)
          /\ query' = q /\ shown' = page /\ size' = size /\ trail' = path /\ seen' = rows_
      BY <1>1, <2>1, <2>2
    <2> QED
      BY ONLY <1>1, <2>3, FitsKept
  <1> QED
    BY <1>3, <1>4, <1>5, <1>6, <1>7, <1>8 DEF ListNext, Kinds

LEMMA ListsShown == LstInv => ListTypeOK /\ ForwardIsPrefix /\ NothingPassedOver
  <1> SUFFICES ASSUME LstInv PROVE ListTypeOK /\ ForwardIsPrefix /\ NothingPassedOver
    OBVIOUS
  <1>1. /\ size \in ListSizes /\ size \in Nat /\ Fits(query, shown, trail, seen)
        /\ query # NoQuery => QueryOK(query)
    BY ListAssumption DEF LstInv, Fits
  <1>2. PICK L : L = ItemsOf(query)
    OBVIOUS
  <1>3. Listed = L
    BY <1>2 DEF Listed, ItemsOf, RowsOf
  <1>4. Browsing => /\ Len(shown.data) <= query.limit /\ Unbroken(L, query.limit, shown, seen)
                    /\ Forward(L, shown, trail)
    BY <1>1, <1>2 DEF Browsing, Fits
  <1>5. ListTypeOK
    BY <1>1, <1>4 DEF ListTypeOK, Fits
  <1>6. NothingPassedOver
    <2>1. Browsing => \E i, j \in 0..Len(L) : seen = {L[k] : k \in (i + 1)..j}
      <3> SUFFICES ASSUME Browsing PROVE \E i, j \in 0..Len(L) : seen = {L[k] : k \in (i + 1)..j}
        OBVIOUS
      <3>1. PICK i \in 0..Len(L), j \in 0..Len(L) : seen = {L[k] : k \in (i + 1)..j}
        BY <1>4 DEF Unbroken
      <3> QED
        BY <3>1
    <2>2. Browsing => \E i, j \in 0..Len(Listed) : seen = {Listed[k] : k \in (i + 1)..j}
      BY ONLY <1>3, <2>1
    <2> QED
      BY ONLY <2>2 DEF NothingPassedOver
  <1>7. ASSUME Browsing, trail # << >>
        PROVE  IsPrefix(trail, Listed) /\ (shown.next = 0 => trail = Listed)
    <2>1. L \in Seq(1..size) /\ trail \in Seq(1..size) /\ Len(L) \in Nat
      <3>1. QueryOK(query)
        BY <1>1, <1>7 DEF Browsing
      <3> QED
        BY <1>1, <1>2, <3>1, AnswerAt DEF Fits
    <2>2. /\ Len(trail) \in 1..Len(L) /\ \A i \in 1..Len(trail) : trail[i] = L[i]
          /\ shown.next = 0 => Len(trail) = Len(L)
      BY <1>4, <1>7 DEF Forward
    <2> DEFINE D == 1..size
               t == trail
    <2>3. L \in Seq(D) /\ t \in Seq(D)
      BY <2>1
    <2> HIDE DEF D, t
    <2>4. \A n \in Nat : n <= Len(L) /\ n = Len(t) =>
             /\ SubSeq(t, 1, n) \in Seq(D) /\ SubSeq(L, 1, n) \in Seq(D)
             /\ Len(SubSeq(t, 1, n)) = n /\ Len(SubSeq(L, 1, n)) = n
             /\ \A i \in 1..n : SubSeq(t, 1, n)[i] = t[i] /\ SubSeq(L, 1, n)[i] = L[i]
      BY <2>3
    <2>5. \A x, y \in Seq(D) : Len(x) = Len(y) /\ (\A i \in 1..Len(x) : x[i] = y[i]) => x = y
      BY ONLY SeqEqual
    <2>6. Len(t) \in Nat /\ Len(t) <= Len(L) /\ \A i \in 1..Len(t) : t[i] = L[i]
      BY <2>1, <2>2 DEF t
    <2>7. SubSeq(t, 1, Len(t)) = SubSeq(L, 1, Len(t))
      BY <2>4, <2>5, <2>6
    <2>8. shown.next = 0 => t = L
      BY <2>2, <2>3, <2>5, <2>6 DEF t
    <2> QED
      BY <1>3, <2>6, <2>7, <2>8 DEF IsPrefix, t
  <1> QED
    BY <1>5, <1>6, <1>7 DEF ForwardIsPrefix

LEMMA PagesInvHolds == Spec => [](PgInv /\ DlInv /\ LstInv)
  <1>1. Init => PgInv /\ DlInv /\ LstInv
    BY PgInvInit, DlInvInit, LstInvInit DEF Init
  <1>2. PgInv /\ DlInv /\ LstInv /\ [Next]_vars => (PgInv /\ DlInv /\ LstInv)'
    BY PartsRun, PgInvStep, DlInvStep, LstInvStep
  <1> QED
    BY <1>1, <1>2, PTL DEF Spec

\* Whoever follows the cursors of a list misses nothing of it: the pages of a
\* collection in memory (paginateWithCursor), of a wallet's transactions while
\* rows are added (findPage), of a webhook's deliveries while they are made
\* (listWebhookDeliveryPage).
THEOREM PagesMissNone == Spec => []PagesMissNothing
  <1>1. PgInv /\ DlInv /\ LstInv => PagesMissNothing
    BY RowsAreGiven, DeliveriesShown, ListsShown DEF PagesMissNothing
  <1> QED
    BY <1>1, PagesInvHolds, PTL

-----------------------------------------------------------------------------
(* Types *)

\* The rest of the types: MInv has those of the stores.
ImpTyped ==
    /\ storageSet \in BOOLEAN /\ impPast \subseteq ImpSessions /\ impFaults \in 0..MaxImpFaults

LEMMA ImpTypedInit == ImpInit => ImpTyped
  BY ImpAssumption DEF ImpInit, ImpTyped

LEMMA ImpTypedStep == ImpTyped /\ [ImpNext]_impVars => ImpTyped'
  <1> SUFFICES ASSUME ImpTyped, [ImpNext]_impVars PROVE ImpTyped'
    OBVIOUS
  <1>1. ASSUME NEW a, DbAnswers(a) PROVE impFaults' \in 0..MaxImpFaults
    BY <1>1, ImpAssumption DEF ImpTyped, DbAnswers
  <1>2. storageSet' = storageSet
    BY DEF ImpNext, impRestart, ImpExpires, startImpersonationSession, persistSession, appendLedgerEntry,
       ImpRead, endImpersonationSession, validateImpersonationSession, viewWithoutSession, ImpShow, impVars
  <1>3. impPast' \subseteq ImpSessions
    BY DEF ImpTyped, ImpNext, impRestart, ImpExpires, startImpersonationSession, persistSession,
       appendLedgerEntry, ImpRead, endImpersonationSession, validateImpersonationSession,
       viewWithoutSession, ImpShow, impVars
  <1>4. impFaults' \in 0..MaxImpFaults
    BY <1>1 DEF ImpTyped, ImpNext, impRestart, ImpExpires, startImpersonationSession, persistSession,
       appendLedgerEntry, ImpRead, endImpersonationSession, validateImpersonationSession,
       viewWithoutSession, ImpShow, impVars
  <1> QED
    BY <1>2, <1>3, <1>4 DEF ImpTyped

LEMMA ImpIsTyped == MInv /\ ImpTyped => ImpTypeOK
  BY DEF MInv, StoresNoted, ImpTyped, ImpTypeOK

\* A key whose event is awaited has its place in the trail.
KeysCounted ==
    /\ KeyTypeOK /\ IsFiniteSet(DOMAIN keyCalls)
    /\ Len(keyEvents) + Cardinality(DOMAIN keyCalls) <= MaxKeyEvents

LEMMA KeysCountedInit == KeyInit => KeysCounted
  <1> SUFFICES ASSUME KeyInit PROVE KeysCounted
    OBVIOUS
  <1>1. DOMAIN keyCalls = {} /\ Len(keyEvents) = 0 /\ DOMAIN keyEvents = {}
    BY DEF KeyInit
  <1>2. IsFiniteSet({}) /\ Cardinality({}) = 0
    BY FS_EmptySet
  <1> QED
    BY <1>1, <1>2, KeysAssumption DEF KeyInit, KeysCounted, KeyTypeOK

LEMMA KeysCountedStep == KInv /\ KeysCounted /\ [KeyNext]_keyVars => KeysCounted'
  <1> SUFFICES ASSUME KInv, KeysCounted, [KeyNext]_keyVars PROVE KeysCounted'
    OBVIOUS
  <1> DEFINE C == DOMAIN keyCalls
  <1>a. /\ keyEvents \in Seq([action : KeyOps, key : ApiKeys_]) /\ Len(keyEvents) \in Nat
        /\ \A c \in C : keyCalls[c] \in KeyCallRec
        /\ apiKeys \subseteq ApiKeys_ /\ keyOverlap \subseteq ApiKeys_ /\ C \subseteq KeyCalls
        /\ IsFiniteSet(C) /\ Len(keyEvents) + Cardinality(C) <= MaxKeyEvents
        /\ keyFaults \in 0..MaxKeyFaults
    BY DEF KInv, KeyTyped, KeysCounted, KeyTypeOK
  <1>b. Cardinality(C) \in Nat
    BY <1>a, FS_CardinalityType
  <1>c. ASSUME NEW c \in KeyCalls
        PROVE  /\ IsFiniteSet(C \cup {c}) /\ IsFiniteSet(C \ {c})
               /\ c \notin C => Cardinality(C \cup {c}) = Cardinality(C) + 1
               /\ c \in C => Cardinality(C \ {c}) = Cardinality(C) - 1
    BY <1>a, FS_AddElement, FS_RemoveElement
  <1>t. ASSUME keyEvents' \in Seq([action : KeyOps, key : ApiKeys_]), apiKeys' \subseteq ApiKeys_,
               keyOverlap' \subseteq ApiKeys_, DOMAIN keyCalls' \subseteq KeyCalls,
               keyFaults' \in 0..MaxKeyFaults, IsFiniteSet(DOMAIN keyCalls'),
               Len(keyEvents') + Cardinality(DOMAIN keyCalls') <= MaxKeyEvents
        PROVE  KeysCounted'
    <2>1. Cardinality(DOMAIN keyCalls') \in Nat /\ Len(keyEvents') \in Nat
      BY <1>t, FS_CardinalityType
    <2>2. Len(keyEvents') <= MaxKeyEvents
      BY <1>t, <2>1, KeysAssumption
    <2> DEFINE E == [action : KeyOps, key : ApiKeys_]
               w == keyEvents'
    <2>s. w \in Seq(E)
      BY <1>t
    <2> HIDE DEF E, w
    <2>e. \A i \in DOMAIN w : w[i] \in E
      BY <2>s
    <2>3. \A i \in DOMAIN keyEvents' : keyEvents'[i] \in [action : KeyOps, key : ApiKeys_]
      BY <2>e DEF E, w
    <2> QED
      BY <1>t, <2>2, <2>3 DEF KeysCounted, KeyTypeOK, KeyOps
  <1>1. ASSUME NEW c \in KeyCalls, NEW op \in KeyOps, NEW key \in ApiKeys_, NEW old \in ApiKeys_,
               awaitEvent(c, op, key, old), apiKeys' \subseteq ApiKeys_
        PROVE  KeysCounted'
    <2>1. /\ c \notin C /\ Len(keyEvents) + Cardinality(C) < MaxKeyEvents
          /\ DOMAIN keyCalls' = C \cup {c} /\ UNCHANGED <<keyEvents, keyFaults>>
          /\ keyOverlap' \subseteq keyOverlap \cup {key, old}
      BY <1>1 DEF awaitEvent, Hands
    <2>2. Len(keyEvents) + Cardinality(C \cup {c}) <= MaxKeyEvents
      <3> HIDE DEF C
      <3>1. Cardinality(C \cup {c}) = Cardinality(C) + 1
        BY <1>c, <2>1
      <3> QED
        BY <1>a, <1>b, <2>1, <3>1, KeysAssumption
    <2> QED
      BY <1>1, <1>a, <1>c, <1>t, <2>1, <2>2
  <1>2. ASSUME NEW c \in KeyCalls, recordApiKeyAuditEvent(c) PROVE KeysCounted'
    <2> DEFINE e == [action |-> keyCalls[c].op, key |-> keyCalls[c].key]
    <2>1. /\ c \in C /\ keyEvents' = Append(keyEvents, e) /\ DOMAIN keyCalls' = C \ {c}
          /\ UNCHANGED <<apiKeys, keyOverlap, keyFaults>>
      BY <1>2 DEF recordApiKeyAuditEvent
    <2>2. e \in [action : KeyOps, key : ApiKeys_]
      BY <1>a, <2>1 DEF KeyCallRec
    <2> HIDE DEF e
    <2>3. keyEvents' \in Seq([action : KeyOps, key : ApiKeys_]) /\ Len(keyEvents') = Len(keyEvents) + 1
      BY <1>a, <2>1, <2>2
    <2>4. Len(keyEvents') + Cardinality(C \ {c}) <= MaxKeyEvents
      <3> HIDE DEF C
      <3>1. Cardinality(C \ {c}) = Cardinality(C) - 1
        BY <1>c, <2>1
      <3> QED
        BY <1>a, <1>b, <2>3, <3>1, KeysAssumption
    <2> QED
      BY <1>a, <1>c, <1>t, <2>1, <2>3, <2>4
  <1>3. ASSUME NEW c \in KeyCalls, eventRefused(c) PROVE KeysCounted'
    <2>1. /\ c \in C /\ DOMAIN keyCalls' = C \ {c} /\ UNCHANGED <<keyEvents, keyOverlap>>
          /\ keyFaults < MaxKeyFaults /\ keyFaults' = keyFaults + 1
          /\ apiKeys' = undone(keyCalls[c])
      BY <1>3 DEF eventRefused
    <2>2. keyCalls[c] \in KeyCallRec
      BY <1>a, <2>1
    <2>3. apiKeys' \subseteq ApiKeys_
      BY <1>a, <2>1, <2>2 DEF undone, KeyCallRec, KeyOps
    <2>4. keyFaults' \in 0..MaxKeyFaults
      BY <1>a, <2>1, KeysAssumption
    <2>5. Len(keyEvents) + Cardinality(C \ {c}) <= MaxKeyEvents
      <3> HIDE DEF C
      <3>1. Cardinality(C \ {c}) = Cardinality(C) - 1
        BY <1>c, <2>1
      <3> QED
        BY <1>a, <1>b, <3>1, KeysAssumption
    <2> QED
      BY <1>a, <1>c, <1>t, <2>1, <2>3, <2>4, <2>5
  <1>4. CASE UNCHANGED keyVars
    BY <1>4, <1>a, <1>t DEF keyVars
  <1>5. ASSUME NEW c \in KeyCalls, NEW key \in ApiKeys_, postRegister(c, key) \/ postRevoke(c, key)
        PROVE  KeysCounted'
    BY <1>1, <1>5, <1>a DEF postRegister, postRevoke, registerApiKey, revokeApiKey, KeyOps
  <1>6. ASSUME NEW c \in KeyCalls, NEW key \in ApiKeys_, NEW old \in ApiKeys_, postRotate(c, old, key)
        PROVE  KeysCounted'
    BY <1>1, <1>6, <1>a DEF postRotate, rotateApiKey, KeyOps
  <1> QED
    BY <1>2, <1>3, <1>4, <1>5, <1>6 DEF KeyNext

\* How many changes there are, and what the trail is about.
AdBounded ==
    /\ auditMode \in {"memory", "prisma", "hybrid"}
    /\ Len(adChanges) <= MaxChanges /\ auditDb \cup auditMem \subseteq 1..Len(adChanges)
    /\ DOMAIN adCalls \subseteq AdCalls /\ adFaults \in 0..MaxAdFaults

LEMMA AdBoundedInit == AdInit => AdBounded
  BY ChangesAssumption DEF AdInit, AdBounded

LEMMA AdBoundedStep == AdInv /\ AdBounded /\ [AdNext]_adVars => AdBounded'
  <1> SUFFICES ASSUME AdInv, AdBounded, [AdNext]_adVars PROVE AdBounded'
    OBVIOUS
  <1>a. /\ adChanges \in Seq([item : AdItems, on : BOOLEAN]) /\ Len(adChanges) \in Nat
        /\ \A c \in DOMAIN adCalls : adCalls[c].change \in 1..Len(adChanges)
    BY DEF AdInv, AdTyped
  <1>r. Refused => adFaults' \in 0..MaxAdFaults
    BY ChangesAssumption DEF Refused, AdBounded
  <1>c. Crash => AdBounded'
    <2> SUFFICES ASSUME Crash PROVE AdBounded'
      OBVIOUS
    <2>1. Refused /\ auditMem' = {} /\ adCalls' = << >> /\ UNCHANGED <<auditMode, adChanges, auditDb>>
      BY DEF Crash
    <2>2. DOMAIN adCalls' = {}
      BY <2>1
    <2> QED
      BY <1>r, <2>1, <2>2 DEF AdBounded
  <1>1. ASSUME NEW c \in AdCalls, NEW item \in AdItems, NEW on \in BOOLEAN, NEW at, Change(c, item, on, at)
        PROVE  AdBounded'
    <2> DEFINE e == [item |-> item, on |-> on]
               n == Len(adChanges) + 1
    <2>1. /\ n <= MaxChanges /\ adChanges' = Append(adChanges, e) /\ DOMAIN adCalls' = DOMAIN adCalls \cup {c}
          /\ UNCHANGED <<auditMode, auditDb, auditMem, adFaults>>
      BY <1>1 DEF Change
    <2>2. e \in [item : AdItems, on : BOOLEAN]
      OBVIOUS
    <2> HIDE DEF e
    <2>3. Len(adChanges') = n /\ \A m \in 1..Len(adChanges) : m \in 1..n
      BY <1>a, <2>1, <2>2
    <2> HIDE DEF n
    <2> QED
      BY <2>1, <2>3 DEF AdBounded
  <1>2. ASSUME NEW w \in AdWallets, getActiveOverride(w) PROVE AdBounded'
    BY <1>2 DEF getActiveOverride, AdBounded
  <1>3. ASSUME NEW c \in AdCalls, generateAdminReceipt(c) PROVE AdBounded'
    BY <1>3 DEF generateAdminReceipt, AdBounded
  <1>f. ASSUME NEW c PROVE DOMAIN Forget(c) \subseteq DOMAIN adCalls
    BY DEF Forget
  <1>4. ASSUME NEW c \in AdCalls, receiptRefused(c) PROVE AdBounded'
    <2>1. CASE Crash
      BY <1>c, <2>1
    <2>2. CASE ~Crash
      <3>1. /\ Refused /\ DOMAIN adCalls' \subseteq DOMAIN adCalls
            /\ UNCHANGED <<auditMode, adChanges, auditDb, auditMem>>
        BY <1>4, <1>f, <2>2 DEF receiptRefused
      <3> QED
        BY <1>r, <3>1 DEF AdBounded
    <2> QED
      BY <2>1, <2>2
  <1>5. ASSUME NEW c \in AdCalls, recordAdminAuditLog(c) PROVE AdBounded'
    <2>1. /\ c \in DOMAIN adCalls /\ auditDb' \subseteq auditDb \cup {adCalls[c].change}
          /\ auditMem' \subseteq auditMem \cup {adCalls[c].change}
          /\ DOMAIN adCalls' \subseteq DOMAIN adCalls /\ UNCHANGED <<auditMode, adChanges, adFaults>>
      BY <1>5, <1>f DEF recordAdminAuditLog
    <2> QED
      BY <1>a, <2>1 DEF AdBounded
  <1>6. ASSUME NEW c \in AdCalls, auditRefused(c) PROVE AdBounded'
    <2>1. CASE Crash
      BY <1>c, <2>1
    <2>2. CASE ~Crash
      <3>1. /\ c \in DOMAIN adCalls /\ Refused /\ auditMem' = auditMem \cup {adCalls[c].change}
            /\ DOMAIN adCalls' \subseteq DOMAIN adCalls /\ UNCHANGED <<auditMode, adChanges, auditDb>>
        BY <1>6, <1>f, <2>2 DEF auditRefused
      <3> QED
        BY <1>a, <1>r, <3>1 DEF AdBounded
    <2> QED
      BY <2>1, <2>2
  <1>7. CASE UNCHANGED adVars
    BY <1>7 DEF adVars, AdBounded
  <1>8. ASSUME NEW c \in AdCalls, NEW on \in BOOLEAN, postMaintenance(c, on) PROVE AdBounded'
    BY <1>1, <1>8 DEF postMaintenance, AdItems
  <1>9. ASSUME NEW c \in AdCalls, NEW w \in AdWallets,
               postAllowlistAdd(c, w) \/ deleteAllowlistRemove(c, w) \/ postWithdrawalOverride(c, w)
        PROVE  AdBounded'
    <2>1. <<"allow", w>> \in AdItems /\ <<"override", w>> \in AdItems
      BY DEF AdItems
    <2> QED
      BY <1>1, <1>9, <2>1 DEF postAllowlistAdd, deleteAllowlistRemove, postWithdrawalOverride
  <1>10. ASSUME NEW c \in AdCalls, postApyBackfill(c) \/ postEventsReplay(c) PROVE AdBounded'
    <2>1. <<"backfill">> \in AdItems /\ <<"replay">> \in AdItems
      BY DEF AdItems, DbItems
    <2> QED
      BY <1>1, <1>10, <2>1 DEF postApyBackfill, postEventsReplay
  <1> QED
    BY <1>2, <1>3, <1>4, <1>5, <1>6, <1>7, <1>8, <1>9, <1>10 DEF AdNext

LEMMA AdIsTyped == AdInv /\ AdBounded => AdTypeOK
  <1> SUFFICES ASSUME AdInv, AdBounded PROVE AdTypeOK
    OBVIOUS
  <1>a. /\ adChanges \in Seq([item : AdItems, on : BOOLEAN]) /\ Len(adChanges) \in Nat
        /\ inForce \in [AdItems -> [on : BOOLEAN, by : Nat]]
        /\ \A i \in AdItems : inForce[i].by # 0 => inForce[i].by \in 1..Len(adChanges)
        /\ \A c \in DOMAIN adCalls : /\ adCalls[c] \in [at : {"receipt", "audit"}, change : Nat]
                                     /\ adCalls[c].change \in 1..Len(adChanges)
        /\ receipts \in Seq(Nat) /\ \A i \in DOMAIN receipts : receipts[i] \in 1..Len(adChanges)
        /\ lostAt \in Nat /\ lostAt <= Len(adChanges)
    BY DEF AdInv, AdTyped
  <1>b. Len(adChanges) <= MaxChanges /\ MaxChanges \in Nat
    BY ChangesAssumption DEF AdBounded
  <1>1. \A m \in 1..Len(adChanges) : m \in 1..MaxChanges /\ m \in 0..MaxChanges
    BY <1>a, <1>b
  <1>2. inForce \in [AdItems -> [on : BOOLEAN, by : 0..MaxChanges]]
    <2>1. \A i \in AdItems : inForce[i] \in [on : BOOLEAN, by : 0..MaxChanges]
      <3> SUFFICES ASSUME NEW i \in AdItems PROVE inForce[i] \in [on : BOOLEAN, by : 0..MaxChanges]
        OBVIOUS
      <3>1. inForce[i] \in [on : BOOLEAN, by : Nat] /\ inForce[i].by \in 0..MaxChanges
        BY <1>a, <1>b, <1>1
      <3> QED
        BY <3>1
    <2> QED
      BY <1>a, <2>1
  <1>3. \A c \in DOMAIN adCalls : adCalls[c] \in [at : {"receipt", "audit"}, change : 1..MaxChanges]
    <2> SUFFICES ASSUME NEW c \in DOMAIN adCalls
                 PROVE  adCalls[c] \in [at : {"receipt", "audit"}, change : 1..MaxChanges]
      OBVIOUS
    <2>1. adCalls[c] \in [at : {"receipt", "audit"}, change : Nat] /\ adCalls[c].change \in 1..MaxChanges
      BY <1>a, <1>1
    <2> QED
      BY <2>1
  <1>4. DOMAIN adChanges = 1..Len(adChanges)
    BY <1>a
  <1>5. ToSet(receipts) \subseteq 1..Len(adChanges)
    BY <1>a DEF ToSet
  <1>6. \A i \in DOMAIN adChanges : adChanges[i] \in [item : AdItems, on : BOOLEAN]
    <2> DEFINE E == [item : AdItems, on : BOOLEAN]
    <2>1. adChanges \in Seq(E)
      BY <1>a
    <2> HIDE DEF E
    <2>2. \A i \in DOMAIN adChanges : adChanges[i] \in E
      BY <2>1
    <2> QED
      BY <2>2 DEF E
  <1>7. lostAt \in 0..MaxChanges
    BY <1>a, <1>b
  <1> QED
    BY <1>2, <1>3, <1>4, <1>5, <1>6, <1>7 DEF AdTypeOK, AdBounded

\* A request that has not been refused or admitted is none yet.
PipeBounded ==
    /\ maint \in BOOLEAN /\ approved \in BOOLEAN /\ flagged \in BOOLEAN
    /\ arrivals \in 0..MaxArrivals

LEMMA PipeBoundedInit == PipeInit => PipeBounded
  <1>1. 0 \in 0..MaxArrivals
    BY PipeAssumption
  <1> QED
    BY <1>1 DEF PipeInit, PipeBounded

LEMMA PipeBoundedStep == PipeBounded /\ [PipeNext]_pipeVars => PipeBounded'
  <1> SUFFICES ASSUME PipeBounded, [PipeNext]_pipeVars PROVE PipeBounded'
    OBVIOUS
  <1>1. \A r : refuse(r) => PipeBounded'
    BY PipeAssumption DEF refuse, PipeBounded
  <1>2. ASSUME NEW s \in PipeSlots, NEW r, NEW on \in BOOLEAN, admit(s, r, on) PROVE PipeBounded'
    <2>1. /\ arrivals < MaxArrivals /\ arrivals' = arrivals + 1 /\ UNCHANGED flagged
          /\ maint' \in {maint, on} /\ approved' \in {approved, on}
      BY <1>2 DEF admit
    <2>2. arrivals' \in 0..MaxArrivals
      BY <2>1, PipeAssumption DEF PipeBounded
    <2> QED
      BY <2>1, <2>2 DEF PipeBounded
  <1>3. \A s, b : signed(s, b) \/ pipeRespond(s, b) => PipeBounded'
    BY DEF signed, pipeRespond, PipeBounded
  <1>4. editFlags \/ UNCHANGED pipeVars => PipeBounded'
    BY DEF editFlags, pipeVars, PipeBounded
  <1> QED
    BY <1>1, <1>2, <1>3, <1>4 DEF PipeNext

LEMMA PipeIsTyped == PipeInv /\ PipeBounded => PipeTypeOK
  <1> SUFFICES ASSUME PipeInv, PipeBounded PROVE PipeTypeOK
    OBVIOUS
  <1>1. Len(auditLog) <= AuditRetention
    <2>1. Len(ended) \in Nat /\ Len(auditLog) = Kept(Len(ended))
      BY DEF PipeInv
    <2> QED
      BY <2>1, PipeAssumption DEF Kept
  <1>2. \A s \in PipeSlots : slot[s].at \in {"free", "signing", "handling"}
    BY DEF PipeInv, SlotRec
  <1> QED
    BY <1>1, <1>2 DEF PipeTypeOK, PipeBounded

LEMMA OthersTyped ==
    /\ NInv => NonceTypeOK
    /\ LInv => LimTypeOK
    /\ PgInv => PageTypeOK
    /\ CInv /\ RelationTyped /\ YInv => RefTypeOK
    /\ HeldInv /\ BulkInv => ExportTypeOK
  <1>1. PgInv => PageTypeOK
    BY DEF PgInv, PageTypeOK
  <1>2. CInv /\ RelationTyped /\ YInv => RefTypeOK
    BY DEF CInv, RelationTyped, YInv, RefTypeOK, CodeCall, Range
  <1>3. HeldInv /\ BulkInv => ExportTypeOK
    <2> SUFFICES ASSUME HeldInv, BulkInv PROVE ExportTypeOK
      OBVIOUS
    <2> DEFINE E == [wallet : ExportWallets, checksum : Artifact]
    <2>1. exportRows \in Seq(E)
      BY DEF HeldInv
    <2>2. \A x \in E : x.wallet \in ExportWallets /\ x.checksum.wallet \in ExportWallets
      BY DEF Artifact
    <2> HIDE DEF E
    <2>3. \A i \in DOMAIN exportRows : exportRows[i] \in E
      BY <2>1
    <2> QED
      BY <2>2, <2>3 DEF ExportTypeOK, BulkInv
  <1> QED
    BY <1>1, <1>2, <1>3 DEF NInv, LInv

LEMMA DeliveriesTyped == DlInv => DlTypeOK
  <1> SUFFICES ASSUME DlInv PROVE DlTypeOK
    OBVIOUS
  <1>1. /\ made \in Seq(Delivery) /\ \A i, j \in DOMAIN made : made[i] = made[j] => i = j
        /\ reading.cursor = <<>> \/ \E c \in Delivery : reading.cursor = <<c>>
    BY DEF DlInv
  <1> DEFINE n == Len(made)
  <1>2. n \in Nat /\ DOMAIN made = 1..n /\ \A i \in 1..n : made[i] \in Delivery
    BY <1>1
  <1>3. ToSet(made) = {made[i] : i \in 1..n}
    BY <1>2 DEF ToSet
  <1> DEFINE f == [i \in 1..n |-> made[i]]
  <1> HIDE DEF n
  <1>4. f \in Surjection(1..n, ToSet(made)) /\ f \in Injection(1..n, ToSet(made))
    <2>1. \A i \in 1..n : made[i] \in ToSet(made)
      BY <1>3
    <2>2. f \in [1..n -> ToSet(made)]
      BY <2>1
    <2>3. \A i, j \in 1..n : f[i] = f[j] => i = j
      BY <1>1, <1>2
    <2>4. \A x \in ToSet(made) : \E i \in 1..n : f[i] = x
      BY <1>3
    <2> HIDE DEF f
    <2> QED
      BY <2>2, <2>3, <2>4 DEF Surjection, Injection, IsInjective
  <1>5. IsFiniteSet(1..n) /\ Cardinality(1..n) = n
    BY <1>2, FS_Interval
  <1> HIDE DEF f
  <1>6. Cardinality(ToSet(made)) = n
    <2>1. Cardinality(ToSet(made)) = Cardinality(1..n)
      BY ONLY <1>4, <1>5, FS_Surjection
    <2> QED
      BY <1>5, <2>1
  <1>7. ToSet(made) \subseteq Delivery
    BY <1>2, <1>3
  <1> QED
    BY <1>1, <1>6, <1>7 DEF DlTypeOK, DlInv, n

\* The operations whose row may be in the database.
Ended == {w \in CacheWrites : cacheWrites[w] \notin {<<"todo">>, <<"begun">>}}

\* There is a version for every operation whose row is in, at most, and of
\* every version one operation, which has not been settled.
VersionsTold ==
    /\ dataVersion <= 1 + Cardinality(Ended)
    /\ \A w \in CacheWrites, v \in Nat :
          WrittenBy(w, v) => v \in 2..dataVersion /\ v \notin DOMAIN cleaned \cup unclean
    /\ \A w, u \in CacheWrites, v \in Nat : WrittenBy(w, v) /\ WrittenBy(u, v) => w = u
    /\ DOMAIN cleaned \cup unclean \subseteq 2..dataVersion /\ DOMAIN cleaned \cap unclean = {}

\* The store is within its limit, and what is in it or read for it is of a
\* version there has been.
CacheBounded ==
    /\ cacheNow \in 0..CacheMaxTime
    /\ IsFiniteSet(DOMAIN cacheStore) /\ Cardinality(DOMAIN cacheStore) <= CacheMax
    /\ \A k \in DOMAIN cacheStore : cacheStore[k] \in CacheEntry
    /\ DOMAIN cacheReads \subseteq CacheReads
    /\ \A r \in DOMAIN cacheReads : cacheReads[r].version <= dataVersion
    /\ VersionsTold

LEMMA CacheBoundedInit == CacheInit => CacheBounded
  <1> SUFFICES ASSUME CacheInit PROVE CacheBounded
    OBVIOUS
  <1>1. Ended = {} /\ DOMAIN cacheStore = {} /\ DOMAIN cacheReads = {}
    BY DEF CacheInit, Ended
  <1>2. IsFiniteSet({}) /\ Cardinality({}) = 0
    BY FS_EmptySet
  <1> QED
    BY <1>1, <1>2, CacheAssumption DEF CacheInit, CacheBounded, VersionsTold, WrittenBy

\* As many versions as operations have a row.
LEMMA VersionsCounted ==
    ASSUME RInv, CacheBounded
    PROVE  /\ IsFiniteSet(Ended) /\ Cardinality(Ended) \in Nat /\ Cardinality(CacheWrites) \in Nat
           /\ dataVersion \in 1..(1 + Cardinality(CacheWrites))
  <1>1. Ended \subseteq CacheWrites /\ IsFiniteSet(CacheWrites)
    BY CacheAssumption DEF Ended
  <1>2. IsFiniteSet(Ended) /\ Cardinality(Ended) <= Cardinality(CacheWrites)
    BY <1>1, FS_Subset
  <1>3. Cardinality(Ended) \in Nat /\ Cardinality(CacheWrites) \in Nat
    BY <1>1, <1>2, FS_CardinalityType
  <1>4. dataVersion \in Nat \ {0} /\ dataVersion <= 1 + Cardinality(Ended)
    BY DEF RInv, CacheBounded, VersionsTold
  <1> QED
    BY <1>2, <1>3, <1>4

\* The store loses entries, or entries are marked as used.
LEMMA StoreBounded ==
    ASSUME RInv, CacheBounded, DOMAIN cacheStore' \subseteq DOMAIN cacheStore,
           \A k \in DOMAIN cacheStore' :
               cacheStore'[k] = cacheStore[k] \/ cacheStore'[k] = [cacheStore[k] EXCEPT !.lastUsed = cacheNow]
    PROVE  /\ IsFiniteSet(DOMAIN cacheStore') /\ Cardinality(DOMAIN cacheStore') <= CacheMax
           /\ \A k \in DOMAIN cacheStore' : cacheStore'[k] \in CacheEntry
  <1> DEFINE D == DOMAIN cacheStore
             E == DOMAIN cacheStore'
  <1>1. IsFiniteSet(D) /\ Cardinality(D) <= CacheMax /\ E \subseteq D
        /\ \A k \in D : cacheStore[k] \in CacheEntry
        /\ cacheNow \in 0..CacheMaxTime
    BY DEF CacheBounded
  <1>2. \A k \in E : cacheStore'[k] \in CacheEntry
    <2> SUFFICES ASSUME NEW k \in E PROVE cacheStore'[k] \in CacheEntry
      OBVIOUS
    <2>1. cacheStore[k] \in CacheEntry
      BY <1>1
    <2>2. CASE cacheStore'[k] = cacheStore[k]
      BY <2>1, <2>2
    <2>3. CASE cacheStore'[k] = [cacheStore[k] EXCEPT !.lastUsed = cacheNow]
      BY <1>1, <2>1, <2>3 DEF CacheEntry
    <2> QED
      BY <2>2, <2>3
  <1> HIDE DEF D, E
  <1>3. IsFiniteSet(E) /\ Cardinality(E) <= Cardinality(D)
    BY <1>1, FS_Subset
  <1>4. Cardinality(E) \in Nat /\ Cardinality(D) \in Nat /\ CacheMax \in Nat
    BY <1>1, <1>3, FS_CardinalityType, CacheAssumption
  <1>5. Cardinality(E) <= CacheMax
    BY <1>1, <1>3, <1>4
  <1> QED
    BY <1>2, <1>3, <1>5 DEF E

\* There is room in the store for one answer more, whatever is evicted for it.
LEMMA StoreHasRoom ==
    ASSUME CacheBounded, NEW key \in CacheKeys, NEW e \in CacheEntry, cacheSet(key, e)
    PROVE  /\ IsFiniteSet(DOMAIN cacheStore') /\ Cardinality(DOMAIN cacheStore') <= CacheMax
           /\ \A k \in DOMAIN cacheStore' : cacheStore'[k] \in CacheEntry
  <1> DEFINE D == DOMAIN cacheStore
  <1>1. PICK kept \in Room(key) :
            cacheStore' = [k \in kept \cup {key} |-> IF k = key THEN e ELSE cacheStore[k]]
    BY DEF cacheSet
  <1>2. IsFiniteSet(D) /\ Cardinality(D) <= CacheMax /\ \A k \in D : cacheStore[k] \in CacheEntry
    BY DEF CacheBounded
  <1>3. kept \subseteq D /\ DOMAIN cacheStore' = kept \cup {key}
    BY <1>1 DEF Room
  <1>4. \A k \in DOMAIN cacheStore' : cacheStore'[k] \in CacheEntry
    BY <1>1, <1>2, <1>3
  <1>5. Cardinality(D) \in Nat /\ CacheMax \in Nat
    BY <1>2, FS_CardinalityType, CacheAssumption
  <1>6. IsFiniteSet(kept) /\ Cardinality(kept) \in Nat /\ IsFiniteSet(kept \cup {key})
    BY <1>2, <1>3, FS_Subset, FS_CardinalityType, FS_AddElement
  <1>7. Cardinality(kept \cup {key}) <= CacheMax
    <2>1. CASE key \in D
      <3>1. kept = D /\ kept \cup {key} = D
        BY <1>1, <2>1 DEF Room
      <3> QED
        BY <1>2, <3>1
    <2>2. CASE key \notin D /\ Cardinality(D) < CacheMax
      <3>1. kept = D
        BY <1>1, <2>2 DEF Room
      <3>2. Cardinality(kept \cup {key}) = Cardinality(kept) + 1
        BY <1>6, <2>2, <3>1, FS_AddElement
      <3> QED
        BY <1>5, <2>2, <3>1, <3>2
    <2>3. CASE key \notin D /\ ~(Cardinality(D) < CacheMax)
      <3>1. PICK old \in evictLru : kept = D \ {old}
        BY <1>1, <2>3 DEF Room
      <3>2. old \in D /\ key \notin kept
        BY <2>3, <3>1 DEF evictLru
      <3>3. Cardinality(kept) = Cardinality(D) - 1
        BY <1>2, <3>1, <3>2, FS_RemoveElement
      <3>4. Cardinality(kept \cup {key}) = Cardinality(kept) + 1
        BY <1>6, <3>2, FS_AddElement
      <3> HIDE DEF D
      <3> QED
        BY <1>2, <1>5, <3>3, <3>4
    <2> QED
      BY <2>1, <2>2, <2>3
  <1> QED
    BY <1>3, <1>4, <1>6, <1>7

LEMMA OperationTold ==
    ASSUME RInv, CacheBounded, NEW w \in CacheWrites,
           invalidateReadCaches(w) \/ operationWrites(w) \/ operationSucceeds(w) \/ operationFails(w)
    PROVE  VersionsTold' /\ dataVersion' >= dataVersion
  <1>a. /\ dataVersion \in Nat \ {0} /\ cacheWrites \in [CacheWrites -> WriteStates]
        /\ IsFiniteSet(Ended) /\ Cardinality(Ended) \in Nat
    BY VersionsCounted DEF RInv
  <1>b. VersionsTold
    BY DEF CacheBounded
  <1>1. CASE invalidateReadCaches(w)
    <2>1. /\ cacheWrites[w] = <<"todo">> /\ cacheWrites' = [cacheWrites EXCEPT ![w] = <<"begun">>]
          /\ UNCHANGED <<dataVersion, cleaned, unclean>>
      BY <1>1 DEF invalidateReadCaches, writeHistory
    <2>2. Ended' = Ended
      BY <1>a, <2>1 DEF Ended
    <2>3. \A u \in CacheWrites, v \in Nat : WrittenBy(u, v)' => WrittenBy(u, v)
      BY <1>a, <2>1 DEF WrittenBy
    <2> QED
      BY <1>b, <1>a, <2>1, <2>2, <2>3 DEF VersionsTold
  <1>2. CASE operationWrites(w)
    <2> DEFINE n == dataVersion + 1
    <2>1. /\ cacheWrites[w] = <<"begun">> /\ dataVersion' = n
          /\ cacheWrites' = [cacheWrites EXCEPT ![w] = <<"written", n>>]
          /\ UNCHANGED <<cleaned, unclean>>
      BY <1>2 DEF operationWrites, writeHistory
    <2>2. w \notin Ended /\ Ended' = Ended \cup {w}
      BY <1>a, <2>1 DEF Ended
    <2>3. Cardinality(Ended \cup {w}) = Cardinality(Ended) + 1
      BY <1>a, <2>2, FS_AddElement
    <2>4. n \in Nat /\ n > dataVersion /\ n \in 2..n /\ n \notin 2..dataVersion
          /\ 2..dataVersion \subseteq 2..n /\ n >= dataVersion
      BY <1>a
    <2>5. n <= 1 + Cardinality(Ended')
      BY <1>b, <1>a, <2>2, <2>3 DEF VersionsTold
    <2> HIDE DEF n
    <2>6. \A u \in CacheWrites, v \in Nat : WrittenBy(u, v)' => (u = w /\ v = n) \/ (u # w /\ WrittenBy(u, v))
      BY <1>a, <2>1 DEF WrittenBy
    <2>7. n \notin DOMAIN cleaned \cup unclean
      BY <1>b, <2>4 DEF VersionsTold
    <2>8. \A u \in CacheWrites, v \in Nat :
              WrittenBy(u, v)' => v \in 2..n /\ v \notin DOMAIN cleaned \cup unclean
      BY <1>b, <2>4, <2>6, <2>7 DEF VersionsTold
    <2>9. \A u, x \in CacheWrites, v \in Nat : WrittenBy(u, v)' /\ WrittenBy(x, v)' => u = x
      <3>1. \A u \in CacheWrites, v \in Nat : WrittenBy(u, v) => v # n
        BY <1>b, <2>4 DEF VersionsTold
      <3>2. \A u, x \in CacheWrites, v \in Nat : WrittenBy(u, v) /\ WrittenBy(x, v) => u = x
        BY <1>b DEF VersionsTold
      <3> QED
        BY <2>6, <3>1, <3>2
    <2>10. DOMAIN cleaned \cup unclean \subseteq 2..n /\ DOMAIN cleaned \cap unclean = {}
      BY <1>b, <2>4 DEF VersionsTold
    <2> QED
      BY <1>b, <2>1, <2>4, <2>5, <2>8, <2>9, <2>10 DEF VersionsTold
  <1>3. ASSUME operationSucceeds(w) \/ operationFails(w), cacheWrites[w] # <<"begun">>
        PROVE  VersionsTold' /\ dataVersion' >= dataVersion
    <2> DEFINE n == cacheWrites[w][2]
    <2>1. cacheWrites[w] \in WriteStates /\ cacheWrites[w][1] \in {"begun", "written"}
      BY <1>3, <1>a DEF operationSucceeds, operationFails
    <2>2. n \in Nat /\ cacheWrites[w] = <<"written", n>>
      BY <1>3, <2>1 DEF WriteStates
    <2>3. WrittenBy(w, n)
      BY <2>2 DEF WrittenBy
    <2>4. /\ cacheWrites' = [cacheWrites EXCEPT ![w] = <<"done">>] /\ UNCHANGED dataVersion
          /\ \/ DOMAIN cleaned' = DOMAIN cleaned \cup {n} /\ unclean' = unclean
             \/ cleaned' = cleaned /\ unclean' = unclean \cup {n}
      BY <1>3, <2>2 DEF operationSucceeds, operationFails
    <2>5. w \in Ended /\ Ended' = Ended
      BY <1>a, <2>2, <2>4 DEF Ended
    <2> HIDE DEF n
    <2>6. n \in 2..dataVersion /\ n \notin DOMAIN cleaned \cup unclean
      BY <1>b, <2>2, <2>3 DEF VersionsTold
    <2>7. \A u \in CacheWrites, v \in Nat : WrittenBy(u, v)' => u # w /\ WrittenBy(u, v)
      BY <1>a, <2>4 DEF WrittenBy
    <2>8. \A u \in CacheWrites, v \in Nat : WrittenBy(u, v)' => v # n
      BY <1>b, <2>2, <2>3, <2>7 DEF VersionsTold
    <2>9. DOMAIN cleaned' \cup unclean' = (DOMAIN cleaned \cup unclean) \cup {n}
          /\ DOMAIN cleaned' \cap unclean' = {}
      BY <1>b, <2>4, <2>6 DEF VersionsTold
    <2>10. \A u \in CacheWrites, v \in Nat :
              WrittenBy(u, v)' => v \in 2..dataVersion /\ v \notin DOMAIN cleaned' \cup unclean'
      BY <1>b, <2>7, <2>8, <2>9 DEF VersionsTold
    <2> QED
      BY <1>b, <1>a, <2>4, <2>5, <2>6, <2>7, <2>9, <2>10 DEF VersionsTold
  <1>4. CASE operationFails(w) /\ cacheWrites[w] = <<"begun">>
    <2>1. /\ cacheWrites' = [cacheWrites EXCEPT ![w] = <<"done">>]
          /\ UNCHANGED <<dataVersion, cleaned, unclean>>
      BY <1>4 DEF operationFails
    <2>2. w \notin Ended /\ Ended' = Ended \cup {w}
      BY <1>4, <1>a, <2>1 DEF Ended
    <2>3. Cardinality(Ended \cup {w}) = Cardinality(Ended) + 1
      BY <1>a, <2>2, FS_AddElement
    <2>4. dataVersion <= 1 + Cardinality(Ended')
      <3>1. dataVersion <= 1 + Cardinality(Ended)
        BY <1>b DEF VersionsTold
      <3>2. \A c, d \in Nat : d = c + 1 /\ dataVersion <= 1 + c => dataVersion <= 1 + d
        BY <1>a
      <3> QED
        BY <1>a, <2>2, <2>3, <3>1, <3>2
    <2>5. \A u \in CacheWrites, v \in Nat : WrittenBy(u, v)' => WrittenBy(u, v)
      BY <1>a, <2>1 DEF WrittenBy
    <2> QED
      BY <1>b, <1>a, <2>1, <2>4, <2>5 DEF VersionsTold
  <1>5. operationSucceeds(w) => cacheWrites[w] # <<"begun">>
    BY DEF operationSucceeds
  <1> QED
    BY <1>1, <1>2, <1>3, <1>4, <1>5

LEMMA CacheBoundedStep == RInv /\ CacheBounded /\ [CacheNext]_cacheVars => CacheBounded'
  <1> SUFFICES ASSUME RInv, CacheBounded, [CacheNext]_cacheVars PROVE CacheBounded'
    OBVIOUS
  <1>a. /\ dataVersion \in Nat \ {0} /\ cacheNow \in 0..CacheMaxTime
        /\ dataVersion \in 1..(1 + Cardinality(CacheWrites)) /\ Cardinality(CacheWrites) \in Nat
        /\ DOMAIN cacheReads \subseteq CacheReads
        /\ \A r \in DOMAIN cacheReads : /\ cacheReads[r].version <= dataVersion
                                        /\ cacheReads[r].version \in Nat /\ cacheReads[r].key \in CacheKeys
    BY VersionsCounted DEF RInv, CacheBounded
  <1>b. VersionsTold
    BY DEF CacheBounded
  <1>t. ASSUME cacheNow' \in 0..CacheMaxTime, VersionsTold', DOMAIN cacheReads' \subseteq CacheReads,
               \A r \in DOMAIN cacheReads' : cacheReads'[r].version <= dataVersion',
               IsFiniteSet(DOMAIN cacheStore'), Cardinality(DOMAIN cacheStore') <= CacheMax,
               \A k \in DOMAIN cacheStore' : cacheStore'[k] \in CacheEntry
        PROVE  CacheBounded'
    BY <1>t DEF CacheBounded
  <1>u. ASSUME UNCHANGED <<dataVersion, cacheWrites, cleaned, unclean>> PROVE VersionsTold'
    BY <1>u, <1>b DEF VersionsTold, WrittenBy, Ended
  <1>s. ASSUME UNCHANGED cacheStore
        PROVE  /\ IsFiniteSet(DOMAIN cacheStore') /\ Cardinality(DOMAIN cacheStore') <= CacheMax
               /\ \A k \in DOMAIN cacheStore' : cacheStore'[k] \in CacheEntry
    BY <1>s DEF CacheBounded
  <1>g. ASSUME NEW key, cacheStore' = cacheGet(key)
        PROVE  /\ IsFiniteSet(DOMAIN cacheStore') /\ Cardinality(DOMAIN cacheStore') <= CacheMax
               /\ \A k \in DOMAIN cacheStore' : cacheStore'[k] \in CacheEntry
    BY <1>g, StoreBounded DEF cacheGet
  <1>i. ASSUME NEW keys, cacheStore' = invalidateCache(keys)
        PROVE  /\ IsFiniteSet(DOMAIN cacheStore') /\ Cardinality(DOMAIN cacheStore') <= CacheMax
               /\ \A k \in DOMAIN cacheStore' : cacheStore'[k] \in CacheEntry
    BY <1>i, StoreBounded DEF invalidateCache
  <1>1. ASSUME NEW r \in CacheReads, NEW key \in CacheKeys, cacheMiss(r, key) PROVE CacheBounded'
    <2>1. /\ cacheStore' = cacheGet(key)
          /\ UNCHANGED <<cacheNow, dataVersion, cacheWrites, cleaned, unclean>>
          /\ cacheReads' = [s \in DOMAIN cacheReads \cup {r} |->
                              IF s = r THEN [key |-> key, version |-> 0] ELSE cacheReads[s]]
      BY <1>1 DEF cacheMiss, writeHistory
    <2>2. DOMAIN cacheReads' \subseteq CacheReads
          /\ \A s \in DOMAIN cacheReads' : cacheReads'[s].version <= dataVersion'
      BY <1>a, <2>1
    <2> QED
      BY <1>a, <1>t, <1>u, <1>g, <2>1, <2>2
  <1>2. ASSUME NEW r \in CacheReads, handlerReads(r) PROVE CacheBounded'
    <2>1. /\ UNCHANGED <<cacheNow, cacheStore, dataVersion, cacheWrites, cleaned, unclean>>
          /\ r \in DOMAIN cacheReads
          /\ cacheReads' = [cacheReads EXCEPT ![r].version = dataVersion]
      BY <1>2 DEF handlerReads, writeHistory
    <2>2. DOMAIN cacheReads' \subseteq CacheReads
          /\ \A s \in DOMAIN cacheReads' : cacheReads'[s].version <= dataVersion'
      BY <1>a, <2>1
    <2> QED
      BY <1>a, <1>t, <1>u, <1>s, <2>1, <2>2
  <1>3. ASSUME NEW r \in CacheReads, NEW ok \in BOOLEAN, responseJson(r, ok) PROVE CacheBounded'
    <2> DEFINE x == cacheReads[r]
               e == [version |-> x.version, expiresAt |-> cacheNow + CacheTtl,
                     lastUsed |-> cacheNow, raced |-> \E v \in DOMAIN cleaned : v > x.version]
    <2>1. /\ r \in DOMAIN cacheReads /\ x.version # 0
          /\ cacheReads' = [s \in DOMAIN cacheReads \ {r} |-> cacheReads[s]]
          /\ UNCHANGED <<cacheNow, dataVersion, cacheWrites, cleaned, unclean>>
      BY <1>3 DEF responseJson, writeHistory
    <2>2. DOMAIN cacheReads' \subseteq CacheReads
          /\ \A s \in DOMAIN cacheReads' : cacheReads'[s].version <= dataVersion'
      BY <1>a, <2>1
    <2>3. /\ IsFiniteSet(DOMAIN cacheStore') /\ Cardinality(DOMAIN cacheStore') <= CacheMax
          /\ \A k \in DOMAIN cacheStore' : cacheStore'[k] \in CacheEntry
      <3>1. CASE ok
        <4>1. cacheSet(x.key, e)
          BY <1>3, <3>1 DEF responseJson
        <4>2. x.version \in 1..(1 + Cardinality(CacheWrites)) /\ x.key \in CacheKeys
          BY <1>a, <2>1
        <4>3. cacheNow + CacheTtl \in 0..(CacheMaxTime + CacheTtl)
          BY <1>a, CacheAssumption
        <4>4. e \in CacheEntry
          BY <1>a, <4>2, <4>3 DEF CacheEntry
        <4> HIDE DEF e, x
        <4> QED
          BY <4>1, <4>2, <4>4, StoreHasRoom
      <3>2. CASE ~ok
        BY <1>3, <1>s, <3>2 DEF responseJson
      <3> QED
        BY <3>1, <3>2
    <2> QED
      BY <1>a, <1>t, <1>u, <2>1, <2>2, <2>3
  <1>4. ASSUME NEW key \in CacheKeys, cacheHit(key) PROVE CacheBounded'
    <2>1. /\ cacheStore' = cacheGet(key)
          /\ UNCHANGED <<cacheNow, cacheReads, dataVersion, cacheWrites, cleaned, unclean>>
      BY <1>4 DEF cacheHit, writeHistory
    <2> QED
      BY <1>a, <1>t, <1>u, <1>g, <2>1
  <1>5. ASSUME NEW w \in CacheWrites,
               invalidateReadCaches(w) \/ operationWrites(w) \/ operationSucceeds(w) \/ operationFails(w)
        PROVE  CacheBounded'
    <2>1. VersionsTold' /\ dataVersion' >= dataVersion
      BY <1>5, OperationTold
    <2>2. /\ UNCHANGED <<cacheNow, cacheReads>> /\ dataVersion' \in Nat
          /\ cacheStore' = cacheStore \/ cacheStore' = invalidateCache(Matched)
      BY <1>5, <1>a DEF invalidateReadCaches, operationWrites, operationSucceeds, operationFails,
                  writeHistory
    <2>3. \A r \in DOMAIN cacheReads' : cacheReads'[r].version <= dataVersion'
      BY <1>a, <2>1, <2>2
    <2> QED
      BY <1>a, <1>t, <1>s, <1>i, <2>1, <2>2, <2>3
  <1>6. ASSUME NEW keys \in SUBSET CacheKeys, deleteAdminCache(keys) PROVE CacheBounded'
    <2>1. /\ cacheStore' = invalidateCache(keys)
          /\ UNCHANGED <<cacheNow, cacheReads, dataVersion, cacheWrites, cleaned, unclean>>
      BY <1>6 DEF deleteAdminCache, writeHistory
    <2> QED
      BY <1>a, <1>t, <1>u, <1>i, <2>1
  <1>7. CASE cacheTick \/ UNCHANGED cacheVars
    <2>1. UNCHANGED <<cacheStore, cacheReads, dataVersion, cacheWrites, cleaned, unclean>>
      BY <1>7 DEF cacheTick, cacheVars, writeHistory
    <2>2. cacheNow' \in 0..CacheMaxTime
      BY <1>7, <1>a, CacheAssumption DEF cacheTick, cacheVars
    <2> QED
      BY <1>a, <1>t, <1>u, <1>s, <2>1, <2>2
  <1> QED
    BY <1>1, <1>2, <1>3, <1>4, <1>5, <1>6, <1>7 DEF CacheNext

LEMMA CacheIsTyped == RInv /\ CacheBounded => CacheTypeOK
  <1> SUFFICES ASSUME RInv, CacheBounded PROVE CacheTypeOK
    OBVIOUS
  <1>1. dataVersion \in 1..(1 + Cardinality(CacheWrites))
    BY VersionsCounted
  <1>2. DOMAIN cacheStore \subseteq CacheKeys /\ DOMAIN cacheWrites = CacheWrites
    BY DEF RInv
  <1>3. \A v \in DOMAIN cleaned : cleaned[v] \in 0..cacheNow
    BY DEF RInv
  <1> QED
    BY <1>1, <1>2, <1>3 DEF CacheBounded, CacheTypeOK, VersionsTold

\* The state of every part is well typed: what is held is within its bounds,
\* names what there is, and is in the form the handlers read it in.
THEOREM ConsoleTyped == Spec => []ConsoleTypeOK
  <1> DEFINE Cache == RInv /\ CacheBounded
             Imp == MInv /\ ImpTyped
             Pipe == PipeInv /\ PipeBounded
  <1>1. Spec => []Cache
    <2>1. Init => Cache
      BY RInvInit, CacheBoundedInit DEF Init
    <2>2. Cache /\ [Next]_vars => Cache'
      BY PartsRun, RInvStep, CacheBoundedStep
    <2> QED
      BY <2>1, <2>2, PTL DEF Spec
  <1>2. Spec => []Imp
    <2>1. Init => Imp
      BY MInvInit, ImpTypedInit DEF Init
    <2>2. Imp /\ [Next]_vars => Imp'
      BY PartsRun, MInvStep, ImpTypedStep
    <2> QED
      BY <2>1, <2>2, PTL DEF Spec
  <1>3. Spec => []Pipe
    <2>1. Init => Pipe
      BY PipeInvInit, PipeBoundedInit DEF Init
    <2>2. Pipe /\ [Next]_vars => Pipe'
      BY PartsRun, PipeInvStep, PipeBoundedStep
    <2> QED
      BY <2>1, <2>2, PTL DEF Spec
  <1>4. Spec => []KeysCounted
    <2>1. Init => KeysCounted
      BY KeysCountedInit DEF Init
    <2>2. KInv /\ KeysCounted /\ [Next]_vars => KeysCounted'
      BY PartsRun, KeysCountedStep
    <2> QED
      BY <2>1, <2>2, KInvHolds, PTL DEF Spec
  <1>5. Spec => []AdBounded
    <2>1. Init => AdBounded
      BY AdBoundedInit DEF Init
    <2>2. AdInv /\ AdBounded /\ [Next]_vars => AdBounded'
      BY PartsRun, AdBoundedStep
    <2> QED
      BY <2>1, <2>2, AdInvHolds, PTL DEF Spec
  <1>6. ASSUME Cache, Imp, Pipe, KeysCounted, AdInv, AdBounded, NInv, LInv, PgInv, DlInv, LstInv,
               HeldInv, BulkInv, CInv, RelationTyped, YInv
        PROVE  ConsoleTypeOK
    <2>1. CacheTypeOK /\ ImpTypeOK /\ PipeTypeOK /\ KeyTypeOK /\ AdTypeOK
      BY <1>6, CacheIsTyped, ImpIsTyped, PipeIsTyped, AdIsTyped DEF KeysCounted
    <2>2. ListTypeOK /\ DlTypeOK
      BY <1>6, ListsShown, DeliveriesTyped
    <2> QED
      BY <1>6, <2>1, <2>2, OthersTyped DEF ConsoleTypeOK
  <1> HIDE DEF Cache, Imp, Pipe
  <1>7. Cache /\ Imp /\ Pipe /\ KeysCounted /\ AdInv /\ AdBounded /\ NInv /\ LInv
        /\ (PgInv /\ DlInv /\ LstInv) /\ (HeldInv /\ BulkInv) /\ (CInv /\ RelationTyped /\ YInv)
          => ConsoleTypeOK
    BY <1>6
  <1> QED
    BY <1>1, <1>2, <1>3, <1>4, <1>5, <1>7, AdInvHolds, NInvHolds, LInvHolds, PagesInvHolds,
       ExportInvHolds, RefInvHolds, PTL
=============================================================================
