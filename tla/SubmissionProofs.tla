-------------------------- MODULE SubmissionProofs --------------------------
(***************************************************************************)
(* Theorems about what a deposit or a withdrawal goes through in the       *)
(* browser, for any number of transactions, wallets, mutations, calls and  *)
(* restarts.  Each is about Spec of MCSubmission; every part is proved     *)
(* about on its own, since a step of another leaves it alone.              *)
(***************************************************************************)
EXTENDS MCSubmission, TLAPS

LEMMA PartsRun ==
    [Next]_vars => [WizNext]_wizVars /\ [WsNext]_wsVars /\ [QcNext]_qcVars /\ [ApiNext]_apiVars
  BY DEF Next, vars, OnWizard, OnWallet, OnCache, OnCalls

-----------------------------------------------------------------------------
(* The query cache *)

\* Cached data holds no submission that has not been made.
OnlyMade == \A k \in QKeys : \A m \in cached[k].of : mutation[m] # "idle"

QInv == QcTypeOK /\ OnlyMade /\ OptimismIsPutRight

LEMMA QInvInit == QcInit => QInv
  <1> SUFFICES ASSUME QcInit PROVE QInv
    OBVIOUS
  <1>1. Absent \in [some : BOOLEAN, of : SUBSET Muts] /\ Absent.of = {}
    BY DEF Absent
  <1>2. \A k \in QKeys : cached[k] = Absent
    BY DEF QcInit
  <1>3. cached \in [QKeys -> [some : BOOLEAN, of : SUBSET Muts]]
    BY <1>1 DEF QcInit
  <1>4. invalid \in [QKeys -> BOOLEAN] /\ fetching \in [QKeys -> BOOLEAN]
    BY DEF QcInit, watched
  <1>5. fetches \in 0..MaxFetches
    BY QcAssumption DEF QcInit
  <1>6. /\ mutation \in [Muts -> {"idle", "pending", "done", "refused"}]
        /\ page \in {"vault", "history"} /\ blank \in [Muts -> SUBSET QKeys] /\ undone \subseteq QKeys
    BY DEF QcInit
  <1>7. QcTypeOK
    BY <1>1, <1>2, <1>3, <1>4, <1>5, <1>6 DEF QcTypeOK
  <1>8. OnlyMade /\ OptimismIsPutRight
    BY <1>1, <1>2 DEF OnlyMade, OptimismIsPutRight, OptimismIsCorrected, RefusedOnlyInBlank
  <1> QED
    BY <1>7, <1>8 DEF QInv

\* The value a submission writes in advance.
LEMMA OptimisticValue ==
    ASSUME QcTypeOK, NEW k \in QKeys, NEW m \in Muts
    PROVE  /\ optimistic(k, m) \in [some : BOOLEAN, of : SUBSET Muts]
           /\ optimistic(k, m).of # {} => optimistic(k, m).some
           /\ optimistic(k, m).of \subseteq cached[k].of \cup {m}
           /\ cached[k].some => optimistic(k, m).some
           /\ ~cached[k].some /\ optimistic(k, m).of # {} => k # "summary"
  <1>1. cached[k] \in [some : BOOLEAN, of : SUBSET Muts] /\ (cached[k].of # {} => cached[k].some)
    BY DEF QcTypeOK
  <1>2. CASE cached[k].some
    <2> DEFINE v == [cached[k] EXCEPT !.of = @ \union {m}]
    <2>1. optimistic(k, m) = v
      BY <1>2 DEF optimistic
    <2>2. /\ v \in [some : BOOLEAN, of : SUBSET Muts] /\ v.of = cached[k].of \cup {m}
          /\ v.some = cached[k].some
      BY <1>1
    <2> HIDE DEF v
    <2> QED
      BY <1>2, <2>1, <2>2
  <1>3. CASE ~cached[k].some
    BY <1>1, <1>3 DEF optimistic, Absent
  <1> QED
    BY <1>2, <1>3

\* A step that leaves the submissions alone, and of a key either empties the
\* cache or keeps what makes it right.
LEMMA KeyStep ==
    ASSUME QInv, QcTypeOK', UNCHANGED <<mutation, blank>>,
           \A k \in QKeys :
              \/ cached'[k].of = {}
              \/ /\ cached'[k].of = cached[k].of /\ (k \in undone => k \in undone')
                 /\ invalid[k] \/ fetching[k] => invalid'[k] \/ fetching'[k]
    PROVE  QInv'
  <1>1. OnlyMade'
    BY DEF QInv, OnlyMade
  <1>2. OptimismIsCorrected'
    BY DEF QInv, OptimismIsPutRight, OptimismIsCorrected
  <1>3. RefusedOnlyInBlank'
    BY DEF QInv, OptimismIsPutRight, RefusedOnlyInBlank
  <1> QED
    BY <1>1, <1>2, <1>3 DEF QInv, OptimismIsPutRight

LEMMA MutateStep ==
    ASSUME QInv, NEW m \in Muts, NEW value, mutation[m] = "idle", onMutate(m, value),
           \A k \in QKeys : value[k] = optimistic(k, m) \/ (cached[k].some /\ value[k] = cached[k]),
           NEW now \in {"pending", "refused"}, mutation' = [mutation EXCEPT ![m] = now],
           now = "refused" => \A k \in QKeys : cached[k].some => value[k] = cached[k],
           undone' = undone \/ undone' = undone \cup Written(m),
           now = "refused" => undone' = undone \cup Written(m),
           UNCHANGED <<page, fetches>>
    PROVE  QInv'
  <1>1. /\ cached' = [k \in QKeys |-> value[k]] /\ fetching' = [k \in QKeys |-> FALSE]
        /\ invalid' = [k \in QKeys |-> invalid[k] /\ k \notin Written(m)]
        /\ blank' = [blank EXCEPT ![m] = {k \in QKeys : ~cached[k].some}]
    BY DEF onMutate
  <1>2. QcTypeOK /\ OnlyMade /\ OptimismIsCorrected /\ RefusedOnlyInBlank
    BY DEF QInv, OptimismIsPutRight
  <1>3. ASSUME NEW k \in QKeys
        PROVE  /\ value[k] \in [some : BOOLEAN, of : SUBSET Muts]
               /\ value[k].of # {} => value[k].some
               /\ value[k].of \subseteq cached[k].of \cup {m}
    BY <1>2, <1>3, OptimisticValue DEF QcTypeOK
  <1>4. cached' \in [QKeys -> [some : BOOLEAN, of : SUBSET Muts]]
        /\ \A k \in QKeys : cached'[k] = value[k]
    BY <1>1, <1>3
  <1>5. /\ mutation' \in [Muts -> {"idle", "pending", "done", "refused"}] /\ mutation'[m] = now
        /\ \A n \in Muts : n # m => mutation'[n] = mutation[n]
    BY <1>2 DEF QcTypeOK
  <1>6. /\ blank' \in [Muts -> SUBSET QKeys] /\ undone' \subseteq QKeys
        /\ \A n \in Muts : n # m => blank'[n] = blank[n]
        /\ blank'[m] = {k \in QKeys : ~cached[k].some}
    BY <1>1, <1>2 DEF QcTypeOK, Written
  <1>7. QcTypeOK'
    <2>1. invalid' \in [QKeys -> BOOLEAN] /\ fetching' \in [QKeys -> BOOLEAN]
      BY <1>1, Zenon
    <2>2. page' \in {"vault", "history"} /\ fetches' \in 0..MaxFetches
      BY <1>2 DEF QcTypeOK
    <2>3. \A k \in QKeys : cached'[k].of # {} => cached'[k].some
      BY <1>3, <1>4
    <2> QED
      BY <1>4, <1>5, <1>6, <2>1, <2>2, <2>3 DEF QcTypeOK
  <1>8. OnlyMade'
    BY <1>2, <1>3, <1>4, <1>5 DEF OnlyMade, QcTypeOK
  <1>9. OptimismIsCorrected'
    <2> SUFFICES ASSUME NEW k \in QKeys, NEW n \in cached'[k].of, mutation'[n] = "done",
                        now = "refused"
                 PROVE  k \in undone'
      BY <1>5 DEF OptimismIsCorrected
    <2>1. n # m /\ n \in cached[k].of
      BY <1>3, <1>4, <1>5
    <2>2. cached[k].some
      BY <2>1, <1>2 DEF QcTypeOK
    <2>3. k \in Written(m)
      BY <1>2, <2>2, OptimisticValue DEF Written
    <2> QED
      BY <2>3
  <1>10. RefusedOnlyInBlank'
    <2> SUFFICES ASSUME NEW k \in QKeys, NEW n \in cached'[k].of, mutation'[n] = "refused"
                 PROVE  k \in blank'[n] /\ k # "summary"
      BY DEF RefusedOnlyInBlank
    <2>1. CASE n # m
      <3>1. n \in cached[k].of /\ n \in Muts
        BY <1>2, <1>3, <1>4, <2>1 DEF QcTypeOK
      <3> QED
        BY <1>2, <1>5, <1>6, <2>1, <3>1 DEF RefusedOnlyInBlank
    <2>2. CASE n = m
      <3>1. m \notin cached[k].of /\ now = "refused"
        BY <1>2, <1>5, <2>2 DEF OnlyMade
      <3>2. ~cached[k].some /\ value[k] = optimistic(k, m)
        BY <1>4, <2>2, <3>1
      <3> QED
        BY <1>2, <1>4, <1>6, <2>2, <3>2, OptimisticValue
    <2> QED
      BY <2>1, <2>2
  <1> QED
    BY <1>7, <1>8, <1>9, <1>10 DEF QInv, OptimismIsPutRight

LEMMA QInvStep == QInv /\ [QcNext]_qcVars => QInv'
  <1> SUFFICES ASSUME QInv, [QcNext]_qcVars PROVE QInv'
    OBVIOUS
  <1>a. QcTypeOK
    BY DEF QInv
  <1>1. CASE UNCHANGED qcVars
    BY <1>1 DEF qcVars, QInv, QcTypeOK, OnlyMade, OptimismIsPutRight, OptimismIsCorrected,
       RefusedOnlyInBlank
  <1>2. ASSUME NEW k \in QKeys, refetch(k) PROVE QInv'
    <2>1. /\ fetching' = [fetching EXCEPT ![k] = TRUE] /\ fetches' = fetches + 1
          /\ fetches < MaxFetches
          /\ UNCHANGED <<cached, invalid, mutation, page, blank, undone>>
      BY <1>2 DEF refetch
    <2>2. fetching' \in [QKeys -> BOOLEAN] /\ \A j \in QKeys : fetching[j] => fetching'[j]
      BY <1>a, <2>1 DEF QcTypeOK
    <2>3. fetches' \in 0..MaxFetches
      BY <1>a, <2>1, QcAssumption DEF QcTypeOK
    <2>4. QcTypeOK'
      BY <1>a, <2>1, <2>2, <2>3 DEF QcTypeOK
    <2> QED
      BY <2>1, <2>2, <2>4, KeyStep
  <1>3. ASSUME NEW k \in QKeys, NEW v \in {Absent, [some |-> TRUE, of |-> {}]},
               cached' = [cached EXCEPT ![k] = v], invalid' = [invalid EXCEPT ![k] = FALSE],
               undone' = undone \ {k}, UNCHANGED <<mutation, page, fetches, blank>>,
               fetching' = [fetching EXCEPT ![k] = FALSE] \/ fetching' = fetching
        PROVE  QInv'
    <2>1. v \in [some : BOOLEAN, of : SUBSET Muts] /\ v.of = {}
      <3>1. Absent \in [some : BOOLEAN, of : SUBSET Muts] /\ Absent.of = {}
        BY DEF Absent
      <3>2. CASE v = Absent
        BY <3>1, <3>2
      <3>3. CASE v = [some |-> TRUE, of |-> {}]
        BY <3>3
      <3> QED
        BY <1>3, <3>2, <3>3
    <2>2. /\ cached' \in [QKeys -> [some : BOOLEAN, of : SUBSET Muts]] /\ cached'[k] = v
          /\ \A j \in QKeys : j # k => cached'[j] = cached[j]
      BY <1>a, <1>3, <2>1 DEF QcTypeOK
    <2>3. /\ invalid' \in [QKeys -> BOOLEAN] /\ fetching' \in [QKeys -> BOOLEAN]
          /\ \A j \in QKeys : j # k => (invalid[j] => invalid'[j]) /\ (fetching[j] => fetching'[j])
      BY <1>a, <1>3 DEF QcTypeOK
    <2>4. QcTypeOK'
      BY <1>a, <1>3, <2>1, <2>2, <2>3 DEF QcTypeOK
    <2> QED
      BY <1>3, <2>1, <2>2, <2>3, <2>4, KeyStep
  <1>4. ASSUME NEW k \in QKeys, fetched(k) PROVE QInv'
    BY <1>3, <1>4 DEF fetched
  <1>5. ASSUME NEW k \in QKeys, collect(k) PROVE QInv'
    BY <1>3, <1>5 DEF collect
  <1>6. ASSUME NEW k \in QKeys, fetchFailed(k) PROVE QInv'
    <2>1. /\ fetching' = [fetching EXCEPT ![k] = FALSE] /\ invalid' = [invalid EXCEPT ![k] = TRUE]
          /\ UNCHANGED <<cached, mutation, page, fetches, blank, undone>>
      BY <1>6 DEF fetchFailed
    <2>2. /\ fetching' \in [QKeys -> BOOLEAN] /\ invalid' \in [QKeys -> BOOLEAN]
          /\ \A j \in QKeys : invalid[j] \/ fetching[j] => invalid'[j] \/ fetching'[j]
      BY <1>a, <2>1 DEF QcTypeOK
    <2>3. QcTypeOK'
      BY <1>a, <2>1, <2>2 DEF QcTypeOK
    <2> QED
      BY <2>1, <2>2, <2>3, KeyStep
  <1>7. ASSUME NEW p \in {"vault", "history"}, navigate(p) PROVE QInv'
    <2>1. page' = p /\ UNCHANGED <<cached, invalid, mutation, blank, undone>>
      BY <1>7 DEF navigate
    <2>2. /\ fetching' \in [QKeys -> BOOLEAN]
          /\ \A j \in QKeys : fetching[j] => fetching'[j]
      <3>1. fetching' = fetching \/ fetching' = [fetching EXCEPT !["transactions"] = TRUE]
        BY <1>7 DEF navigate
      <3> QED
        BY <1>a, <3>1, ZenonT(30) DEF QcTypeOK, QKeys
    <2>3. fetches' \in 0..MaxFetches
      <3>1. fetches' = fetches \/ (fetches' = fetches + 1 /\ fetches < MaxFetches)
        BY <1>7 DEF navigate
      <3> QED
        BY <1>a, <3>1, QcAssumption DEF QcTypeOK
    <2>4. QcTypeOK'
      BY <1>a, <2>1, <2>2, <2>3 DEF QcTypeOK
    <2> QED
      BY <2>1, <2>2, <2>4, KeyStep
  <1>8. ASSUME NEW m \in Muts, accepted(m) PROVE QInv'
    <2> DEFINE value == [k \in QKeys |-> optimistic(k, m)]
    <2>1. /\ mutation[m] = "idle" /\ mutation' = [mutation EXCEPT ![m] = "pending"]
          /\ onMutate(m, value) /\ UNCHANGED <<page, fetches, undone>>
      BY <1>8 DEF accepted
    <2>2. \A k \in QKeys : value[k] = optimistic(k, m) \/ (cached[k].some /\ value[k] = cached[k])
      OBVIOUS
    <2> HIDE DEF value
    <2> DEFINE now == "pending"
    <2>3. /\ now \in {"pending", "refused"} /\ mutation' = [mutation EXCEPT ![m] = now]
          /\ now # "refused" /\ undone' = undone
      BY <2>1
    <2> HIDE DEF now
    <2> QED
      BY <2>1, <2>2, <2>3, MutateStep
  <1>9. ASSUME NEW m \in Muts, refused(m) PROVE QInv'
    <2> DEFINE value == rolledBack(m)
    <2>1. /\ mutation[m] = "idle" /\ mutation' = [mutation EXCEPT ![m] = "refused"]
          /\ onMutate(m, value) /\ undone' = undone \cup Written(m) /\ UNCHANGED <<page, fetches>>
      BY <1>9 DEF refused
    <2>2. \A k \in QKeys : value[k] = IF cached[k].some THEN cached[k] ELSE optimistic(k, m)
      BY DEF rolledBack
    <2> HIDE DEF value
    <2>3. /\ \A k \in QKeys : value[k] = optimistic(k, m) \/ (cached[k].some /\ value[k] = cached[k])
          /\ \A k \in QKeys : cached[k].some => value[k] = cached[k]
      BY <2>2
    <2> DEFINE now == "refused"
    <2>4. now \in {"pending", "refused"} /\ mutation' = [mutation EXCEPT ![m] = now]
      BY <2>1
    <2> HIDE DEF now
    <2> QED
      BY <2>1, <2>3, <2>4, MutateStep
  <1>10. ASSUME NEW m \in Muts, onSuccess(m) PROVE QInv'
    <2>1. /\ mutation[m] = "pending" /\ mutation' = [mutation EXCEPT ![m] = "done"]
          /\ invalid' = [k \in QKeys |-> invalid[k] \/ cached[k].some]
          /\ fetching' = [k \in QKeys |-> fetching[k] \/ watched(k)]
          /\ UNCHANGED <<cached, page, fetches, blank, undone>>
      BY <1>10 DEF onSuccess, invalidateQueries
    <2>2. /\ mutation' \in [Muts -> {"idle", "pending", "done", "refused"}]
          /\ mutation'[m] = "done" /\ \A n \in Muts : n # m => mutation'[n] = mutation[n]
      BY <1>a, <2>1 DEF QcTypeOK
    <2>3. invalid' \in [QKeys -> BOOLEAN] /\ fetching' \in [QKeys -> BOOLEAN]
      BY <2>1, Zenon
    <2>4. QcTypeOK'
      BY <1>a, <2>1, <2>2, <2>3 DEF QcTypeOK
    <2>5. OnlyMade'
      BY <1>a, <2>1, <2>2 DEF QInv, OnlyMade, QcTypeOK
    <2>6. OptimismIsCorrected'
      <3> SUFFICES ASSUME NEW k \in QKeys, cached'[k].of # {} PROVE invalid'[k]
        BY DEF OptimismIsCorrected
      <3>1. cached[k].some
        BY <1>a, <2>1 DEF QcTypeOK
      <3> QED
        BY <2>1, <3>1
    <2>7. RefusedOnlyInBlank'
      <3> SUFFICES ASSUME NEW k \in QKeys, NEW n \in cached'[k].of, mutation'[n] = "refused"
                   PROVE  k \in blank'[n] /\ k # "summary"
        BY DEF RefusedOnlyInBlank
      <3>1. n \in cached[k].of /\ n \in Muts /\ n # m
        BY <1>a, <2>1, <2>2 DEF QcTypeOK
      <3> QED
        BY <2>1, <2>2, <3>1 DEF QInv, OptimismIsPutRight, RefusedOnlyInBlank
    <2> QED
      BY <2>4, <2>5, <2>6, <2>7 DEF QInv, OptimismIsPutRight
  <1> QED
    BY <1>1, <1>2, <1>4, <1>5, <1>6, <1>7, <1>8, <1>9, <1>10 DEF QcNext

(* useVaultMutations: whatever is fetched, fails, is navigated to or       *)
(* submitted meanwhile, what an accepted submission wrote in advance is    *)
(* going to be fetched again, and a refused one leaves nothing behind but  *)
(* in data that was not there when it began.                               *)
THEOREM OptimismEnds == Spec => []OptimismIsPutRight
  <1>1. Init => QInv
    BY QInvInit DEF Init
  <1>2. QInv /\ [Next]_vars => QInv'
    BY PartsRun, QInvStep
  <1>3. QInv => OptimismIsPutRight
    BY DEF QInv
  <1> QED
    BY <1>1, <1>2, <1>3, PTL DEF Spec

-----------------------------------------------------------------------------
(* The wallet's session *)

\* A user who disconnected is not connected, and no poll runs for that user; a
\* limit was taken only from a connection.
DisconnectStands ==
    /\ connected => ~manual
    /\ polling /\ manual => connected
    /\ taken => connected
    /\ UnlimitedOnlyByPoll

SInv == WsTypeOK /\ DisconnectStands

LEMMA SInvInit == WsInit => SInv
  <1> SUFFICES ASSUME WsInit PROVE SInv
    OBVIOUS
  <1>1. restarts \in 0..MaxRestarts
    BY WsAssumption DEF WsInit
  <1>2. /\ grants \in BOOLEAN /\ connected \in BOOLEAN /\ connecting \in BOOLEAN
        /\ polling \in BOOLEAN /\ stray \in BOOLEAN /\ manual \in BOOLEAN
        /\ dismissed \in BOOLEAN /\ provider \in BOOLEAN /\ prompt \in BOOLEAN
        /\ taken \in BOOLEAN /\ ~taken
    BY Zenon DEF WsInit
  <1>3. by = "nobody" /\ age = "none" /\ session = "idle" /\ ~connected /\ ~manual
    BY DEF WsInit
  <1> QED
    BY <1>1, <1>2, <1>3 DEF SInv, WsTypeOK, DisconnectStands, UnlimitedOnlyByPoll, Ages

\* The types of the flags, one by one.
Flags ==
    /\ grants \in BOOLEAN /\ connected \in BOOLEAN /\ connecting \in BOOLEAN
    /\ polling \in BOOLEAN /\ stray \in BOOLEAN /\ manual \in BOOLEAN
    /\ dismissed \in BOOLEAN /\ provider \in BOOLEAN /\ prompt \in BOOLEAN
    /\ taken \in BOOLEAN

Kinds ==
    /\ by \in {"nobody", "user", "poll"} /\ age \in Ages
    /\ session \in {"idle", "warning", "expired"}

LEMMA FlagsAreTypes == WsTypeOK <=> Flags /\ Kinds /\ restarts \in 0..MaxRestarts
  <1>1. ASSUME Flags
        PROVE  {grants, connected, connecting, polling, stray, manual, dismissed,
                provider, prompt, taken} \subseteq BOOLEAN
    BY <1>1 DEF Flags
  <1>2. ASSUME {grants, connected, connecting, polling, stray, manual, dismissed,
                provider, prompt, taken} \subseteq BOOLEAN
        PROVE  Flags
    BY <1>2 DEF Flags
  <1> QED
    BY <1>1, <1>2 DEF WsTypeOK, Kinds

\* What every step of the session does.
LEMMA SessionStep ==
    ASSUME SInv, WsNext
    PROVE  /\ Flags' /\ Kinds' /\ DisconnectStands'
           /\ manual /\ ~connected /\ connected' => connecting /\ ~connecting'
           /\ session = "expired" /\ session' # "expired" => age' # "over"
           /\ restarts' = restarts \/ (restarts < MaxRestarts /\ restarts' = restarts + 1)
  <1>a. Flags /\ Kinds /\ DisconnectStands
    BY FlagsAreTypes DEF SInv
  <1> DEFINE Goal ==
           /\ Flags' /\ Kinds' /\ DisconnectStands'
           /\ manual /\ ~connected /\ connected' => connecting /\ ~connecting'
           /\ session = "expired" /\ session' # "expired" => age' # "over"
           /\ restarts' = restarts \/ (restarts < MaxRestarts /\ restarts' = restarts + 1)
  <1> USE <1>a DEF Flags, Kinds, DisconnectStands, UnlimitedOnlyByPoll, Ages
  <1>1. CASE checkTimer
    BY <1>1 DEF checkTimer, checkSessionExpiry
  <1>2. CASE grow
    BY <1>2 DEF grow
  <1>3. CASE handleConnect \/ connectFailed
    <2>1. connecting' \in BOOLEAN
      BY <1>3, Zenon DEF handleConnect, startConnect, connectFailed
    <2>2. UNCHANGED <<grants, connected, by, age, session, polling, stray, manual,
                      dismissed, provider, prompt, restarts, taken>>
      BY <1>3 DEF handleConnect, connectFailed
    <2> QED
      BY <2>1, <2>2
  <1>4. CASE connectGranted
    BY <1>4 DEF connectGranted, sessionStart, onConnect, setSessionState, checkSessionExpiry, newPoll
  <1>5. CASE disconnectButton
    BY <1>5 DEF disconnectButton, onDisconnect, setSessionState, checkSessionExpiry, newPoll
  <1>6. CASE sync
    BY <1>6 DEF sync, manualBlock
  <1>7. CASE synced
    <2>1. /\ polling /\ UNCHANGED <<grants, connecting, stray, dismissed, provider, prompt, restarts>>
          /\ (polling' <=> connected' # connected)
      BY <1>7 DEF synced, syncAnswered
    <2>2. polling' \in BOOLEAN
      BY <1>7, Zenon DEF synced
    <2>3. CASE grants
      <3>1. /\ manual' = FALSE /\ age' = age /\ connected' = TRUE
            /\ by' = (IF connected THEN by ELSE "poll") /\ setSessionState("idle") /\ taken' = taken
        BY <1>7, <2>3 DEF synced, syncAnswered
      <3>2. manual' \in BOOLEAN /\ connected' \in BOOLEAN
        BY <3>1, Zenon
      <3>3. ~manual' /\ connected'
        BY <3>1
      <3> QED
        BY <2>1, <2>2, <3>1, <3>2, <3>3 DEF setSessionState, checkSessionExpiry
    <2>4. CASE ~grants /\ connected
      <3>1. /\ UNCHANGED manual /\ age' = "none" /\ connected' = FALSE
            /\ by' = "nobody" /\ setSessionState("idle") /\ taken' = FALSE
        BY <1>7, <2>4 DEF synced, syncAnswered
      <3>2. connected' \in BOOLEAN /\ taken' \in BOOLEAN
        BY <3>1, Zenon
      <3>3. ~connected' /\ ~manual'
        BY <2>4, <3>1
      <3> QED
        BY <2>1, <2>2, <3>1, <3>2, <3>3 DEF setSessionState, checkSessionExpiry
    <2>5. CASE ~grants /\ ~connected
      <3>1. UNCHANGED <<manual, connected, by, age, session, taken>>
        BY <1>7, <2>5 DEF synced, syncAnswered
      <3> QED
        BY <2>1, <2>2, <3>1
    <2> QED
      BY <2>3, <2>4, <2>5
  <1>8. CASE strayAnswered
    <2>1. stray' \in BOOLEAN
      BY <1>8, Zenon DEF strayAnswered, unmounted
    <2>2. UNCHANGED <<grants, connected, by, age, session, connecting, polling,
                      manual, dismissed, provider, prompt, restarts, taken>>
      BY <1>8 DEF strayAnswered, unmounted
    <2> QED
      BY <2>1, <2>2
  <1>9. CASE showPrompt \/ promptConfirmed \/ promptDismissed
    <2>1. connecting' \in BOOLEAN /\ dismissed' \in BOOLEAN /\ provider' \in BOOLEAN
          /\ prompt' \in BOOLEAN
      BY <1>9, Zenon DEF showPrompt, promptConfirmed, promptDismissed, startConnect
    <2>2. UNCHANGED <<grants, connected, by, age, session, polling, stray, manual, restarts, taken>>
      BY <1>9 DEF showPrompt, promptConfirmed, promptDismissed
    <2> QED
      BY <2>1, <2>2
  <1>10. CASE warningReconnect \/ dismissSessionWarning
    BY <1>10 DEF warningReconnect, dismissSessionWarning, setSessionState, checkSessionExpiry
  <1>11. CASE expiredReconnect
    BY <1>11 DEF expiredReconnect, setSessionState, checkSessionExpiry
  <1>12. CASE expiredHome
    BY <1>12 DEF expiredHome, onDisconnect, setSessionState, checkSessionExpiry, newPoll
  <1>13. CASE extensionChanges
    BY <1>13 DEF extensionChanges
  <1>14. ASSUME NEW sameTab \in BOOLEAN, restart(sameTab) PROVE Goal
    BY <1>14 DEF restart, checkSessionExpiry
  <1>15. CASE otherTabStarts
    BY <1>15 DEF otherTabStarts
  <1>16. CASE otherTabEnds
    <2>1. /\ age' = "none" /\ (taken' <=> connected /\ (age # "none" \/ taken))
          /\ UNCHANGED <<grants, connected, by, session, connecting, polling, stray,
                         manual, dismissed, prompt, restarts>>
      BY <1>16 DEF otherTabEnds
    <2>2. provider' \in BOOLEAN /\ taken' \in BOOLEAN
      BY <1>16, Zenon DEF otherTabEnds
    <2> QED
      BY <2>1, <2>2
  <1> QED
    BY <1>1, <1>2, <1>3, <1>4, <1>5, <1>6, <1>7, <1>8, <1>9, <1>10, <1>11, <1>12, <1>13, <1>14,
       <1>15, <1>16 DEF WsNext

LEMMA SInvStep == SInv /\ [WsNext]_wsVars => SInv'
  <1> SUFFICES ASSUME SInv, [WsNext]_wsVars PROVE SInv'
    OBVIOUS
  <1>1. CASE WsNext
    <2>1. restarts' \in 0..MaxRestarts
      BY <1>1, SessionStep, WsAssumption DEF SInv, WsTypeOK
    <2>2. Flags' /\ Kinds' /\ DisconnectStands'
      BY <1>1, SessionStep
    <2>3. (WsTypeOK <=> Flags /\ Kinds /\ restarts \in 0..MaxRestarts)'
      BY FlagsAreTypes, PTL
    <2> QED
      BY <2>1, <2>2, <2>3 DEF SInv
  <1>2. CASE UNCHANGED wsVars
    BY <1>2 DEF wsVars, SInv, WsTypeOK, DisconnectStands, UnlimitedOnlyByPoll
  <1> QED
    BY <1>1, <1>2

(* WalletConnect.tsx, AuthContext.tsx: with polls, prompts, timers,        *)
(* reloads and other tabs in any order, only the user's own connect ends a *)
(* disconnection by the user, a session that ran out stays so until it is  *)
(* renewed or given up, and every connection the user made has a time      *)
(* limit until another tab, which shares the limit but not the connection, *)
(* removes it.                                                             *)
THEOREM SessionIsTheUsers == Spec => SessionFollowsUser
  <1>1. Init => SInv
    BY SInvInit DEF Init
  <1>2. SInv /\ [Next]_vars => SInv'
    BY PartsRun, SInvStep
  <1>3. SInv => UnlimitedOnlyByPoll
    BY DEF SInv, DisconnectStands
  <1>4. SInv /\ [Next]_vars =>
          [manual /\ ~connected /\ connected' => connecting /\ ~connecting']_wsVars
    BY PartsRun, SessionStep
  <1>5. SInv /\ [Next]_vars =>
          [session = "expired" /\ session' # "expired" => age' # "over"]_wsVars
    BY PartsRun, SessionStep
  <1> QED
    BY <1>1, <1>2, <1>3, <1>4, <1>5, PTL
       DEF Spec, SessionFollowsUser, PollNeverOverridesUser, ExpiryStands

-----------------------------------------------------------------------------
(* The HTTP calls *)

CallRec == [at : {"idle", "fetch", "sleep", "done", "failed"}, method : Methods,
            retry : BOOLEAN, run : 0..QueryRetries + 1, attempt : 0..ApiAttempts, error : Outcomes]

\* A call sleeps only if it may be sent again; the server has not acted on a
\* call that is not to be repeated and has not settled.
SafeCall(o) ==
    /\ call[o] \in CallRec /\ acted[o] \in Nat
    /\ o \in Queries => call[o].method = "GET"
    /\ call[o].at = "idle" => acted[o] = 0 /\ call[o].run = 0 /\ sentIds[o] = {}
    /\ call[o].at = "sleep" => call[o].method # "POST" /\ call[o].attempt < ApiAttempts
    /\ call[o].at = "fetch" /\ call[o].method = "POST" => acted[o] = 0
    /\ call[o].method = "POST" => acted[o] <= 1

\* Ids are drawn in order, and so are the runs of a query.
IdsInOrder ==
    \A o \in ApiOps : \A x \in sentIds[o] :
        /\ x \in [run : Nat, id : Nat] /\ x.id <= lastId /\ x.run <= call[o].run

CInv ==
    /\ DOMAIN call = ApiOps /\ call = [o \in ApiOps |-> call[o]]
    /\ acted \in [ApiOps -> Nat] /\ DOMAIN sentIds = ApiOps /\ lastId \in Nat
    /\ \A o \in ApiOps : SafeCall(o)
    /\ IdsInOrder /\ OneIdPerCall

LEMMA CInvInit == ApiInit => CInv
  <1> SUFFICES ASSUME ApiInit PROVE CInv
    OBVIOUS
  <1> DEFINE c == [at |-> "idle", method |-> "GET", retry |-> TRUE, run |-> 0, attempt |-> 0,
                   error |-> "ok"]
  <1>1. 0 \in 0..QueryRetries + 1 /\ 0 \in 0..ApiAttempts
    BY ApiAssumption
  <1>2. c \in CallRec /\ c.at = "idle" /\ c.run = 0 /\ c.method = "GET"
    BY <1>1 DEF CallRec, Methods, Outcomes
  <1>3. call = [o \in ApiOps |-> c] /\ acted = [o \in ApiOps |-> 0]
        /\ sentIds = [o \in ApiOps |-> {}] /\ lastId = 0
    BY DEF ApiInit
  <1> HIDE DEF c
  <1>4. \A o \in ApiOps : SafeCall(o)
    BY <1>2, <1>3 DEF SafeCall
  <1>5. IdsInOrder /\ OneIdPerCall
    BY <1>3 DEF IdsInOrder, OneIdPerCall
  <1> QED
    BY <1>3, <1>4, <1>5 DEF CInv

\* One call changes.
LEMMA OtherCalls ==
    ASSUME CInv, NEW o \in ApiOps, NEW c, call' = [call EXCEPT ![o] = c],
           NEW n \in Nat, acted' = [acted EXCEPT ![o] = n]
    PROVE  /\ DOMAIN call' = ApiOps /\ call' = [p \in ApiOps |-> call'[p]]
           /\ acted' \in [ApiOps -> Nat] /\ call'[o] = c /\ acted'[o] = n
           /\ \A p \in ApiOps : p # o => call'[p] = call[p] /\ acted'[p] = acted[p]
  BY DEF CInv

LEMMA StartStep ==
    ASSUME CInv, NEW o \in ApiOps, NEW c \in CallRec, startCall(o, c), UNCHANGED acted,
           c.at = "fetch", c.run > call[o].run, o \in Queries => c.method = "GET",
           c.method = "POST" => acted[o] = 0
    PROVE  CInv'
  <1> DEFINE x == [run |-> c.run, id |-> lastId + 1]
  <1>1. /\ call' = [call EXCEPT ![o] = c] /\ lastId' = lastId + 1
        /\ sentIds' = [sentIds EXCEPT ![o] = @ \union {x}]
    BY DEF startCall
  <1>2. /\ lastId \in Nat /\ c.run \in Nat /\ call[o].run \in Nat /\ acted[o] \in Nat
        /\ lastId' \in Nat
    BY <1>1, ApiAssumption DEF CInv, SafeCall, CallRec
  <1>3. /\ DOMAIN call' = ApiOps /\ call' = [p \in ApiOps |-> call'[p]] /\ call'[o] = c
        /\ \A p \in ApiOps : p # o => call'[p] = call[p]
    BY <1>1 DEF CInv
  <1>4. /\ DOMAIN sentIds' = ApiOps /\ sentIds'[o] = sentIds[o] \cup {x}
        /\ \A p \in ApiOps : p # o => sentIds'[p] = sentIds[p]
    BY <1>1 DEF CInv
  <1>5. x \in [run : Nat, id : Nat] /\ x.run = c.run /\ x.id = lastId + 1
    BY <1>2
  <1> HIDE DEF x
  <1>6. \A p \in ApiOps : SafeCall(p)'
    <2> SUFFICES ASSUME NEW p \in ApiOps PROVE SafeCall(p)'
      OBVIOUS
    <2>1. SafeCall(p)
      BY DEF CInv
    <2>2. CASE p = o
      BY <1>2, <1>3, <2>2 DEF SafeCall
    <2>3. CASE p # o
      BY <1>3, <1>4, <2>1, <2>3 DEF SafeCall
    <2> QED
      BY <2>2, <2>3
  <1>7. ASSUME NEW p \in ApiOps, NEW y \in sentIds[p]
        PROVE  /\ y \in [run : Nat, id : Nat] /\ y.id \in Nat /\ y.run \in Nat
               /\ y.id <= lastId /\ y.run <= call[p].run
    BY DEF CInv, IdsInOrder
  <1>8. IdsInOrder'
    <2> SUFFICES ASSUME NEW p \in ApiOps, NEW y \in sentIds'[p]
                 PROVE  y \in [run : Nat, id : Nat] /\ y.id <= lastId' /\ y.run <= call'[p].run
      BY DEF IdsInOrder
    <2>1. CASE p = o /\ y = x
      BY <1>1, <1>2, <1>3, <1>5, <2>1
    <2>2. CASE p = o /\ y # x
      <3>1. y \in sentIds[o]
        BY <1>4, <2>2
      <3>2. y \in [run : Nat, id : Nat] /\ y.id \in Nat /\ y.run \in Nat /\ y.id <= lastId
            /\ y.run <= call[o].run
        BY <1>7, <3>1
      <3> QED
        BY <1>1, <1>2, <1>3, <2>2, <3>2
    <2>3. CASE p # o
      <3>1. y \in sentIds[p] /\ call'[p] = call[p]
        BY <1>3, <1>4, <2>3
      <3>2. y \in [run : Nat, id : Nat] /\ y.id \in Nat /\ y.id <= lastId
            /\ y.run <= call[p].run
        BY <1>7, <3>1
      <3> QED
        BY <1>1, <1>2, <3>1, <3>2
    <2> QED
      BY <2>1, <2>2, <2>3
  <1>9. ASSUME NEW p \in ApiOps, NEW y \in sentIds[p] PROVE y.id # x.id
    BY <1>2, <1>5, <1>7, <1>9
  <1>10. ASSUME NEW y \in sentIds[o] PROVE y.run # x.run
    BY <1>2, <1>5, <1>7, <1>10
  <1>11. OneIdPerCall'
    <2>1. \A p \in ApiOps : \A y, z \in sentIds'[p] : y.run = z.run <=> y.id = z.id
      <3> SUFFICES ASSUME NEW p \in ApiOps, NEW y \in sentIds'[p], NEW z \in sentIds'[p]
                   PROVE  y.run = z.run <=> y.id = z.id
        OBVIOUS
      <3>1. CASE y \in sentIds[p] /\ z \in sentIds[p]
        BY <3>1 DEF CInv, OneIdPerCall
      <3>2. CASE p = o /\ (y = x \/ z = x)
        BY <1>4, <1>9, <1>10, <3>2
      <3> QED
        BY <1>4, <3>1, <3>2
    <2>2. \A p, q \in ApiOps : p # q =>
            {y.id : y \in sentIds'[p]} \intersect {y.id : y \in sentIds'[q]} = {}
      <3> SUFFICES ASSUME NEW p \in ApiOps, NEW q \in ApiOps, p # q,
                          NEW y \in sentIds'[p], NEW z \in sentIds'[q], y.id = z.id
                   PROVE  FALSE
        OBVIOUS
      <3>1. CASE y \in sentIds[p] /\ z \in sentIds[q]
        <4>1. {u.id : u \in sentIds[p]} \intersect {u.id : u \in sentIds[q]} = {}
          BY DEF CInv, OneIdPerCall
        <4> QED
          BY <3>1, <4>1
      <3>2. CASE p = o /\ y = x
        BY <1>4, <1>9, <3>2
      <3>3. CASE q = o /\ z = x
        BY <1>4, <1>9, <3>3
      <3> QED
        BY <1>4, <3>1, <3>2, <3>3
    <2> QED
      BY <2>1, <2>2 DEF OneIdPerCall
  <1> QED
    BY <1>2, <1>3, <1>4, <1>6, <1>8, <1>11 DEF CInv

\* A step of a call under way.
LEMMA MoveStep ==
    ASSUME CInv, NEW o \in ApiOps, NEW c \in CallRec, call' = [call EXCEPT ![o] = c],
           NEW n \in Nat, acted' = [acted EXCEPT ![o] = n], UNCHANGED <<sentIds, lastId>>,
           c.run = call[o].run, c.method = call[o].method, c.at # "idle",
           c.at = "sleep" => c.method # "POST" /\ c.attempt < ApiAttempts,
           c.at = "fetch" /\ c.method = "POST" => n = 0,
           c.method = "POST" => n <= 1
    PROVE  CInv'
  <1>1. /\ DOMAIN call' = ApiOps /\ call' = [p \in ApiOps |-> call'[p]]
        /\ acted' \in [ApiOps -> Nat] /\ call'[o] = c /\ acted'[o] = n
        /\ \A p \in ApiOps : p # o => call'[p] = call[p] /\ acted'[p] = acted[p]
    BY OtherCalls
  <1>2. \A p \in ApiOps : SafeCall(p)'
    <2> SUFFICES ASSUME NEW p \in ApiOps PROVE SafeCall(p)'
      OBVIOUS
    <2>1. SafeCall(p)
      BY DEF CInv
    <2>2. CASE p = o
      BY <1>1, <2>1, <2>2 DEF SafeCall
    <2>3. CASE p # o
      BY <1>1, <2>1, <2>3 DEF SafeCall
    <2> QED
      BY <2>2, <2>3
  <1>3. \A p \in ApiOps : call'[p].run = call[p].run
    BY <1>1
  <1>4. IdsInOrder' /\ OneIdPerCall'
    BY <1>3 DEF CInv, IdsInOrder, OneIdPerCall
  <1> QED
    BY <1>1, <1>2, <1>4 DEF CInv

LEMMA CInvStep == CInv /\ [ApiNext]_apiVars => CInv'
  <1> SUFFICES ASSUME CInv, [ApiNext]_apiVars PROVE CInv'
    OBVIOUS
  <1>1. CASE UNCHANGED apiVars
    BY <1>1 DEF apiVars, CInv, SafeCall, IdsInOrder, OneIdPerCall
  <1>2. ASSUME NEW o \in ApiOps, request(o) PROVE CInv'
    <2>1. PICK m \in Methods, r \in BOOLEAN :
            /\ o \in Queries => m = "GET" /\ r
            /\ startCall(o, [at |-> "fetch", method |-> m, retry |-> r, run |-> 1,
                             attempt |-> 1, error |-> "ok"])
      BY <1>2 DEF request
    <2> DEFINE c == [at |-> "fetch", method |-> m, retry |-> r, run |-> 1, attempt |-> 1,
                     error |-> "ok"]
    <2>2. 1 \in 0..QueryRetries + 1 /\ 1 \in 0..ApiAttempts
      BY ApiAssumption
    <2>3. c \in CallRec /\ c.at = "fetch" /\ c.run = 1 /\ c.method = m
      BY <2>2 DEF CallRec, Outcomes
    <2>4. startCall(o, c)
      BY <2>1
    <2> HIDE DEF c
    <2>5. call[o].at = "idle" /\ UNCHANGED acted
      BY <1>2 DEF request
    <2>6. acted[o] = 0 /\ call[o].run = 0
      BY <2>5 DEF CInv, SafeCall
    <2>7. c.run > call[o].run
      BY <2>3, <2>6
    <2>8. o \in Queries => c.method = "GET"
      BY <2>1, <2>3
    <2> QED
      BY <2>3, <2>4, <2>5, <2>6, <2>7, <2>8, StartStep
  <1>3. ASSUME NEW o \in ApiOps PROVE call[o] \in CallRec /\ SafeCall(o) /\ acted[o] \in Nat
    BY <1>3 DEF CInv, SafeCall
  <1>4. ASSUME NEW o \in ApiOps, retryNow(o) PROVE CInv'
    <2> DEFINE c == [call[o] EXCEPT !.at = "fetch", !.attempt = @ + 1]
    <2>1. /\ call[o].at = "sleep" /\ UNCHANGED <<sentIds, lastId, acted>>
          /\ call' = [call EXCEPT ![o].at = "fetch", ![o].attempt = @ + 1]
      BY <1>4 DEF retryNow, sameId
    <2>2. call[o].method # "POST" /\ call[o].attempt < ApiAttempts
      BY <1>3, <2>1 DEF SafeCall
    <2>3. call[o].attempt + 1 \in 0..ApiAttempts
      BY <1>3, <2>2, ApiAssumption DEF CallRec
    <2>4. /\ c \in CallRec /\ c.at = "fetch" /\ c.run = call[o].run /\ c.method = call[o].method
      BY <1>3, <2>3 DEF CallRec
    <2>5. call' = [call EXCEPT ![o] = c]
      BY <2>1
    <2> HIDE DEF c
    <2> DEFINE n == acted[o]
    <2>6. acted' = [acted EXCEPT ![o] = n] /\ n \in Nat
      BY <1>3, <2>1 DEF CInv
    <2> HIDE DEF n
    <2>7. c.method # "POST" /\ c.at # "idle" /\ c.at # "sleep"
      BY <2>2, <2>4
    <2> QED
      BY <2>1, <2>4, <2>5, <2>6, <2>7, MoveStep
  <1>5. ASSUME NEW o \in ApiOps, retryQuery(o) PROVE CInv'
    <2> DEFINE c == [call[o] EXCEPT !.at = "fetch", !.run = @ + 1, !.attempt = 1]
    <2>1. /\ o \in Queries /\ call[o].at = "failed" /\ call[o].run <= QueryRetries
          /\ startCall(o, c) /\ UNCHANGED acted
      BY <1>5 DEF retryQuery
    <2>2. call[o].run \in Nat /\ call[o].run + 1 \in 0..QueryRetries + 1 /\ 1 \in 0..ApiAttempts
      BY <1>3, <2>1, ApiAssumption DEF CallRec
    <2>3. /\ c \in CallRec /\ c.at = "fetch" /\ c.run = call[o].run + 1
          /\ c.method = call[o].method
      BY <1>3, <2>2 DEF CallRec
    <2> HIDE DEF c
    <2>4. c.method = "GET"
      BY <1>3, <2>1, <2>3 DEF SafeCall
    <2>5. c.run > call[o].run
      BY <2>2, <2>3
    <2> QED
      BY <2>1, <2>3, <2>4, <2>5, StartStep
  <1>6. ASSUME NEW o \in ApiOps, NEW outcome \in Outcomes, NEW reached \in BOOLEAN,
               settle(o, outcome, reached)
        PROVE  CInv'
    <2> DEFINE d == [call[o] EXCEPT !.error = outcome]
               at == IF outcome = "ok" THEN "done" ELSE IF shouldRetry(d) THEN "sleep" ELSE "failed"
               c == [d EXCEPT !.at = at]
               n == IF reached THEN acted[o] + 1 ELSE acted[o]
    <2>1. /\ call[o].at = "fetch" /\ UNCHANGED <<sentIds, lastId>>
          /\ call' = [call EXCEPT ![o] = c]
          /\ acted' = [acted EXCEPT ![o] = IF reached THEN @ + 1 ELSE @]
      BY <1>6 DEF settle
    <2>2. d \in CallRec /\ d.run = call[o].run /\ d.method = call[o].method
      BY <1>3 DEF CallRec
    <2> HIDE DEF d
    <2>3. at \in {"done", "sleep", "failed"}
      OBVIOUS
    <2>4. at = "sleep" => d.method # "POST" /\ d.attempt < ApiAttempts
      BY DEF shouldRetry
    <2> HIDE DEF at
    <2>5. /\ c \in CallRec /\ c.run = d.run /\ c.method = d.method /\ c.at = at
          /\ c.attempt = d.attempt
      BY <2>2, <2>3 DEF CallRec
    <2> HIDE DEF c
    <2>6. acted' = [acted EXCEPT ![o] = n]
      BY <2>1 DEF CInv
    <2>7. n \in Nat /\ (c.method = "POST" => n <= 1)
      BY <1>3, <2>1, <2>2, <2>5 DEF SafeCall
    <2> HIDE DEF n
    <2>8. c.at # "idle" /\ c.at # "fetch" /\ c.run = call[o].run /\ c.method = call[o].method
      BY <2>2, <2>3, <2>5
    <2> QED
      BY <2>1, <2>4, <2>5, <2>6, <2>7, <2>8, MoveStep, ZenonT(30)
  <1> QED
    BY <1>1, <1>2, <1>4, <1>5, <1>6 DEF ApiNext

-----------------------------------------------------------------------------
(* The wizard: the page *)

Form == [amount : WizAmounts, error : BOOLEAN, editing : BOOLEAN]
Approval == [allowance : Nat, status : {"idle", "pending", "confirmed"}, sent : Seq(Nat)]

\* An approval that is confirmed covers the amount, or came late; the review
\* shows no amount that was found wrong; one that was checked, as it is and for
\* this wallet, passes unless it was found wrong.
PageOK ==
    /\ url \in Urls /\ form \in Form /\ approval \in Approval
    /\ checked \in BOOLEAN /\ lateApproval \in BOOLEAN /\ mount \in 1..MaxMounts
    /\ wizWallet \in WizWallets \union {NoWallet} /\ result \in {"none", "success", "failure"}
    /\ form.editing => url.home /\ url.step = "amount"
    /\ approval.status = "confirmed" => number(form.amount) <= approval.allowance \/ lateApproval
    /\ url.step = "review" => ~form.error
    /\ url.home /\ checked /\ ~form.error => passes(url.tab, form.amount)

LEMMA AmountTypes ==
    /\ \A a \in WizAmounts : number(a) \in Nat /\ (a # Empty => a \in Nat /\ number(a) = a)
    /\ Empty \in WizAmounts /\ Linked \union {Empty} \subseteq WizAmounts /\ Typed \subseteq WizAmounts
  <1>1. ASSUME NEW a \in WizAmounts, a # Empty PROVE a \in Nat
    BY <1>1, WizAssumption DEF WizAmounts
  <1> QED
    BY <1>1 DEF number, WizAmounts, Empty

LEMMA FreshPage ==
    ASSUME NEW u \in Urls
    PROVE  /\ FreshForm(u) \in Form /\ ~FreshForm(u).editing /\ ~FreshForm(u).error
           /\ FreshApproval \in Approval /\ FreshApproval.status = "idle"
  <1>1. u.amount \in WizAmounts
    BY AmountTypes DEF Urls
  <1>2. FreshForm(u) \in Form /\ ~FreshForm(u).editing /\ ~FreshForm(u).error
    BY <1>1 DEF FreshForm, Form
  <1>3. FreshApproval \in Approval /\ FreshApproval.status = "idle"
    BY DEF FreshApproval, Approval
  <1> QED
    BY <1>2, <1>3

LEMMA PageInit == WizInit => PageOK
  <1> SUFFICES ASSUME WizInit PROVE PageOK
    OBVIOUS
  <1>1. url \in Urls
    BY DEF WizInit, Urls
  <1>2. form = FreshForm(url) /\ approval = FreshApproval /\ ~checked /\ result = "none"
        /\ wizWallet = NoWallet
    BY DEF WizInit
  <1>3. mount \in 1..MaxMounts
    BY WizAssumption DEF WizInit
  <1>4. checked \in BOOLEAN /\ lateApproval \in BOOLEAN
    BY Zenon DEF WizInit
  <1> QED
    BY <1>1, <1>2, <1>3, <1>4, FreshPage DEF PageOK

LEMMA RenderStep ==
    ASSUME PageOK, NEW u \in Urls, NEW a \in WizAmounts, render(u, a),
           UNCHANGED <<wizWallet, lateApproval, mount>>, result' \in {"none", "success", "failure"},
           u.home => url.home, u.step = "review" => ~form.error
    PROVE  PageOK' /\ url' = u
  <1> DEFINE linked == /\ u.tab = "deposit" /\ number(u.amount) > 0
                       /\ <<u.tab, u.amount>> # <<url.tab, url.amount>>
             amount == IF linked THEN u.amount ELSE a
             editing == form.editing /\ u.home /\ u.step = "amount"
             f == [form EXCEPT !.amount = amount, !.editing = editing]
             p == [approval EXCEPT !.status = "idle"]
  <1>1. /\ url' = u /\ form' = f
        /\ approval' = (IF amount = form.amount THEN approval ELSE p)
        /\ checked' = (checked /\ amount = form.amount /\ u.tab = url.tab)
    BY DEF render
  <1>2. amount \in WizAmounts
    BY AmountTypes DEF Urls
  <1> HIDE DEF amount
  <1>3. editing \in BOOLEAN
    BY DEF PageOK, Form
  <1> HIDE DEF editing
  <1>4. f \in Form /\ f.amount = amount /\ f.editing = editing /\ f.error = form.error
    BY <1>2, <1>3 DEF PageOK, Form
  <1> HIDE DEF f
  <1>5. p \in Approval /\ p.status = "idle"
    BY DEF PageOK, Approval
  <1> HIDE DEF p
  <1>6. checked' \in BOOLEAN
    BY <1>1, Zenon
  <1>7. /\ form'.editing => url'.home /\ url'.step = "amount"
        /\ url'.step = "review" => ~form'.error
    BY <1>1, <1>4 DEF editing
  <1>8. approval' \in Approval
        /\ (approval'.status = "confirmed"
             => number(form'.amount) <= approval'.allowance \/ lateApproval')
    <2>1. CASE amount = form.amount
      BY <1>1, <1>4, <2>1 DEF PageOK
    <2>2. CASE amount # form.amount
      BY <1>1, <1>5, <2>2
    <2> QED
      BY <2>1, <2>2
  <1>9. ASSUME url'.home, checked', ~form'.error
        PROVE  passes(url.tab, form.amount)'
    <2>1. form'.amount = form.amount /\ url'.tab = url.tab /\ url.home /\ checked /\ ~form.error
      BY <1>1, <1>4, <1>9
    <2>2. passes(url.tab, form.amount)
      BY <2>1 DEF PageOK
    <2> QED
      BY <2>1, <2>2 DEF passes, availableBalance
  <1> QED
    BY <1>1, <1>4, <1>6, <1>7, <1>8, <1>9 DEF PageOK

LEMMA EnterStep ==
    ASSUME PageOK, NEW u \in Urls, enter(u), UNCHANGED wizWallet
    PROVE  PageOK'
  <1>1. /\ url' = u /\ form' = FreshForm(u) /\ result' = "none" /\ approval' = FreshApproval
        /\ ~checked'
    BY DEF enter
  <1>2. checked' \in BOOLEAN /\ lateApproval' \in BOOLEAN
    BY Zenon DEF enter
  <1>3. mount' \in 1..MaxMounts
    BY WizAssumption DEF enter, PageOK
  <1>4. wizWallet' \in WizWallets \union {NoWallet}
    BY DEF PageOK
  <1> QED
    BY <1>1, <1>2, <1>3, <1>4, FreshPage DEF PageOK

\* A URL with another step, tab or amount.
LEMMA UrlChanges ==
    ASSUME NEW u \in Urls
    PROVE  /\ \A s \in Steps : LET v == [u EXCEPT !.step = s]
                               IN v \in Urls /\ v.step = s /\ v.home = u.home
           /\ \A tab \in Tabs : LET v == [u EXCEPT !.tab = tab]
                                IN v \in Urls /\ v.step = u.step /\ v.home = u.home
           /\ LET v == [u EXCEPT !.amount = Empty]
              IN v \in Urls /\ v.step = u.step /\ v.home = u.home
  BY DEF Urls

LEMMA HomeTypes ==
    /\ Home \in Urls /\ Home.home /\ Home.step = "amount"
    /\ Elsewhere \in Urls /\ ~Elsewhere.home /\ Elsewhere.step = "amount"
  BY DEF Home, Elsewhere, Urls, Tabs, Steps

-----------------------------------------------------------------------------
(* The wizard: the transactions *)

TxRec == [at : {"asked", "sent"}, action : Tabs, amount : WizAmounts, wallet : WizWallets,
          url : Urls, mount : Nat, sent : {<< >>} \union (Tabs \X WizAmounts \X WizWallets),
          covered : BOOLEAN, passed : BOOLEAN, checked : BOOLEAN]

\* What a handler holds on to is sound from the moment it is asked for.
TxOK(r) ==
    /\ r.url.home /\ r.action = r.url.tab
    /\ r.action = "deposit" => r.covered
    /\ ~r.passed => ~r.checked
    /\ r.at = "sent" => r.sent = <<r.url.tab, r.amount, r.wallet>>

Held ==
    /\ tx \in [WizTxs -> TxRec \union {NoTx, Over}]
    /\ \A t \in WizTxs : tx[t] \in TxRec => TxOK(tx[t])
    /\ OneSubmissionPerPage

\* A summary is on show only on the page, for a transaction this page asked
\* for, while nothing of this page is on its way.
Shown ==
    /\ modal \subseteq WizTxs /\ trigger \subseteq Tabs
    /\ modal # {} => url.home
    /\ \A t \in modal : tx[t].at = "asked" /\ tx[t].mount = mount /\ ~isBusy

WzInv == PageOK /\ Held /\ Shown

LEMMA HeldKinds ==
    ASSUME Held, NEW t \in WizTxs
    PROVE  /\ tx[t].at \in {"none", "asked", "sent", "over"}
           /\ tx[t].at \in {"asked", "sent"} <=> tx[t] \in TxRec
  <1>1. CASE tx[t] \in TxRec
    <2>1. tx[t].at \in {"asked", "sent"}
      BY <1>1 DEF TxRec
    <2> QED
      BY <1>1, <2>1
  <1>2. CASE tx[t] = NoTx
    <2>1. tx[t].at = "none"
      BY <1>2 DEF NoTx
    <2> QED
      BY <2>1 DEF TxRec
  <1>3. CASE tx[t] = Over
    <2>1. tx[t].at = "over"
      BY <1>3 DEF Over
    <2> QED
      BY <2>1 DEF TxRec
  <1> QED
    BY <1>1, <1>2, <1>3 DEF Held

\* One transaction moves on; if it is sent, nothing else is from its page.
LEMMA TxMoves ==
    ASSUME Held, NEW t \in WizTxs, NEW r \in TxRec \union {Over}, tx' = [tx EXCEPT ![t] = r],
           r \in TxRec => TxOK(r),
           r.at = "sent" => \A s \in WizTxs : tx[s].at = "sent" => tx[s].mount # r.mount
    PROVE  Held' /\ tx'[t] = r /\ \A s \in WizTxs \ {t} : tx'[s] = tx[s]
  <1>1. tx' \in [WizTxs -> TxRec \union {NoTx, Over}]
    BY DEF Held
  <1>2. tx'[t] = r /\ \A s \in WizTxs \ {t} : tx'[s] = tx[s]
    BY DEF Held
  <1>3. \A s \in WizTxs : tx'[s] \in TxRec => TxOK(tx'[s])
    BY <1>2 DEF Held
  <1>4. ASSUME NEW s \in WizTxs, NEW o \in WizTxs, tx'[s].at = "sent", tx'[o].at = "sent", s # o
        PROVE  tx'[s].mount # tx'[o].mount
    <2>1. CASE s = t
      BY <1>2, <1>4, <2>1
    <2>2. CASE o = t
      BY <1>2, <1>4, <2>2
    <2>3. CASE s # t /\ o # t
      BY <1>2, <1>4, <2>3 DEF Held, OneSubmissionPerPage
    <2> QED
      BY <2>1, <2>2, <2>3
  <1> QED
    BY <1>1, <1>2, <1>3, <1>4 DEF Held, OneSubmissionPerPage, TxOK

\* The summary goes and its transaction with it.
LEMMA TxDropped ==
    ASSUME Held, Shown, modal' = {}, UNCHANGED trigger,
           tx' = [t \in WizTxs |-> IF t \in modal THEN Over ELSE tx[t]]
    PROVE  Held' /\ Shown'
  <1>1. tx' \in [WizTxs -> TxRec \union {NoTx, Over}]
    BY DEF Held
  <1>2. Over \notin TxRec /\ Over.at # "sent"
    BY DEF Over, TxRec
  <1>3. \A s \in WizTxs : tx'[s] = Over \/ tx'[s] = tx[s]
    OBVIOUS
  <1>4. \A s \in WizTxs : tx'[s] \in TxRec => TxOK(tx'[s])
    BY <1>2, <1>3 DEF Held
  <1>5. ASSUME NEW s \in WizTxs, NEW o \in WizTxs, tx'[s].at = "sent", tx'[o].at = "sent", s # o
        PROVE  tx'[s].mount # tx'[o].mount
    BY <1>2, <1>3, <1>5 DEF Held, OneSubmissionPerPage
  <1>6. Shown'
    BY DEF Shown
  <1> QED
    BY <1>1, <1>4, <1>5, <1>6 DEF Held, OneSubmissionPerPage, TxOK

\* The page changes under what it holds: while a summary is on show, the page
\* stays where it is.
LEMMA TxSame ==
    ASSUME Held, Shown, UNCHANGED <<tx, modal>>, trigger' \subseteq Tabs,
           modal # {} => url'.home /\ mount' = mount
    PROVE  Held' /\ Shown'
  <1>1. Held'
    BY DEF Held, OneSubmissionPerPage, TxOK
  <1>2. Shown'
    BY DEF Shown, isBusy
  <1> QED
    BY <1>1, <1>2

LEMMA WzInvInit == WizInit => WzInv
  <1> SUFFICES ASSUME WizInit PROVE WzInv
    OBVIOUS
  <1>1. PageOK
    BY PageInit
  <1>2. tx = [t \in WizTxs |-> NoTx] /\ modal = {} /\ trigger = {}
    BY DEF WizInit
  <1>3. NoTx \notin TxRec /\ NoTx.at # "sent"
    BY DEF NoTx, TxRec
  <1>4. Held
    BY <1>2, <1>3 DEF Held, OneSubmissionPerPage
  <1>5. Shown
    BY <1>2 DEF Shown
  <1> QED
    BY <1>1, <1>4, <1>5 DEF WzInv

LEMMA AskStep ==
    ASSUME WzInv, NEW t \in WizTxs, handleTransaction(t)
    PROVE  Held' /\ Shown'
  <1> DEFINE cov == number(form.amount) <= approval.allowance \/ lateApproval
             pas == passes(url.tab, form.amount)
             r == [at |-> "asked", action |-> url.tab, amount |-> form.amount, wallet |-> wizWallet,
                   url |-> url, mount |-> mount, sent |-> << >>,
                   covered |-> cov, passed |-> pas, checked |-> checked]
  <1>1. /\ tx' = [tx EXCEPT ![t] = r] /\ modal' = {t} /\ url.home /\ url.step = "review" /\ ~isBusy
        /\ wizWallet # NoWallet /\ UNCHANGED <<url, trigger, mount>>
        /\ url.tab = "deposit" =>
             ~needsApproval(number(form.amount)) \/ approval.status = "confirmed"
    BY DEF handleTransaction, AtStep, here
  <1>2. PageOK /\ Held /\ Shown
    BY DEF WzInv
  <1>3. number(form.amount) \in Nat /\ approval.allowance \in Nat
    BY <1>2, AmountTypes DEF PageOK, Form, Approval
  <1>4. url.tab = "deposit" => cov
    BY <1>1, <1>2, <1>3 DEF PageOK, needsApproval
  <1>5. ~pas => ~checked
    BY <1>1, <1>2 DEF PageOK
  <1>6. cov \in BOOLEAN
    BY Zenon DEF PageOK
  <1>7. pas \in BOOLEAN
    BY Zenon DEF passes
  <1> HIDE DEF cov, pas
  <1>8. /\ url.tab \in Tabs /\ form.amount \in WizAmounts /\ wizWallet \in WizWallets /\ url \in Urls
        /\ mount \in Nat /\ checked \in BOOLEAN
    BY <1>1, <1>2 DEF PageOK, Form, Urls
  <1>9. r \in TxRec /\ r.at = "asked" /\ r.mount = mount
    BY <1>6, <1>7, <1>8 DEF TxRec
  <1>10. TxOK(r)
    BY <1>1, <1>4, <1>5 DEF TxOK
  <1> HIDE DEF r
  <1>11. Held' /\ tx'[t] = r /\ \A s \in WizTxs \ {t} : tx'[s] = tx[s]
    BY <1>1, <1>2, <1>9, <1>10, TxMoves
  <1>12. ~isBusy'
    BY <1>1, <1>9, <1>11 DEF isBusy
  <1> QED
    BY <1>1, <1>2, <1>9, <1>11, <1>12 DEF Shown

LEMMA ConfirmStep ==
    ASSUME WzInv, NEW t \in WizTxs, handleConfirm(t)
    PROVE  WzInv'
  <1>1. PageOK /\ Held /\ Shown
    BY DEF WzInv
  <1>2. /\ t \in modal /\ modal' = {} /\ UNCHANGED <<trigger, wizWallet, mount, lateApproval>>
    BY DEF handleConfirm, here
  <1>3. tx[t].at = "asked" /\ tx[t].mount = mount /\ ~isBusy /\ url.home
    BY <1>1, <1>2 DEF Shown
  <1>4. tx[t] \in TxRec /\ TxOK(tx[t])
    BY <1>1, <1>3, HeldKinds DEF Held
  <1>5. Shown'
    BY <1>1, <1>2 DEF Shown
  <1>6. CASE tx[t].action = "deposit" /\ number(tx[t].amount) = 0
    <2> DEFINE u == [tx[t].url EXCEPT !.step = "result"]
    <2>1. tx' = [tx EXCEPT ![t] = Over] /\ result' = "failure" /\ render(u, form.amount)
      BY <1>6 DEF handleConfirm
    <2>2. u \in Urls /\ u.step = "result"
      BY <1>4, UrlChanges DEF TxRec, Steps
    <2> HIDE DEF u
    <2>3. form.amount \in WizAmounts
      BY <1>1 DEF PageOK, Form
    <2>4. PageOK'
      BY <1>1, <1>2, <1>3, <2>1, <2>2, <2>3, RenderStep
    <2>5. Over \notin TxRec /\ Over.at # "sent"
      BY DEF Over, TxRec
    <2>6. Held'
      BY <1>1, <2>1, <2>5, TxMoves
    <2> QED
      BY <1>5, <2>4, <2>6 DEF WzInv
  <1>7. CASE ~(tx[t].action = "deposit" /\ number(tx[t].amount) = 0)
    <2> DEFINE r == [tx[t] EXCEPT !.at = "sent", !.sent = submission(t)]
    <2>1. /\ tx' = [tx EXCEPT ![t].at = "sent", ![t].sent = submission(t)]
          /\ UNCHANGED <<url, form, result, approval, checked>>
      BY <1>7 DEF handleConfirm
    <2>2. tx' = [tx EXCEPT ![t] = r]
      BY <2>1, <1>1 DEF Held
    <2>3. submission(t) \in Tabs \X WizAmounts \X WizWallets
      BY <1>4 DEF submission, TxRec
    <2>4. submission(t) = <<tx[t].url.tab, tx[t].amount, tx[t].wallet>>
      BY <1>4 DEF submission, TxOK
    <2>5. r \in TxRec
      BY <1>4, <2>3 DEF TxRec
    <2>6. /\ r.at = "sent" /\ r.sent = submission(t) /\ r.url = tx[t].url /\ r.amount = tx[t].amount
          /\ r.wallet = tx[t].wallet /\ r.action = tx[t].action /\ r.covered = tx[t].covered
          /\ r.passed = tx[t].passed /\ r.checked = tx[t].checked /\ r.mount = tx[t].mount
      BY <1>4 DEF TxRec
    <2> HIDE DEF r
    <2>7. TxOK(r)
      BY <1>4, <2>4, <2>6 DEF TxOK
    <2>8. \A s \in WizTxs : tx[s].at = "sent" => tx[s].mount # r.mount
      BY <1>3, <2>6 DEF isBusy
    <2>9. Held'
      BY <1>1, <2>2, <2>5, <2>7, <2>8, TxMoves
    <2>10. PageOK'
      BY <1>1, <1>2, <2>1 DEF PageOK, passes, availableBalance
    <2> QED
      BY <1>5, <2>9, <2>10 DEF WzInv
  <1> QED
    BY <1>6, <1>7

LEMMA SucceedStep ==
    ASSUME WzInv, NEW t \in WizTxs, succeeded(t)
    PROVE  WzInv'
  <1> DEFINE u == [tx[t].url EXCEPT !.step = "result"]
  <1>1. PageOK /\ Held /\ Shown
    BY DEF WzInv
  <1>2. /\ tx[t].at = "sent" /\ tx' = [tx EXCEPT ![t] = Over]
        /\ UNCHANGED <<modal, trigger, wizWallet>>
    BY DEF succeeded
  <1>3. tx[t] \in TxRec /\ TxOK(tx[t])
    BY <1>1, <1>2, HeldKinds DEF Held
  <1>4. u \in Urls /\ u.step = "result" /\ u.home
    <2>1. tx[t].url \in Urls /\ tx[t].url.home
      BY <1>3 DEF TxRec, TxOK
    <2>2. "result" \in Steps
      BY DEF Steps
    <2>3. u \in Urls /\ u.step = "result" /\ u.home = tx[t].url.home
      BY <2>1, <2>2, UrlChanges
    <2> QED
      BY <2>1, <2>3
  <1>5. Over \notin TxRec /\ Over.at # "sent" /\ Over \in {Over}
    BY DEF Over, TxRec
  <1>6. Held' /\ tx'[t] = Over /\ \A s \in WizTxs \ {t} : tx'[s] = tx[s]
    BY <1>1, <1>2, <1>5, TxMoves
  <1>7. t \notin modal
    BY <1>1, <1>2 DEF Shown
  <1>8. CASE url.home
    <2>1. /\ render(u, form.amount) /\ UNCHANGED <<mount, lateApproval>>
          /\ result' = IF tx[t].mount = mount THEN "success" ELSE result
      BY <1>8 DEF succeeded, here
    <2> HIDE DEF u
    <2>2. form.amount \in WizAmounts /\ result' \in {"none", "success", "failure"}
      BY <1>1, <2>1 DEF PageOK, Form
    <2>3. PageOK' /\ url' = u
      BY <1>1, <1>2, <1>4, <1>8, <2>1, <2>2, RenderStep
    <2>4. \A s \in modal : s \in WizTxs \ {t} /\ tx'[s] = tx[s]
      BY <1>1, <1>6, <1>7 DEF Shown
    <2>5. isBusy' => isBusy
      BY <1>5, <1>6, <2>1 DEF isBusy
    <2>6. Shown'
      BY <1>1, <1>2, <1>4, <2>1, <2>3, <2>4, <2>5 DEF Shown
    <2> QED
      BY <1>6, <2>3, <2>6 DEF WzInv
  <1>9. CASE ~url.home
    <2>1. enter(u)
      BY <1>9 DEF succeeded
    <2> HIDE DEF u
    <2>2. PageOK'
      BY <1>1, <1>2, <1>4, <2>1, EnterStep
    <2>3. modal' = {}
      BY <1>1, <1>2, <1>9 DEF Shown
    <2>4. Shown'
      BY <1>1, <1>2, <2>3 DEF Shown
    <2> QED
      BY <1>6, <2>2, <2>4 DEF WzInv
  <1> QED
    BY <1>8, <1>9

LEMMA ChangeStep ==
    ASSUME PageOK, NEW a \in Typed, handleChange(a)
    PROVE  PageOK'
  <1> DEFINE f == [form EXCEPT !.amount = a, !.editing = TRUE]
             p == [approval EXCEPT !.status = "idle"]
  <1>1. /\ form' = f /\ url.home /\ url.step = "amount"
        /\ approval' = (IF a = form.amount THEN approval ELSE p)
        /\ checked' = (checked /\ a = form.amount)
        /\ UNCHANGED <<url, result, wizWallet, mount, lateApproval>>
    BY DEF handleChange, AtStep, here
  <1>2. a \in WizAmounts
    BY AmountTypes
  <1>3. f \in Form /\ f.amount = a /\ f.error = form.error
    BY <1>2 DEF PageOK, Form
  <1> HIDE DEF f
  <1>4. p \in Approval /\ p.status = "idle"
    BY DEF PageOK, Approval
  <1> HIDE DEF p
  <1>5. checked' \in BOOLEAN
    BY <1>1, Zenon
  <1>6. approval' \in Approval
        /\ (approval'.status = "confirmed"
             => number(form'.amount) <= approval'.allowance \/ lateApproval')
    <2>1. CASE a = form.amount
      BY <1>1, <1>3, <2>1 DEF PageOK
    <2>2. CASE a # form.amount
      BY <1>1, <1>4, <2>2
    <2> QED
      BY <2>1, <2>2
  <1>7. ASSUME url'.home, checked', ~form'.error
        PROVE  passes(url.tab, form.amount)'
    <2>1. form'.amount = form.amount /\ url' = url /\ checked /\ ~form.error
      BY <1>1, <1>3, <1>7
    <2>2. passes(url.tab, form.amount)
      BY <1>1, <2>1 DEF PageOK
    <2> QED
      BY <1>1, <2>1, <2>2 DEF passes, availableBalance
  <1>8. url'.home /\ url'.step = "amount"
    BY <1>1
  <1> QED
    BY <1>1, <1>3, <1>5, <1>6, <1>7, <1>8 DEF PageOK

LEMMA BlurStep ==
    ASSUME PageOK, handleBlur
    PROVE  PageOK'
  <1> DEFINE bad == ~passes(url.tab, form.amount)
             f == [form EXCEPT !.editing = FALSE, !.error = bad]
  <1>1. /\ form' = f /\ form.editing /\ checked'
        /\ UNCHANGED <<url, result, approval, wizWallet, mount, lateApproval>>
    BY DEF handleBlur
  <1>2. checked' \in BOOLEAN
    BY Zenon DEF handleBlur
  <1>3. bad \in BOOLEAN
    OBVIOUS
  <1>4. url.home /\ url.step = "amount"
    BY <1>1 DEF PageOK
  <1>5. bad \/ passes(url.tab, form.amount)
    OBVIOUS
  <1> HIDE DEF bad
  <1>6. f \in Form /\ f.amount = form.amount /\ f.error = bad /\ ~f.editing
    BY <1>3 DEF PageOK, Form
  <1> HIDE DEF f
  <1>7. ~form'.error => passes(url.tab, form.amount)'
    BY <1>1, <1>5, <1>6 DEF passes, availableBalance
  <1> QED
    BY <1>1, <1>2, <1>4, <1>6, <1>7 DEF PageOK

LEMMA ApproveStep ==
    ASSUME PageOK, approve
    PROVE  PageOK'
  <1> DEFINE p == [approval EXCEPT !.status = "pending", !.sent = Append(approval.sent, form.amount)]
  <1>1. /\ approval' = p /\ needsApproval(number(form.amount))
        /\ UNCHANGED <<url, form, result, wizWallet, checked, mount, lateApproval>>
    BY DEF approve, here
  <1>2. form.amount \in Nat
    BY <1>1, AmountTypes DEF PageOK, Form, needsApproval, number
  <1>3. Append(approval.sent, form.amount) \in Seq(Nat)
    BY <1>2 DEF PageOK, Approval
  <1>4. p \in Approval /\ p.status = "pending"
    BY <1>3 DEF PageOK, Approval
  <1> HIDE DEF p
  <1> QED
    BY <1>1, <1>4 DEF PageOK, passes, availableBalance

LEMMA ApprovedStep ==
    ASSUME PageOK, approved
    PROVE  PageOK'
  <1>1. /\ approval' = [allowance |-> Head(approval.sent), status |-> "confirmed",
                        sent |-> Tail(approval.sent)]
        /\ approval.sent # << >>
        /\ lateApproval' = (lateApproval \/ Head(approval.sent) # form.amount)
        /\ UNCHANGED <<url, form, result, wizWallet, checked, mount>>
    BY DEF approved
  <1>2. Head(approval.sent) \in Nat /\ Tail(approval.sent) \in Seq(Nat)
    BY <1>1 DEF PageOK, Approval
  <1>3. approval' \in Approval /\ approval'.allowance = Head(approval.sent)
    BY <1>1, <1>2 DEF Approval
  <1>4. lateApproval' \in BOOLEAN
    BY <1>1, Zenon
  <1>5. number(form'.amount) <= approval'.allowance \/ lateApproval'
    <2>1. CASE Head(approval.sent) = form.amount
      BY <1>1, <1>2, <1>3, <2>1 DEF number, Empty
    <2>2. CASE Head(approval.sent) # form.amount
      BY <1>1, <2>2, Zenon
    <2> QED
      BY <2>1, <2>2
  <1> QED
    BY <1>1, <1>3, <1>4, <1>5 DEF PageOK, passes, availableBalance

\* navigate("/") on the page or from elsewhere.
LEMMA NavigateStep ==
    ASSUME WzInv, navigateHome, UNCHANGED <<tx, modal, wizWallet>>, trigger' \subseteq Tabs
    PROVE  WzInv'
  <1>1. PageOK /\ Held /\ Shown
    BY DEF WzInv
  <1>2. CASE url.home
    <2>1. render(Home, form.amount) /\ UNCHANGED <<result, mount, lateApproval>>
      BY <1>2 DEF navigateHome, here
    <2>2. form.amount \in WizAmounts /\ result' \in {"none", "success", "failure"}
      BY <1>1, <2>1 DEF PageOK, Form
    <2>3. PageOK' /\ url' = Home
      BY <1>1, <1>2, <2>1, <2>2, HomeTypes, RenderStep
    <2>4. Held' /\ Shown'
      BY <1>1, <2>1, <2>3, HomeTypes, TxSame
    <2> QED
      BY <2>3, <2>4 DEF WzInv
  <1>3. CASE ~url.home
    <2>1. enter(Home)
      BY <1>3 DEF navigateHome
    <2>2. PageOK'
      BY <1>1, <2>1, HomeTypes, EnterStep
    <2>3. modal = {}
      BY <1>1, <1>3 DEF Shown
    <2>4. Held' /\ Shown'
      BY <1>1, <2>3, TxSame
    <2> QED
      BY <2>2, <2>4 DEF WzInv
  <1> QED
    BY <1>2, <1>3

\* The page renders anew, for another step, tab or amount, and stays the page.
LEMMA SamePageStep ==
    ASSUME WzInv, NEW u \in Urls, NEW a \in WizAmounts, render(u, a),
           UNCHANGED <<tx, modal, wizWallet, mount, lateApproval>>, trigger' \subseteq Tabs,
           result' \in {"none", "success", "failure"}, u.home = url.home,
           u.step = "review" => ~form.error
    PROVE  WzInv'
  <1>1. PageOK /\ Held /\ Shown
    BY DEF WzInv
  <1>2. PageOK' /\ url' = u
    BY <1>1, RenderStep
  <1>3. modal # {} => url'.home
    BY <1>1, <1>2 DEF Shown
  <1>4. Held' /\ Shown'
    BY <1>1, <1>3, TxSame
  <1> QED
    BY <1>2, <1>4 DEF WzInv

LEMMA LeaveStep ==
    ASSUME WzInv, leave
    PROVE  WzInv'
  <1>1. PageOK /\ Held /\ Shown
    BY DEF WzInv
  <1>2. /\ url' = Elsewhere /\ approval' = FreshApproval /\ ~form.editing /\ modal' = {}
        /\ tx' = [t \in WizTxs |-> IF t \in modal THEN Over ELSE tx[t]]
        /\ UNCHANGED <<form, result, trigger, wizWallet, checked, mount, lateApproval>>
    BY DEF leave, here
  <1>3. Held' /\ Shown'
    BY <1>1, <1>2, TxDropped
  <1>4. approval' \in Approval /\ approval'.status = "idle"
    BY <1>2, HomeTypes, FreshPage
  <1>5. url' \in Urls /\ ~url'.home /\ url'.step = "amount"
    BY <1>2, HomeTypes
  <1>6. PageOK'
    BY <1>1, <1>2, <1>4, <1>5 DEF PageOK
  <1> QED
    BY <1>3, <1>6 DEF WzInv

LEMMA WzInvStep == WzInv /\ [WizNext]_wizVars => WzInv'
  <1> SUFFICES ASSUME WzInv, [WizNext]_wizVars PROVE WzInv'
    OBVIOUS
  <1>1. PageOK /\ Held /\ Shown
    BY DEF WzInv
  <1>2. /\ url \in Urls /\ form.amount \in WizAmounts /\ result \in {"none", "success", "failure"}
        /\ trigger \subseteq Tabs /\ (url.step = "review" => ~form.error)
    BY <1>1 DEF PageOK, Form, Shown
  <1>3. "amount" \in Steps /\ "review" \in Steps /\ Empty \in WizAmounts
    BY AmountTypes DEF Steps
  <1>4. ASSUME NEW a \in Typed, handleChange(a) PROVE WzInv'
    <2>1. PageOK'
      BY <1>1, <1>4, ChangeStep
    <2>2. UNCHANGED <<url, tx, modal, trigger, mount>>
      BY <1>4 DEF handleChange, here
    <2>3. Held' /\ Shown'
      BY <1>1, <1>2, <2>2, TxSame DEF Shown
    <2> QED
      BY <2>1, <2>3 DEF WzInv
  <1>5. CASE handleBlur
    <2>1. PageOK'
      BY <1>1, <1>5, BlurStep
    <2>2. UNCHANGED <<url, tx, modal, trigger, mount>>
      BY <1>5 DEF handleBlur
    <2>3. Held' /\ Shown'
      BY <1>1, <1>2, <2>2, TxSame DEF Shown
    <2> QED
      BY <2>1, <2>3 DEF WzInv
  <1>6. CASE setMax
    <2>1. /\ render(url, availableBalance) /\ availableBalance > 0
          /\ UNCHANGED <<result, tx, modal, trigger, wizWallet, mount, lateApproval>>
      BY <1>6 DEF setMax, here
    <2>2. availableBalance \in WizAmounts
      BY <1>1, <2>1 DEF availableBalance, WizAmounts, PageOK
    <2> QED
      BY <1>2, <2>1, <2>2, SamePageStep
  <1>7. CASE onValueChange
    <2> DEFINE u == [url EXCEPT !.amount = Empty]
    <2>1. /\ render(u, Empty)
          /\ UNCHANGED <<result, tx, modal, trigger, wizWallet, mount, lateApproval>>
      BY <1>7 DEF onValueChange, here
    <2>2. u \in Urls /\ u.step = url.step /\ u.home = url.home
      BY <1>2, UrlChanges
    <2> HIDE DEF u
    <2> QED
      BY <1>2, <1>3, <2>1, <2>2, SamePageStep
  <1>8. CASE goToReview
    <2> DEFINE u == [url EXCEPT !.step = "review"]
    <2>1. /\ render(u, form.amount) /\ ~form.error
          /\ UNCHANGED <<result, tx, modal, trigger, wizWallet, mount, lateApproval>>
      BY <1>8 DEF goToReview, isSubmitDisabled, here
    <2>2. u \in Urls /\ u.home = url.home
      BY <1>2, <1>3, UrlChanges
    <2> HIDE DEF u
    <2> QED
      BY <1>2, <2>1, <2>2, SamePageStep
  <1>9. CASE back
    <2> DEFINE u == [url EXCEPT !.step = "amount"]
    <2>1. /\ render(u, form.amount)
          /\ UNCHANGED <<result, tx, modal, trigger, wizWallet, mount, lateApproval>>
      BY <1>9 DEF back, here
    <2>2. u \in Urls /\ u.home = url.home /\ u.step = "amount"
      BY <1>2, <1>3, UrlChanges
    <2> HIDE DEF u
    <2> QED
      BY <1>2, <2>1, <2>2, SamePageStep
  <1>10. CASE approve
    <2>1. PageOK'
      BY <1>1, <1>10, ApproveStep
    <2>2. UNCHANGED <<url, tx, modal, trigger, mount>>
      BY <1>10 DEF approve, here
    <2>3. Held' /\ Shown'
      BY <1>1, <1>2, <2>2, TxSame DEF Shown
    <2> QED
      BY <2>1, <2>3 DEF WzInv
  <1>11. CASE approved
    <2>1. PageOK'
      BY <1>1, <1>11, ApprovedStep
    <2>2. UNCHANGED <<url, tx, modal, trigger, mount>>
      BY <1>11 DEF approved
    <2>3. Held' /\ Shown'
      BY <1>1, <1>2, <2>2, TxSame DEF Shown
    <2> QED
      BY <2>1, <2>3 DEF WzInv
  <1>12. ASSUME NEW t \in WizTxs, handleTransaction(t) PROVE WzInv'
    <2>1. Held' /\ Shown'
      BY <1>12, AskStep
    <2>2. UNCHANGED <<url, form, result, approval, wizWallet, checked, mount, lateApproval>>
      BY <1>12 DEF handleTransaction, here
    <2>3. PageOK'
      BY <1>1, <2>2 DEF PageOK, passes, availableBalance
    <2> QED
      BY <2>1, <2>3 DEF WzInv
  <1>13. ASSUME NEW t \in WizTxs, handleConfirm(t) \/ succeeded(t) PROVE WzInv'
    BY <1>13, ConfirmStep, SucceedStep
  <1>14. CASE handleCancel
    <2>1. /\ modal' = {} /\ tx' = [t \in WizTxs |-> IF t \in modal THEN Over ELSE tx[t]]
          /\ UNCHANGED <<url, form, result, approval, trigger, wizWallet, checked, mount, lateApproval>>
      BY <1>14 DEF handleCancel, here
    <2>2. Held' /\ Shown'
      BY <1>1, <2>1, TxDropped
    <2>3. PageOK'
      BY <1>1, <2>1 DEF PageOK, passes, availableBalance
    <2> QED
      BY <2>2, <2>3 DEF WzInv
  <1>15. CASE resetWizard
    <2> DEFINE u == [url EXCEPT !.amount = Empty]
    <2>1. /\ render(u, Empty) /\ result' = "none"
          /\ UNCHANGED <<tx, modal, trigger, wizWallet, mount, lateApproval>>
      BY <1>15 DEF resetWizard, here
    <2>2. u \in Urls /\ u.step = url.step /\ u.home = url.home
      BY <1>2, UrlChanges
    <2> HIDE DEF u
    <2> QED
      BY <1>2, <1>3, <2>1, <2>2, SamePageStep
  <1>16. CASE leave
    BY <1>16, LeaveStep
  <1>17. CASE goHome
    <2>1. navigateHome /\ UNCHANGED <<tx, modal, trigger, wizWallet>>
      BY <1>17 DEF goHome
    <2> QED
      BY <1>2, <2>1, NavigateStep
  <1>18. ASSUME NEW tab \in Tabs, shortcut(tab) PROVE WzInv'
    <2>1. navigateHome /\ trigger' = {tab} /\ UNCHANGED <<tx, modal, wizWallet>>
      BY <1>18 DEF shortcut
    <2> QED
      BY <1>18, <2>1, NavigateStep
  <1>19. ASSUME NEW tab \in Tabs, triggered(tab) PROVE WzInv'
    <2> DEFINE u == IF url.home THEN [url EXCEPT !.tab = tab] ELSE url
    <2>1. /\ render(u, form.amount) /\ trigger' = {}
          /\ UNCHANGED <<result, tx, modal, wizWallet, mount, lateApproval>>
      BY <1>19 DEF triggered, here
    <2>2. u \in Urls /\ u.step = url.step /\ u.home = url.home
      BY <1>2, <1>19, UrlChanges
    <2> HIDE DEF u
    <2> QED
      BY <1>2, <2>1, <2>2, SamePageStep
  <1>20. ASSUME NEW w \in WizWallets \union {NoWallet}, changeWallet(w) PROVE WzInv'
    <2>1. /\ wizWallet' = w /\ checked' = FALSE
          /\ UNCHANGED <<url, form, result, approval, tx, modal, trigger, mount, lateApproval>>
      BY <1>20 DEF changeWallet, here
    <2>2. Held' /\ Shown'
      BY <1>1, <1>2, <2>1, TxSame DEF Shown
    <2>3. checked' \in BOOLEAN
      BY <2>1, Zenon
    <2>4. PageOK'
      BY <1>1, <2>1, <2>3 DEF PageOK
    <2> QED
      BY <2>2, <2>4 DEF WzInv
  <1>21. CASE UNCHANGED wizVars
    <2>1. UNCHANGED <<url, form, result, approval, wizWallet, checked, mount, lateApproval, tx, modal, trigger>>
      BY <1>21 DEF wizVars
    <2>2. Held' /\ Shown'
      BY <1>1, <1>2, <2>1, TxSame DEF Shown
    <2>3. PageOK'
      BY <1>1, <2>1 DEF PageOK, passes, availableBalance
    <2> QED
      BY <2>2, <2>3 DEF WzInv
  <1> QED
    BY <1>4, <1>5, <1>6, <1>7, <1>8, <1>9, <1>10, <1>11, <1>12, <1>13, <1>14, <1>15, <1>16,
       <1>17, <1>18, <1>19, <1>20, <1>21 DEF WizNext

-----------------------------------------------------------------------------
(* What a submission is *)

LEMMA SoundParts == WzInv /\ CInv => SubmissionsAreSound
  <1> SUFFICES ASSUME WzInv, CInv PROVE SubmissionsAreSound
    OBVIOUS
  <1>1. Held
    BY DEF WzInv
  <1>2. \A t \in Asked : t \in WizTxs /\ TxOK(tx[t])
    BY <1>1, HeldKinds DEF Asked, Held
  <1>3. SentAsShown /\ DepositsAreApproved /\ RefusedAmountsWereUnchecked
    BY <1>2 DEF TxOK, SentAsShown, DepositsAreApproved, RefusedAmountsWereUnchecked
  <1>4. UnsafeActedOnce /\ OneIdPerCall
    BY DEF CInv, SafeCall, UnsafeActedOnce
  <1> QED
    BY <1>1, <1>3, <1>4 DEF SubmissionsAreSound, Held

LEMMA TypedParts == WzInv /\ SInv /\ QInv /\ CInv => SubmissionTypeOK
  <1> SUFFICES ASSUME WzInv, SInv, QInv, CInv PROVE SubmissionTypeOK
    OBVIOUS
  <1>1. PageOK /\ Held /\ Shown
    BY DEF WzInv
  <1>2. approval.allowance \in Nat /\ approval.status \in {"idle", "pending", "confirmed"}
    BY <1>1 DEF PageOK, Approval
  <1>3. WizTypeOK
    BY <1>1, <1>2, HeldKinds DEF PageOK, Shown, Form, WizTypeOK
  <1>4. ApiTypeOK
    BY DEF CInv, SafeCall, CallRec, ApiTypeOK
  <1> QED
    BY <1>3, <1>4 DEF SInv, QInv, SubmissionTypeOK

(* VaultDashboard, useTransactionConfirmation, the API client: whatever    *)
(* the shortcuts, the wallet, links, late approvals, retries and           *)
(* navigation do under an open summary, a page has one submission on its   *)
(* way at most, which carries what was shown, for an approved deposit, and *)
(* the server carries out an unsafe call once.                             *)
THEOREM Soundness == Spec => []SubmissionsAreSound
  <1>1. Init => WzInv /\ CInv
    BY WzInvInit, CInvInit DEF Init
  <1>2. WzInv /\ CInv /\ [Next]_vars => WzInv' /\ CInv'
    BY PartsRun, WzInvStep, CInvStep
  <1>3. WzInv /\ CInv => SubmissionsAreSound
    BY SoundParts
  <1> QED
    BY <1>1, <1>2, <1>3, PTL DEF Spec

(* The state of the wizard, the session, the cache and the calls keeps     *)
(* its type.                                                               *)
THEOREM SubmissionTyped == Spec => []SubmissionTypeOK
  <1>1. Init => WzInv /\ SInv /\ QInv /\ CInv
    BY WzInvInit, SInvInit, QInvInit, CInvInit DEF Init
  <1>2. WzInv /\ SInv /\ QInv /\ CInv /\ [Next]_vars => WzInv' /\ SInv' /\ QInv' /\ CInv'
    BY PartsRun, WzInvStep, SInvStep, QInvStep, CInvStep
  <1>3. WzInv /\ SInv /\ QInv /\ CInv => SubmissionTypeOK
    BY TypedParts
  <1> QED
    BY <1>1, <1>2, <1>3, PTL DEF Spec
=============================================================================
