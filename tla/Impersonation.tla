---------------------------- MODULE Impersonation ----------------------------
(***************************************************************************)
(* Administrators' impersonation sessions                                  *)
(* (backend/src/impersonationSessionService.ts) in the default storage     *)
(* mode, hybrid: a write the database refuses goes to the memory of the    *)
(* process instead, and a read it refuses is answered from there.  A call  *)
(* of the database may also be done and its answer lost, which the code    *)
(* takes for a refusal.  The variable of the environment that names the    *)
(* mode also says whether the route of the wallet asks for a session.      *)
(***************************************************************************)
EXTENDS Naturals, FiniteSets

CONSTANTS ImpSessions, ImpCalls,
          NoSession,      \* the id of a request without a session header
          MaxImpFaults    \* bound: database calls refused or unanswered

ASSUME ImpAssumption == MaxImpFaults \in Nat /\ NoSession \notin ImpSessions

VARIABLES
    storageSet,     \* IMPERSONATION_SESSION_STORAGE is set, to hybrid
    impDb, impMem,  \* sessions in the database and in memory: id -> status
    impPast,        \* sessions past their expiresAt
    impDbLedger,    \* the ledger in the database: <<session, event>>
    impMemLedger,   \* and in memory
    impCalls,       \* requests under way: c -> [op, at, session, snap, event]
    impStarted,     \* ids given to sessions
    impEnded,       \* history: sessions whose end was answered
    impViews,       \* history: sessions in which the wallet was shown
    impLost,        \* history: entries a restart took from memory, or that a
                    \* request was about to write when it came
    impFaults

impVars == <<storageSet, impDb, impMem, impPast, impDbLedger, impMemLedger, impCalls,
             impStarted, impEnded, impViews, impLost, impFaults>>

ImpStatus == {"active", "ended", "expired"}
ImpEvents == {"started", "ended", "expired", "access"}
ImpIdle == [op |-> "none", at |-> "idle", session |-> NoSession, snap |-> "none", event |-> "none"]

ImpTypeOK ==
    /\ storageSet \in BOOLEAN /\ impStarted \subseteq ImpSessions
    /\ DOMAIN impDb \subseteq impStarted /\ DOMAIN impMem \subseteq impStarted
    /\ \A s \in DOMAIN impDb : impDb[s] \in ImpStatus
    /\ \A s \in DOMAIN impMem : impMem[s] \in ImpStatus
    /\ impPast \subseteq ImpSessions /\ impFaults \in 0..MaxImpFaults

ImpInit ==
    /\ storageSet \in BOOLEAN
    /\ impDb = << >> /\ impMem = << >> /\ impPast = {}
    /\ impDbLedger = {} /\ impMemLedger = {}
    /\ impCalls = [c \in ImpCalls |-> ImpIdle]
    /\ impStarted = {} /\ impEnded = {} /\ impViews = {} /\ impLost = {} /\ impFaults = 0

storesUnchanged == UNCHANGED <<impDb, impMem, impDbLedger, impMemLedger>>

-----------------------------------------------------------------------------
\* What becomes of a call of the database.
Outcomes == {"done", "unanswered", "refused"}

DbAnswers(a) ==
    /\ a # "done" => impFaults < MaxImpFaults
    /\ impFaults' = IF a = "done" THEN impFaults ELSE impFaults + 1

Step(c, r) == impCalls' = [impCalls EXCEPT ![c] = r]
ImpDone(c) == Step(c, ImpIdle)

With(store, s, status) ==
    [t \in DOMAIN store \cup {s} |-> IF t = s THEN status ELSE store[t]]

\* Mutant: create without the update of an upsert.
Stored_once(store, s, status) == IF s \in DOMAIN store THEN store ELSE With(store, s, status)

Stored(store, s, status) == With(store, s, status)

\* The status that goes with what happened.
StatusAt(event) == IF event = "started" THEN "active" ELSE event

\* The session is stored; the ledger is next.
persistSession(c, a) ==
    LET r == impCalls[c]
    IN /\ r.at = "persist" /\ DbAnswers(a)
       /\ impDb' = IF a = "refused" THEN impDb ELSE Stored(impDb, r.session, StatusAt(r.event))
       /\ impMem' = IF a = "done" THEN impMem ELSE Stored(impMem, r.session, StatusAt(r.event))
       /\ Step(c, [r EXCEPT !.at = "note"])
       /\ UNCHANGED <<storageSet, impPast, impDbLedger, impMemLedger, impStarted,
                      impEnded, impViews, impLost>>

\* What follows the entry: the wallet is shown, or the request answered.
afterEntry(r) == IF r.event = "access" THEN [r EXCEPT !.at = "show"] ELSE ImpIdle

appendLedgerEntry(c, a) ==
    LET r == impCalls[c]
        entry == <<r.session, r.event>>
    IN /\ r.at = "note" /\ DbAnswers(a)
       /\ impDbLedger' = IF a = "refused" THEN impDbLedger ELSE impDbLedger \cup {entry}
       /\ impMemLedger' = IF a = "done" THEN impMemLedger ELSE impMemLedger \cup {entry}
       /\ Step(c, afterEntry(r))
       /\ impEnded' = IF r.event = "ended" THEN impEnded \cup {r.session} ELSE impEnded
       /\ UNCHANGED <<storageSet, impDb, impMem, impPast, impStarted, impViews, impLost>>

Found(store, s) == IF s \in DOMAIN store THEN store[s] ELSE "none"

\* The database's answer stands even when it does not know the session.
getSessionById(s, a) == IF a = "done" THEN Found(impDb, s) ELSE Found(impMem, s)

resolveEffectiveStatus(s, status) ==
    IF status = "active" /\ s \in impPast THEN "expired" ELSE status

\* A session under a new id, to be stored and noted.
startImpersonationSession(c, s) ==
    /\ impCalls[c].at = "idle" /\ s \notin impStarted
    /\ impStarted' = impStarted \cup {s}
    /\ Step(c, [op |-> "start", at |-> "persist", session |-> s, snap |-> "none",
                event |-> "started"])
    /\ storesUnchanged
    /\ UNCHANGED <<storageSet, impPast, impEnded, impViews, impLost, impFaults>>

\* Both other operations begin by reading the session.
ImpRead(c, op, s, a) ==
    /\ impCalls[c].at = "idle" /\ DbAnswers(a)
    /\ Step(c, [op |-> op, at |-> "read", session |-> s, snap |-> getSessionById(s, a),
                event |-> "none"])
    /\ storesUnchanged
    /\ UNCHANGED <<storageSet, impPast, impStarted, impEnded, impViews, impLost>>

Effective(c) == resolveEffectiveStatus(impCalls[c].session, impCalls[c].snap)

\* The end of an active session is written over what is stored; an unknown or
\* expired session is answered 404, one that has ended is answered as it is.
endImpersonationSession(c) ==
    /\ impCalls[c].op = "end" /\ impCalls[c].at = "read"
    /\ IF Effective(c) = "active"
         THEN Step(c, [impCalls[c] EXCEPT !.at = "persist", !.event = "ended"])
         ELSE ImpDone(c)
    /\ impEnded' = IF Effective(c) = "ended" THEN impEnded \cup {impCalls[c].session} ELSE impEnded
    /\ storesUnchanged
    /\ UNCHANGED <<storageSet, impPast, impStarted, impViews, impLost, impFaults>>

markSessionExpired(r) == [r EXCEPT !.at = "persist", !.event = "expired"]
noteAccess(r) == [r EXCEPT !.at = "note", !.event = "access"]

\* The view of the wallet: in an active session it is noted in the ledger and
\* then shown; the first look at an expired one marks it.
validateImpersonationSession(c) ==
    /\ impCalls[c].op = "view" /\ impCalls[c].at = "read"
    /\ Step(c, CASE Effective(c) = "active" -> noteAccess(impCalls[c])
                 [] Effective(c) = "expired" /\ impCalls[c].snap # "expired" ->
                      markSessionExpired(impCalls[c])
                 [] OTHER -> ImpIdle)
    /\ storesUnchanged
    /\ UNCHANGED <<storageSet, impPast, impStarted, impEnded, impViews, impLost, impFaults>>

\* Without a session header the route validates nothing, and refuses the
\* request only when the mode is configured.
viewWithoutSession(c) ==
    /\ impCalls[c].at = "idle" /\ ~storageSet
    /\ Step(c, [ImpIdle EXCEPT !.op = "view", !.at = "show"])
    /\ storesUnchanged
    /\ UNCHANGED <<storageSet, impPast, impStarted, impEnded, impViews, impLost, impFaults>>

\* The route answers with the wallet's data.
ImpShow(c) ==
    /\ impCalls[c].at = "show"
    /\ impViews' = impViews \cup {impCalls[c].session}
    /\ ImpDone(c)
    /\ storesUnchanged
    /\ UNCHANGED <<storageSet, impPast, impStarted, impEnded, impLost, impFaults>>

ImpExpires(s) ==
    /\ s \in impStarted /\ s \notin impPast
    /\ impPast' = impPast \cup {s}
    /\ storesUnchanged
    /\ UNCHANGED <<storageSet, impCalls, impStarted, impEnded, impViews, impLost, impFaults>>

\* The entries requests were about to write.
Unwritten == {<<impCalls[c].session, impCalls[c].event>> :
                 c \in {d \in ImpCalls : impCalls[d].at = "note"}}

\* The process stops and starts again, with an empty memory.
impRestart ==
    /\ impMem' = << >> /\ impMemLedger' = {}
    /\ impCalls' = [c \in ImpCalls |-> ImpIdle]
    /\ impLost' = impLost \cup ((impMemLedger \cup Unwritten) \ impDbLedger)
    /\ UNCHANGED <<storageSet, impDb, impPast, impDbLedger, impStarted, impEnded, impViews, impFaults>>

ImpNext ==
    \/ impRestart
    \/ \E s \in ImpSessions : ImpExpires(s)
    \/ \E c \in ImpCalls :
         \/ \E s \in ImpSessions : startImpersonationSession(c, s)
         \/ \E a \in Outcomes :
              \/ persistSession(c, a) \/ appendLedgerEntry(c, a)
              \/ \E s \in ImpSessions, op \in {"end", "view"} : ImpRead(c, op, s, a)
         \/ endImpersonationSession(c) \/ validateImpersonationSession(c) \/ viewWithoutSession(c)
         \/ ImpShow(c)

-----------------------------------------------------------------------------
(* Properties. *)

\* The trail of something is in a ledger, or a restart lost it.
Noted(s, event) == <<s, event>> \in impDbLedger \cup impMemLedger \cup impLost

\* A request is about to note it.
BeingNoted(s, event) ==
    \E c \in ImpCalls :
        impCalls[c].at = "note" /\ impCalls[c].session = s /\ impCalls[c].event = event

\* GET /admin/impersonate/:wallet: what is shown of a wallet in a session, the
\* ledger says was accessed, in a session it says was started, whichever store
\* each of them went to, or a restart lost the entry.  Without a session the
\* wallet is shown only where the mode is not configured; no ledger tells of
\* it, and its trail is the audit log (AuditKeepsLatest of Pipeline) alone.
ViewsAreInLedger ==
    \A s \in impViews :
        IF s = NoSession
          THEN ~storageSet
          ELSE Noted(s, "access") /\ (Noted(s, "started") \/ BeingNoted(s, "started"))

\* A request that may still show a wallet.
MayShow(c) ==
    impCalls[c].op = "view" /\ impCalls[c].at = "read" /\ Effective(c) = "active"

\* endImpersonationSession answers that the session is over although its
\* write may have gone to the other store.  A request that begins after that
\* answer is shown the wallet only if the database failed a call.
EndedIsOver ==
    [][\A c \in ImpCalls :
         impCalls[c].at = "idle" /\ MayShow(c)' /\ impCalls'[c].session \in impEnded
           => impFaults' > 0]_impVars
=============================================================================
