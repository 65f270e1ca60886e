------------------------------ MODULE Pipeline -------------------------------
(***************************************************************************)
(* The middleware every request passes before its handler, in the order    *)
(* backend/src/index.ts mounts it, and the admin audit log that is written *)
(* when a response finishes.  Up to a handler's first await nothing else   *)
(* runs; a signed vault write awaits its nonce before its own checks.      *)
(*                                                                         *)
(* The request limiters (backend/src/rateLimiter.ts).  Without REDIS_URL a *)
(* limiter counts in memory, in windows that open with the first request   *)
(* of a key (createInMemoryLimiter).  With it the limiter is built while   *)
(* the module loads, before the lazy client has connected, and the answer  *)
(* of isReady at that moment decides for good: every request is skipped.   *)
(***************************************************************************)
EXTENDS FiniteSets, Naturals, Sequences, SequencesExt, TLC

CONSTANTS
    PipeSlots,        \* requests in progress
    AuditRetention,   \* entries the audit log keeps
    MaxArrivals       \* bound: requests that reach their handler, or are refused late

ASSUME PipeAssumption == AuditRetention \in Nat \ {0} /\ MaxArrivals \in Nat

VARIABLES
    maint,      \* maintenance mode
    approved,   \* whether the wallet is on the allowlist
    flagged,    \* whether deposit-v2 is enabled for it
    slot,       \* requests in progress: s -> [req, at, seq]
    auditLog,   \* newest first: numbers of requests
    ended,      \* history: numbers of audited requests, in the order they ended
    arrivals    \* requests so far

pipeVars == <<maint, approved, flagged, slot, auditLog, ended, arrivals>>

\* What the chain tells apart in a request.
Routes == {"health", "read", "deposit", "depositV2", "adminRead", "maintenance",
           "allowlist", "unlisted", "flushKeys", "impersonate"}
PipeRequests == [route: Routes, fits: BOOLEAN, origin: BOOLEAN, limited: BOOLEAN,
             country: {"open", "blocked", "unknown"}, key: BOOLEAN, valid: BOOLEAN]

Admin(r) == r.route \notin {"health", "read", "deposit", "depositV2"}
Free == [req |-> "none", at |-> "free", seq |-> 0]

PipeTypeOK ==
    /\ maint \in BOOLEAN /\ approved \in BOOLEAN /\ flagged \in BOOLEAN
    /\ \A s \in PipeSlots : slot[s].at \in {"free", "signing", "handling"}
    /\ Len(auditLog) <= AuditRetention
    /\ arrivals \in 0..MaxArrivals

PipeInit ==
    /\ maint = FALSE /\ approved \in BOOLEAN /\ flagged \in BOOLEAN
    /\ slot = [s \in PipeSlots |-> Free]
    /\ auditLog = << >> /\ ended = << >> /\ arrivals = 0

-----------------------------------------------------------------------------
(* The filters; each says whether the request passes. *)

tieredJsonBodyParser(r) == r.fits
corsMiddleware(r) == r.origin
readsLimiter(r) == r.route = "health" \/ ~r.limited

\* An unknown country passes.
geofencingMiddleware(r) == r.country # "blocked"

isMutatingMethod(r) == r.route \notin {"health", "read", "adminRead", "impersonate"}

isMaintenanceBypassPath(r) == r.route \in {"health", "maintenance"}

maintenanceModeMiddleware(r) ==
    ~maint \/ ~isMutatingMethod(r) \/ isMaintenanceBypassPath(r)

\* The rules of rbac.ts; a change without a rule is as the API keys'.
resolveAdminRoutePermission(r) ==
    CASE r.route = "impersonate" -> "impersonate"
      [] r.route = "flushKeys" -> "idempotency.flush"
      [] r.route = "maintenance" -> "config.write"
      [] r.route = "allowlist" -> "allowlist.write"
      [] r.route = "adminRead" -> "read"
      [] OTHER -> "api_keys.write"

ROLE_PERMISSIONS == [
    viewer   |-> {"read"},
    operator |-> {"read", "config.write", "allowlist.write"},
    admin    |-> {"read", "config.write", "allowlist.write", "api_keys.write"}]

\* validateApiKey sets no role, and a request without one is an admin's.
resolveApiKeyRole == "admin"

keyValidated(r) == r.key
adminRbacMiddleware(r) == resolveAdminRoutePermission(r) \in ROLE_PERMISSIONS[resolveApiKeyRole]

\* Passed before the audit log listens for the end of the response: a request
\* refused here leaves no trace in it.
Heard(r) == tieredJsonBodyParser(r) /\ corsMiddleware(r) /\ readsLimiter(r)

Passes(r) ==
    /\ Heard(r) /\ geofencingMiddleware(r) /\ maintenanceModeMiddleware(r)
    /\ Admin(r) => keyValidated(r) /\ adminRbacMiddleware(r)

\* After the signature: the allowlist, or the flag of the v2 route, then the body.
allowlistMiddleware(r) == r.route = "deposit" => approved
requireFlag(r) == r.route = "depositV2" => flagged
validateBody(r) == r.valid

-----------------------------------------------------------------------------
\* entries.unshift, then the length cut to the limit.
logged(n) ==
    SubSeq(<<n>> \o auditLog, 1,
           IF Len(auditLog) < AuditRetention THEN Len(auditLog) + 1 ELSE AuditRetention)

\* createAdminAuditMiddleware: the response of request n finishes.
Finish(r, n) ==
    IF Admin(r) THEN auditLog' = logged(n) /\ ended' = Append(ended, n)
                ELSE UNCHANGED <<auditLog, ended>>

\* A refusal is answered at once.
refuse(r) ==
    /\ arrivals < MaxArrivals /\ arrivals' = arrivals + 1
    /\ Heard(r) /\ ~Passes(r)
    /\ Finish(r, arrivals + 1)
    /\ UNCHANGED <<maint, approved, flagged, slot>>

\* An admitted request: the change an admin route makes comes first, what it
\* awaits afterwards.
admit(s, r, on) ==
    /\ arrivals < MaxArrivals /\ arrivals' = arrivals + 1
    /\ slot[s] = Free /\ Passes(r) /\ r.route # "health"
    /\ slot' = [slot EXCEPT ![s] =
           [req |-> r.route, seq |-> arrivals + 1,
            at |-> IF r.route \in {"deposit", "depositV2"} THEN "signing" ELSE "handling"]]
    /\ maint' = IF r.route = "maintenance" THEN on ELSE maint
    /\ approved' = IF r.route = "allowlist" THEN on ELSE approved
    /\ UNCHANGED <<flagged, auditLog, ended>>

\* The flags are read from their file on every request.
editFlags == flagged' = ~flagged /\ UNCHANGED <<maint, approved, slot, auditLog, ended, arrivals>>

\* The nonce is consumed; the checks that follow read the state of now.
signed(s, valid) ==
    /\ slot[s].at = "signing"
    /\ LET r == [route |-> slot[s].req, valid |-> valid]
       IN slot' = [slot EXCEPT ![s] =
             IF allowlistMiddleware(r) /\ requireFlag(r) /\ validateBody(r)
             THEN [@ EXCEPT !.at = "handling"] ELSE Free]
    /\ UNCHANGED <<maint, approved, flagged, auditLog, ended, arrivals>>

\* The handler answers, or the client is gone and no response finishes.
pipeRespond(s, gone) ==
    /\ slot[s].at = "handling"
    /\ slot' = [slot EXCEPT ![s] = Free]
    /\ IF gone THEN UNCHANGED <<auditLog, ended>>
               ELSE Finish([route |-> slot[s].req], slot[s].seq)
    /\ UNCHANGED <<maint, approved, flagged, arrivals>>

\* One request of each kind the filters tell apart is enough to arrive.
Arriving == {r \in PipeRequests : /\ r.fits /\ r.origin /\ r.valid
                              /\ (~r.key => r.route = "adminRead")
                              /\ (r.country # "open" => r.route = "maintenance")
                              /\ (r.limited => r.route = "health")}

PipeNext ==
    \/ \E r \in Arriving : refuse(r)
    \/ \E s \in PipeSlots, r \in Arriving, on \in BOOLEAN : admit(s, r, on)
    \/ \E s \in PipeSlots, b \in BOOLEAN : signed(s, b) \/ pipeRespond(s, b)
    \/ editFlags

-----------------------------------------------------------------------------
(* Properties. *)

WritingNow == {s \in PipeSlots : slot[s].req \in {"deposit", "depositV2"}}

\* maintenanceModeMiddleware: vault writes admitted before may go on, awaiting
\* their signature included, but none joins them while maintenance is on.
WritesDrain == [][maint /\ maint' => WritingNow' \subseteq WritingNow]_pipeVars

\* createAdminAuditMiddleware: requests are logged as they end, not as they
\* arrive; the log holds the ones that ended last and forgets only older ones.
AuditKeepsLatest ==
    auditLog = Reverse(SubSeq(ended, IF Len(ended) > AuditRetention
                                     THEN Len(ended) - AuditRetention + 1 ELSE 1, Len(ended)))

-----------------------------------------------------------------------------
(* The limiters. *)

CONSTANTS LimKeys,
          LimMax, LimWindow,   \* max and windowMs of a tier
          SecondMs,            \* ticks in a second
          LimMaxTime,          \* bound: ticks of the clock
          LimMaxBurst          \* bound: requests of a key in one tick

ASSUME LimAssumption ==
    /\ LimMax \in Nat \ {0} /\ LimWindow \in Nat \ {0} /\ SecondMs \in Nat \ {0}
    /\ LimMaxTime \in Nat

VARIABLES
    redisUrl,    \* REDIS_URL is set
    limNow,
    limEntries,  \* key -> [count, resetAt]
    limPassed,   \* history: key -> time -> requests let through
    limRefused   \* history: key -> the last refusal: [at, retryAt], or none

limVars == <<redisUrl, limNow, limEntries, limPassed, limRefused>>

LimTypeOK ==
    /\ redisUrl \in BOOLEAN /\ limNow \in 0..LimMaxTime
    /\ \A k \in DOMAIN limEntries :
         limEntries[k] \in [count: Nat, resetAt: 1..(LimMaxTime + LimWindow)]
    /\ redisUrl => limEntries = << >>

LimInit ==
    /\ redisUrl \in BOOLEAN /\ limNow = 0
    /\ limEntries = << >>
    /\ limPassed = [k \in LimKeys |-> [t \in 0..LimMaxTime |-> 0]]
    /\ limRefused = << >>

Ceil(a, b) == (a + b - 1) \div b

-----------------------------------------------------------------------------
\* The entry with this request counted, in a new window if the last is over.
entryNow(k) ==
    IF k \in DOMAIN limEntries /\ limEntries[k].resetAt > limNow
      THEN [limEntries[k] EXCEPT !.count = @ + 1]
      ELSE [count |-> 1, resetAt |-> limNow + LimWindow]

\* Mutant: one more.
over_late(n) == n > LimMax + 1

over(n) == n > LimMax

\* Seconds the client is told to wait: the header's reset, in whole seconds
\* rounded up, less the present second rounded down.
retryAfter(e) == Ceil(e.resetAt, SecondMs) - (limNow \div SecondMs)

sendRateLimitResponse(k, e) ==
    /\ limRefused' = [j \in DOMAIN limRefused \cup {k} |->
           IF j = k THEN [at |-> limNow, retryAt |-> limNow + SecondMs * retryAfter(e)]
                    ELSE limRefused[j]]
    /\ UNCHANGED limPassed

passRequest(k) ==
    limPassed' = [limPassed EXCEPT ![k][limNow] = @ + 1] /\ UNCHANGED limRefused

createInMemoryLimiter(k) ==
    /\ ~redisUrl /\ limPassed[k][limNow] < LimMaxBurst
    /\ LET e == entryNow(k)
       IN /\ e.count <= LimMax + LimMaxBurst
          /\ limEntries' = [j \in DOMAIN limEntries \cup {k} |-> IF j = k THEN e ELSE limEntries[j]]
          /\ IF over(e.count) THEN sendRateLimitResponse(k, e) ELSE passRequest(k)
    /\ UNCHANGED <<redisUrl, limNow>>

\* RedisClientManager.isReady as createLimiter reads it: the client connects
\* with its first command, and the limiters are built before there is one.
redisReady == FALSE

\* skip: the limiter keeps what it read when it was created.
createLimiter(k) ==
    /\ redisUrl /\ ~redisReady /\ limPassed[k][limNow] < LimMaxBurst
    /\ passRequest(k) /\ UNCHANGED <<redisUrl, limNow, limEntries>>

limTick ==
    /\ limNow < LimMaxTime /\ limNow' = limNow + 1
    /\ UNCHANGED <<redisUrl, limEntries, limPassed, limRefused>>

LimNext == limTick \/ \E k \in LimKeys : createInMemoryLimiter(k) \/ createLimiter(k)

-----------------------------------------------------------------------------
(* Properties. *)

\* All of these are about the limiter that counts in memory.
passedIn(k, from, to) ==
    SumFunctionOnSet(limPassed[k], {t \in 0..LimMaxTime : from <= t /\ t <= to})

\* createInMemoryLimiter: windows are fixed, not sliding, so a burst at the end
\* of one and the start of the next can pass twice the limit in the time of a
\* window, and never more.
AtMostTwoWindows ==
    ~redisUrl => \A k \in LimKeys, t \in 0..LimMaxTime :
        passedIn(k, t, t + LimWindow - 1) <= 2 * LimMax

\* sendRateLimitResponse rounds both ends of the wait to seconds.  A client
\* that waits as long as it was told is let through, unless others of the same
\* key have used up the new window meanwhile.
RetryAfterSuffices ==
    [][\A k \in DOMAIN limRefused :
         /\ limRefused' # limRefused /\ limRefused[k].retryAt <= limNow
         /\ k \in DOMAIN limEntries /\ limEntries'[k] # limEntries[k]
         => passedIn(k, limRefused[k].at + 1, limNow) >= LimMax]_limVars
=============================================================================
