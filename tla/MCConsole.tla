------------------------------ MODULE MCConsole ------------------------------
(***************************************************************************)
(* The server's handlers around the vault operations, one part at a time:  *)
(* nonces in Redis, what administrators do, the filters before a handler,  *)
(* and what clients read.  The parts share no state, so exploring each     *)
(* beside the initial states of the others loses no behaviour of any.      *)
(***************************************************************************)
EXTENDS WalletNonce, Impersonation, AdminChanges, Pipeline, CursorPages,
        LivePages, Referrals, Exports, ResponseCache

VARIABLE focus   \* the part that is explored

CONSTANTS w1, w2, n1, n3

\* Two wallets and two actions compete for the nonces; w1 also sends a body
\* whose signature does not verify.
MCBodies ==
    [wallet : {w1}, action : {"deposit", "withdrawal"}, nonce : Nonces \ {n3}, signed : {TRUE}]
    \cup [wallet : {w2}, action : {"deposit"}, nonce : {n1}, signed : {TRUE}]
    \cup [wallet : {w1}, action : {"deposit"}, nonce : {n1}, signed : {FALSE}]

\* Boundaries of date ranges: whole days, instants, one without a time zone.
MCBoundaries ==
    [kind : {"none", "zoneless"}, n : {0}] \cup [kind : {"day"}, n : {0, 1, 2}]
    \cup [kind : {"instant"}, n : {2, 5}]

vars == <<focus, nonceAll, impVars, keyVars, adVars, limVars, pipeVars,
          listVars, pageVars, refVars, exportVars, cacheVars, dlVars>>

\* A third nonce may only be issued, after the others: one beyond the cap.
Beyond == issued[n3] = None => issued'[n3] = None \/ ~\E n \in Nonces \ {n3} : issued[n] = None

OnNonces(A) ==
    /\ focus = "nonces" /\ A /\ Beyond /\ n3 \notin expired'
    /\ UNCHANGED <<focus, impVars, keyVars, adVars, limVars, pipeVars,
                   listVars, pageVars, refVars, exportVars, cacheVars, dlVars>>

OnImpersonation(A) ==
    /\ focus = "sessions" /\ A
    /\ UNCHANGED <<focus, nonceAll, keyVars, adVars, limVars, pipeVars,
                   listVars, pageVars, refVars, exportVars, cacheVars, dlVars>>

OnKeys(A) ==
    /\ focus = "keys" /\ A
    /\ UNCHANGED <<focus, nonceAll, impVars, adVars, limVars, pipeVars,
                   listVars, pageVars, refVars, exportVars, cacheVars, dlVars>>

OnChanges(A) ==
    /\ focus = "changes" /\ A
    /\ UNCHANGED <<focus, nonceAll, impVars, keyVars, limVars, pipeVars,
                   listVars, pageVars, refVars, exportVars, cacheVars, dlVars>>

OnLimits(A) ==
    /\ focus = "limits" /\ A
    /\ UNCHANGED <<focus, nonceAll, impVars, keyVars, adVars, pipeVars,
                   listVars, pageVars, refVars, exportVars, cacheVars, dlVars>>

OnPipeline(A) ==
    /\ focus = "pipeline" /\ A
    /\ UNCHANGED <<focus, nonceAll, impVars, keyVars, adVars, limVars,
                   listVars, pageVars, refVars, exportVars, cacheVars, dlVars>>

OnLists(A) ==
    /\ focus = "lists" /\ A
    /\ UNCHANGED <<focus, nonceAll, impVars, keyVars, adVars, limVars,
                   pipeVars, pageVars, refVars, exportVars, cacheVars, dlVars>>

OnPages(A) ==
    /\ focus = "pages" /\ A
    /\ UNCHANGED <<focus, nonceAll, impVars, keyVars, adVars, limVars,
                   pipeVars, listVars, refVars, exportVars, cacheVars, dlVars>>

OnReferrals(part, A) ==
    /\ focus = part /\ A
    /\ UNCHANGED <<focus, nonceAll, impVars, keyVars, adVars, limVars,
                   pipeVars, listVars, pageVars, exportVars, cacheVars, dlVars>>

OnExports(A) ==
    /\ focus = "exports" /\ A
    /\ UNCHANGED <<focus, nonceAll, impVars, keyVars, adVars, limVars,
                   pipeVars, listVars, pageVars, refVars, cacheVars, dlVars>>

OnCache(A) ==
    /\ focus = "cache" /\ A
    /\ UNCHANGED <<focus, nonceAll, impVars, keyVars, adVars, limVars,
                   pipeVars, listVars, pageVars, refVars, exportVars, dlVars>>

OnDeliveries(A) ==
    /\ focus = "deliveries" /\ A
    /\ UNCHANGED <<focus, nonceAll, impVars, keyVars, adVars, limVars,
                   pipeVars, listVars, pageVars, refVars, exportVars, cacheVars>>

Init ==
    /\ focus \in {"nonces", "sessions", "keys", "changes", "limits",
                  "pipeline", "lists", "pages", "referrals", "yield",
                  "exports", "cache", "deliveries"}
    /\ NonceInit /\ ImpInit /\ KeyInit /\ AdInit /\ LimInit /\ PipeInit /\
       ListInit /\ PageInit /\ RefInit /\ ExportInit /\ CacheInit /\ DlInit
    \* What a part that is not explored starts from makes no difference.
    /\ focus # "sessions" => storageSet
    /\ focus # "changes" => auditMode = "memory"
    /\ focus # "limits" => ~redisUrl
    /\ focus # "pipeline" => ~approved /\ ~flagged
    /\ focus # "lists" => size = 0
    /\ focus # "pages" => order = "asc"

Next ==
    \/ OnNonces(NonceNext)
    \/ OnImpersonation(ImpNext)
    \/ OnKeys(KeyNext)
    \/ OnChanges(AdNext)
    \/ OnLimits(LimNext)
    \/ OnPipeline(PipeNext)
    \/ OnLists(ListNext)
    \/ OnPages(PageNext)
    \/ OnReferrals("referrals", CodesNext)
    \/ OnReferrals("yield", YieldNext)
    \/ OnExports(ExportNext)
    \/ OnCache(CacheNext)
    \/ OnDeliveries(DlNext)

Spec == Init /\ [][Next]_vars

\* The state of every part is well typed.
ConsoleTypeOK ==
    /\ NonceTypeOK /\ ImpTypeOK /\ KeyTypeOK /\ AdTypeOK /\ LimTypeOK /\
       PipeTypeOK /\ ListTypeOK /\ PageTypeOK /\ RefTypeOK /\
       ExportTypeOK /\ CacheTypeOK /\ DlTypeOK

\* What administrators do leaves its trail, whatever overlaps or is refused: a
\* wallet they looked at, a key they made or revoked, a setting they changed,
\* a request they sent.
AdminsLeaveATrail ==
    /\ ViewsAreInLedger /\ KeysAreAudited /\ TrailTellsRevocation
    /\ InForceIsDocumented /\ LastReceiptInForce /\ AuditKeepsLatest

\* A limit that is checked before it is used up is exceeded by a known amount
\* at most: requests of a key, and nonces of a wallet.
LimitsHold == AtMostTwoWindows /\ ActiveBounded

\* Whoever follows the cursors of a list, in memory or in the database, misses
\* nothing of it, though it changes meanwhile.
PagesMissNothing ==
    ForwardIsPrefix /\ NothingPassedOver /\ NoRowMissed /\ ShownOnce /\ NoneSkipped

\* What a caller was given is what the tables have: exports, referral codes,
\* the yield a reward is computed from.
HandedOutIsRecorded ==
    DownloadsAreRecorded /\ BulkRowLagsOnlyAstray /\ CodesCreditTheirOwner /\ YieldIsAccrued

\* What an answer said holds for the requests after it: wait this long, the
\* session is over, no writes during maintenance.
AnswersHold == RetryAfterSuffices /\ EndedIsOver /\ WritesDrain
=============================================================================
