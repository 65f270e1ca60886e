--------------------------- MODULE VaultOperation ---------------------------
(***************************************************************************)
(* POST /api/v1/vault/deposits and /withdrawals (vaultEndpoints.ts): the   *)
(* signed-action middleware of WalletNonce, the daily withdrawal limit,    *)
(* the wallet lock, the idempotency store, the Soroban submission and the  *)
(* database writes, for requests that overlap at every await.  External    *)
(* calls fail, a reply of the network may be lost after the transaction    *)
(* got there, the admin deletes idempotency keys, and the process restarts.*)
(* Bodies pass the schema and their wallets are on the allowlist.          *)
(***************************************************************************)
EXTENDS WalletNonce, Functions

CONSTANTS Keys,        \* Idempotency-Key values; body.key is one or None
          DailyLimit,  \* WITHDRAWAL_DAILY_LIMIT_USDC
          Overridable, \* wallets whose limit the admin may override
          MaxRestarts

ASSUME OperationAssumption ==
    /\ \A b \in Bodies : b.key \in Keys \cup {None} /\ b.amount \in Nat
    /\ DailyLimit \in Nat /\ MaxRestarts \in Nat
    /\ Actions = {"deposit", "withdrawal"} /\ Overridable \subseteq Wallets
    /\ None \notin Keys /\ None \notin Requests /\ None \notin Nat

VARIABLES inFlightWallets,  \* walletLock.ts
          completed,        \* completedResponses: key -> the request answered
          pending,          \* pendingResponses: key -> the request running
          used,             \* request -> the rows of the day's withdrawals it
                            \* has summed
          excused,          \* history: requests only an override let through
          overrides,        \* inMemoryOverrides: wallets, while active
          sent,             \* external: requests whose transaction the
                            \* network has
          rows, today,      \* the Transaction table, and its rows of this day
          mirrored,         \* the requests VaultState accounts for
          restarts,
          forgotten         \* history: keys the store has dropped

opVars == <<inFlightWallets, completed, pending, used, excused, overrides, sent,
            rows, today, mirrored, restarts, forgotten>>
vars == <<nonceVars, requestVars, opVars>>

\* The connection broke before there was a response.
Lost == 0

\* The handler holds the wallet lock.
Operating == {"submit", "create", "mirror", "finish"}

TypeOK ==
    /\ NonceTypeOK
    /\ pc \in [Requests -> {"idle", "validate", "consume", "mark", "marking",
                            "admitted", "limit", "done"} \cup Operating]
    /\ answer \in [Requests -> {None, 201, 401, 409, 429, 500, 502, 503, Lost}]
    /\ completed \in [Keys -> Requests \cup {None}]
    /\ pending \in [Keys -> Requests \cup {None}]
    /\ mirrored \subseteq rows /\ rows \subseteq sent /\ sent \subseteq admitted
    /\ today \subseteq rows

Init ==
    /\ NonceInit
    /\ inFlightWallets = {}
    /\ completed = [k \in Keys |-> None] /\ pending = [k \in Keys |-> None]
    /\ used = [r \in Requests |-> {}] /\ excused = {} /\ overrides = {}
    /\ sent = {} /\ rows = {} /\ today = {} /\ mirrored = {}
    /\ restarts = 0 /\ forgotten = {}

-----------------------------------------------------------------------------
\* A digest of the body as it was sent: nonce and signature are part of it;
\* the key comes in a header, and the route, and so the type of the operation,
\* is no part of the body.
generateFingerprint(b) ==
    [wallet |-> b.wallet, amount |-> b.amount, nonce |-> b.nonce, signed |-> b.signed]

fingerprint(r) == generateFingerprint(body[r])

withdrawalsOf(S, wallet) ==
    {r \in S : body[r].action = "withdrawal" /\ body[r].wallet = wallet}

total(S) == SumFunctionOnSet([r \in S |-> body[r].amount], S)

\* The query of the limit middleware returns the rows it has summed.
sumWithdrawalsForDay(r) ==
    /\ pc[r] = "admitted"
    /\ body[r].action = "withdrawal"
    /\ used' = [used EXCEPT ![r] = withdrawalsOf(today, body[r].wallet)]
    /\ goto(r, "limit")
    /\ UNCHANGED <<nonceVars, body, answer, admitted, inFlightWallets, completed,
                   pending, excused, overrides, sent, rows, today, mirrored,
                   restarts, forgotten>>

\* Mutant: a wallet that still has something left may take any amount.
withinLimit_remaining(r) == total(used[r]) < DailyLimit

withinLimit(r) == total(used[r]) + body[r].amount <= DailyLimit

\* evaluateWithdrawalLimit, after its query.
allowed(r) == body[r].wallet \in overrides \/ withinLimit(r)

\* The limit middleware refuses the withdrawal.
blocked(r) ==
    /\ pc[r] = "limit"
    /\ ~allowed(r)
    /\ respond(r, 429)
    /\ UNCHANGED <<nonceVars, body, admitted, opVars>>

\* The handler is entered.
entered(r) == \/ pc[r] = "admitted" /\ body[r].action = "deposit"
              \/ pc[r] = "limit" /\ allowed(r)

lockFree(wallet) == wallet \notin inFlightWallets

\* Mutant: what has completed is not looked up.
entry_pending_only(r) ==
    IF body[r].key = None THEN None ELSE pending[body[r].key]

\* The request the store has the key of r for, if any.
entry(r) ==
    IF body[r].key = None THEN None
    ELSE IF completed[body[r].key] # None THEN completed[body[r].key]
    ELSE pending[body[r].key]

\* Mutant: the key alone decides.
matches_key(r) == TRUE

matches(r) == fingerprint(entry(r)) = fingerprint(r)

\* tryAcquireWalletLock fails, or the store throws IdempotencyConflictError.
conflict(r) ==
    /\ entered(r)
    /\ \/ ~lockFree(body[r].wallet)
       \/ entry(r) # None /\ ~matches(r)
    /\ respond(r, 409)
    /\ UNCHANGED <<nonceVars, body, admitted, opVars>>

\* The store returns the completed response of the same fingerprint.  (Its
\* branch for a pending one is dead code here: PendingNeverShared.)
replay(r) ==
    /\ entered(r)
    /\ lockFree(body[r].wallet)
    /\ entry(r) # None
    /\ matches(r)
    /\ respond(r, 201)
    /\ UNCHANGED <<nonceVars, body, admitted, opVars>>

\* The lock is taken, the key becomes pending, and the submission starts.
begin(r) ==
    /\ entered(r)
    /\ lockFree(body[r].wallet)
    /\ entry(r) = None
    /\ inFlightWallets' = inFlightWallets \cup {body[r].wallet}
    /\ pending' = IF body[r].key = None THEN pending
                  ELSE [pending EXCEPT ![body[r].key] = r]
    /\ goto(r, "submit")
    /\ excused' = IF body[r].action = "withdrawal" /\ ~withinLimit(r)
                  THEN excused \cup {r} ELSE excused
    /\ UNCHANGED <<nonceVars, body, answer, admitted, completed, used, overrides,
                   sent, rows, today, mirrored, restarts, forgotten>>

-----------------------------------------------------------------------------
\* The finally of execute: the entry of the key, whoever put it there.
without_entry(r) ==
    IF body[r].key = None THEN pending
    ELSE [pending EXCEPT ![body[r].key] = None]

\* Mutant: an error leaves the lock behind.
unlocked_on_success(r, status) ==
    IF status = 201 THEN inFlightWallets \ {body[r].wallet} ELSE inFlightWallets

\* The finally of the handler.
unlocked(r, status) == inFlightWallets \ {body[r].wallet}

\* The operation throws: nothing is stored under the key.
throws(r, status) ==
    /\ inFlightWallets' = unlocked(r, status)
    /\ pending' = without_entry(r)
    /\ respond(r, status)
    /\ UNCHANGED <<nonceVars, body, admitted, completed, used, excused, overrides, rows,
                   today, mirrored, restarts, forgotten>>

\* The network has the transaction of r.
transmit(r) == sent' = sent \cup {r}

\* The circuit is open, or the RPC rejects the simulation or the transaction.
submitRejected(r) ==
    /\ pc[r] = "submit"
    /\ \E status \in {502, 503} : throws(r, status)
    /\ UNCHANGED sent

\* sendTransaction reached the network, but its reply is lost.
submitReplyLost(r) ==
    /\ pc[r] = "submit"
    /\ transmit(r)
    /\ throws(r, 502)

\* Mutant: the handler does not await the submission, which then fails.
submitSorobanTx_unsent(r) ==
    /\ pc[r] = "submit"
    /\ goto(r, "create")
    /\ UNCHANGED <<nonceVars, body, answer, admitted, opVars>>

submitSorobanTx(r) ==
    /\ pc[r] = "submit"
    /\ transmit(r)
    /\ goto(r, "create")
    /\ UNCHANGED <<nonceVars, body, answer, admitted, inFlightWallets, completed,
                   pending, used, excused, overrides, rows, today, mirrored, restarts,
                   forgotten>>

\* prisma.transaction.create
createRow(r) ==
    /\ pc[r] = "create"
    /\ rows' = rows \cup {r}
    /\ today' = today \cup {r}
    /\ goto(r, "mirror")
    /\ UNCHANGED <<nonceVars, body, answer, admitted, inFlightWallets, completed,
                   pending, used, excused, overrides, sent, mirrored, restarts,
                   forgotten>>

\* One database transaction reads VaultState and writes it.
updateVaultStateAndSnapshot(r) ==
    /\ pc[r] = "mirror"
    /\ mirrored' = mirrored \cup {r}
    /\ goto(r, "finish")
    /\ UNCHANGED <<nonceVars, body, answer, admitted, inFlightWallets, completed,
                   pending, used, excused, overrides, sent, rows, today, restarts, forgotten>>

\* A database call of the operation throws; only a deposit records a referral.
databaseFails(r) ==
    /\ \/ pc[r] \in {"create", "mirror"}
       \/ pc[r] = "finish" /\ body[r].action = "deposit"
    /\ throws(r, 500)
    /\ UNCHANGED sent

\* The response is stored under the key and sent.
finish(r) ==
    /\ pc[r] = "finish"
    /\ completed' = IF body[r].key = None THEN completed
                    ELSE [completed EXCEPT ![body[r].key] = r]
    /\ pending' = without_entry(r)
    /\ inFlightWallets' = unlocked(r, 201)
    /\ respond(r, 201)
    /\ UNCHANGED <<nonceVars, body, admitted, used, excused, overrides, sent, rows, today,
                   mirrored, restarts, forgotten>>

handlerStep(r) ==
    \/ nonceStep(r) /\ UNCHANGED opVars
    \/ sumWithdrawalsForDay(r) \/ blocked(r)
    \/ conflict(r) \/ replay(r) \/ begin(r)
    \/ submitRejected(r) \/ submitReplyLost(r) \/ submitSorobanTx(r)
    \/ createRow(r) \/ updateVaultStateAndSnapshot(r) \/ databaseFails(r)
    \/ finish(r)

-----------------------------------------------------------------------------
\* The store drops the keys of K, answered or running.
forget(K) ==
    /\ completed' = [k \in Keys |-> IF k \in K THEN None ELSE completed[k]]
    /\ pending' = [k \in Keys |-> IF k \in K THEN None ELSE pending[k]]
    /\ forgotten' = forgotten \cup K
    /\ UNCHANGED <<nonceVars, requestVars, inFlightWallets, used, excused, overrides, sent,
                   rows, today, mirrored, restarts>>

\* DELETE /admin/idempotency/keys/:key, or the TTL of a completed key.
deleteKey(k) ==
    /\ completed[k] # None \/ pending[k] # None
    /\ forget({k})

\* DELETE /admin/idempotency/keys
clear == forget(Keys)

setWithdrawalLimitOverride(w) ==
    /\ w \in Overridable
    /\ overrides' = overrides \cup {w}
    /\ UNCHANGED <<nonceVars, requestVars, inFlightWallets, completed, pending,
                   used, excused, sent, rows, today, mirrored, restarts,
                   forgotten>>

\* Time: the override of w runs out.
overrideExpires(w) ==
    /\ w \in overrides
    /\ overrides' = overrides \ {w}
    /\ UNCHANGED <<nonceVars, requestVars, inFlightWallets, completed, pending,
                   used, excused, sent, rows, today, mirrored, restarts,
                   forgotten>>

\* Time: midnight UTC.
newDay ==
    /\ today # {}
    /\ today' = {}
    /\ UNCHANGED <<nonceVars, requestVars, inFlightWallets, completed, pending,
                   used, excused, overrides, sent, rows, mirrored, restarts, forgotten>>

\* The process dies and starts again: its memory and its connections are gone,
\* the database, the network and a nonce store in Redis are not.
restart ==
    /\ restarts < MaxRestarts
    /\ restarts' = restarts + 1
    /\ inFlightWallets' = {} /\ overrides' = {}
    /\ completed' = [k \in Keys |-> None] /\ pending' = [k \in Keys |-> None]
    /\ forgotten' = Keys
    /\ byNonce' = IF RedisStore THEN byNonce ELSE [n \in Nonces |-> None]
    /\ issuing' = [i \in Issuers |-> None]
    /\ pc' = [r \in Requests |-> IF pc[r] = "idle" THEN "idle" ELSE "done"]
    /\ answer' = [r \in Requests |-> IF pc[r] \in {"idle", "done"} THEN answer[r]
                                     ELSE Lost]
    /\ UNCHANGED <<expired, issued, body, admitted, used, excused, sent, rows, today,
                   mirrored>>

Next ==
    \/ \E r \in Requests : handlerStep(r)
    \/ \E r \in Requests, b \in Bodies : send(r, b) /\ UNCHANGED opVars
    \/ (issueStep \/ nonceClock) /\ UNCHANGED opVars
    \/ \E k \in Keys : deleteKey(k)
    \/ clear
    \/ \E w \in Wallets : setWithdrawalLimitOverride(w) \/ overrideExpires(w)
    \/ newDay
    \/ restart

\* A handler that can go on does: the event loop runs its continuations, and
\* every RPC and database call settles.
Spec == Init /\ [][Next]_vars /\ \A r \in Requests : WF_vars(handlerStep(r))

-----------------------------------------------------------------------------
(* Properties *)

\* The lock set is exactly the wallets of the operations under way, and no two
\* of those are of one wallet: no path through the handler leaks a lock,
\* releases one it does not hold, or runs without one.
LockTracksOperations ==
    LET running == {r \in Requests : pc[r] \in Operating}
    IN  /\ inFlightWallets = {body[r].wallet : r \in running}
        /\ \A r, q \in running : body[r].wallet = body[q].wallet => r = q

\* A request that could enter the operation never finds its own fingerprint
\* pending: the wallet lock answers it first.  The store's branch that awaits
\* another request's promise is not needed for this handler, and no request
\* waits for another.
PendingNeverShared ==
    \A r \in Requests : entered(r) /\ body[r].key # None =>
        LET p == pending[body[r].key]
        IN  p # None /\ fingerprint(p) = fingerprint(r)
                => ~lockFree(body[r].wallet)

\* As long as the store has not dropped the key, nothing is sent to the network
\* under a key that has already been answered 201.
NoResubmission ==
    [][\A r \in sent' \ sent, q \in Requests :
          (q # r /\ body[q] # None /\ body[q].key = body[r].key
           /\ body[r].key \notin forgotten \cup {None}) => answer[q] # 201]_vars

\* A 201 is backed by an operation with the request's own fingerprint, sent,
\* recorded and mirrored, whether the request ran it or was replayed it.
SuccessIsRecorded ==
    \A r \in Requests : answer[r] = 201 =>
        \E q \in mirrored : fingerprint(q) = fingerprint(r)
                            /\ body[q].key = body[r].key

\* withdrawalDailyLimitMiddleware sums the day before the wallet lock is taken,
\* so withdrawals that overlap may pass the limit together.  That is the only
\* way: where no override let one through, a day over the limit has two
\* withdrawals neither of which was there when the other was evaluated.
OvershootIsOverlap ==
    \A w \in Wallets :
        LET W == withdrawalsOf(today, w)
        IN  total(W) > DailyLimit /\ W \cap excused = {}
              => \E r, q \in W : r # q /\ r \notin used[q] /\ q \notin used[r]

\* Every request is answered, or its connection dies with the process.
EveryRequestAnswered == \A r \in Requests : (pc[r] # "idle") ~> (pc[r] = "done")

\* One operation of a wallet at a time: its lock says so, and so no request
\* ever comes to share another's promise.
OneOperationPerWallet == LockTracksOperations /\ PendingNeverShared
=============================================================================
