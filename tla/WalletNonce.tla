----------------------------- MODULE WalletNonce -----------------------------
(***************************************************************************)
(* Server nonces for signed wallet actions (walletNonce.ts) and the        *)
(* middleware that consumes one per request (walletSignedAction.ts).  A    *)
(* client may send the same body in several requests, at the same time.    *)
(* Every await of the handlers is a step of its own; the in-memory store   *)
(* answers each call at once, Redis markUsed is a read and a later write.  *)
(***************************************************************************)
EXTENDS Integers, FiniteSets

CONSTANTS Requests,     \* HTTP requests, each handled once
          Issuers,      \* concurrent POST /auth/nonce handlers
          Wallets,
          Actions,      \* the WalletAction of a route
          Nonces,       \* the random values
          Bodies,       \* the requests a client may send: at least the
                        \* fields wallet, action, nonce, signed
          MAX_ACTIVE_NONCES_PER_WALLET,
          RedisStore,   \* REDIS_URL is set
          Enforced,     \* isWalletSignatureEnforced()
          None

StoredNonce == [wallet : Wallets, action : Actions, used : BOOLEAN]

ASSUME NonceAssumption ==
    /\ \A b \in Bodies : /\ b.wallet \in Wallets /\ b.action \in Actions
                         /\ b.nonce \in Nonces /\ b.signed \in BOOLEAN
    /\ MAX_ACTIVE_NONCES_PER_WALLET \in Nat \ {0} /\ IsFiniteSet(Issuers)
    /\ RedisStore \in BOOLEAN /\ Enforced \in BOOLEAN
    /\ None \notin Bodies \cup StoredNonce \cup (Wallets \X Actions)

VARIABLES byNonce,   \* the store: nonce -> StoredNonce
          expired,   \* the nonces whose expiresAt has passed
          issuing,   \* issuer -> what it has checked room for
          body,      \* request -> its body
          pc,        \* request -> where its handler is
          answer,    \* request -> the status it was answered with
          issued,    \* history: what every nonce was issued for
          admitted   \* history: the requests the middleware let through

nonceVars == <<byNonce, expired, issuing, issued>>
requestVars == <<body, pc, answer, admitted>>

NonceTypeOK ==
    /\ byNonce \in [Nonces -> StoredNonce \cup {None}]
    /\ expired \subseteq Nonces
    /\ issuing \in [Issuers -> (Wallets \X Actions) \cup {None}]
    /\ issued \in [Nonces -> (Wallets \X Actions) \cup {None}]
    /\ body \in [Requests -> Bodies \cup {None}]
    /\ admitted \subseteq Requests

NonceInit ==
    /\ byNonce = [n \in Nonces |-> None]
    /\ expired = {}
    /\ issuing = [i \in Issuers |-> None]
    /\ issued = [n \in Nonces |-> None]
    /\ body = [r \in Requests |-> None]
    /\ pc = [r \in Requests |-> "idle"]
    /\ answer = [r \in Requests |-> None]
    /\ admitted = {}

-----------------------------------------------------------------------------
(* Issuing *)

active(wallet) ==
    {n \in Nonces : byNonce[n] # None /\ byNonce[n].wallet = wallet
                                      /\ ~byNonce[n].used}

below_cap(wallet) == Cardinality(active(wallet)) < MAX_ACTIVE_NONCES_PER_WALLET

\* issue up to its first await: the count of the wallet's active nonces.
issue(i, wallet, action) ==
    /\ issuing[i] = None
    /\ below_cap(wallet)
    /\ issuing' = [issuing EXCEPT ![i] = <<wallet, action>>]
    /\ UNCHANGED <<byNonce, expired, issued, requestVars>>

\* Mutant: a value is fresh if the store has no entry of it.
fresh_in_store(n) == byNonce[n] = None

\* crypto.randomBytes never returns a value twice.
fresh(n) == issued[n] = None

\* The rest of issue: a fresh random nonce is saved.
save(i, n) ==
    /\ issuing[i] # None
    /\ fresh(n)
    /\ byNonce' = [byNonce EXCEPT ![n] = [wallet |-> issuing[i][1],
                                          action |-> issuing[i][2],
                                          used |-> FALSE]]
    /\ issued' = [issued EXCEPT ![n] = issuing[i]]
    /\ issuing' = [issuing EXCEPT ![i] = None]
    /\ UNCHANGED <<expired, requestVars>>

\* Time: expiresAt passes.
expire(n) ==
    /\ issued[n] # None
    /\ n \notin expired
    /\ expired' = expired \cup {n}
    /\ UNCHANGED <<byNonce, issuing, issued, requestVars>>

\* Time: the store's TTL drops the entry, never before expiresAt.
evict(n) ==
    /\ n \in expired
    /\ byNonce[n] # None
    /\ byNonce' = [byNonce EXCEPT ![n] = None]
    /\ UNCHANGED <<expired, issuing, issued, requestVars>>

-----------------------------------------------------------------------------
(* Consuming *)

goto(r, label) == pc' = [pc EXCEPT ![r] = label]

\* The response is sent; the handler is over.
respond(r, status) ==
    /\ answer' = [answer EXCEPT ![r] = status]
    /\ goto(r, "done")

\* A client sends a request.
send(r, b) ==
    /\ pc[r] = "idle"
    /\ body' = [body EXCEPT ![r] = b]
    /\ goto(r, IF Enforced THEN "validate" ELSE "admitted")
    /\ admitted' = IF Enforced THEN admitted ELSE admitted \cup {r}
    /\ UNCHANGED <<nonceVars, answer>>

\* validateForUse finds nothing wrong with the nonce.
usable(b) ==
    /\ byNonce[b.nonce] # None
    /\ byNonce[b.nonce].wallet = b.wallet
    /\ byNonce[b.nonce].action = b.action
    /\ b.nonce \notin expired
    /\ ~byNonce[b.nonce].used

\* The signature is the wallet's, over the message built from the nonce entry.
verifyWalletActionSignature(b) == b.signed

\* Mutant: a refused request is dropped without a response.
validateForUse_silent(r) ==
    /\ pc[r] = "validate"
    /\ usable(body[r]) /\ verifyWalletActionSignature(body[r])
    /\ goto(r, "consume")
    /\ UNCHANGED <<nonceVars, body, answer, admitted>>

\* The middleware's own call of validateForUse, then the signature.
validateForUse(r) ==
    /\ pc[r] = "validate"
    /\ IF usable(body[r]) /\ verifyWalletActionSignature(body[r])
       THEN goto(r, "consume") /\ UNCHANGED answer
       ELSE respond(r, 401)
    /\ UNCHANGED <<nonceVars, body, admitted>>

\* consume up to its first await: the nonce is validated again.
consume(r) ==
    /\ pc[r] = "consume"
    /\ IF usable(body[r])
       THEN goto(r, "mark") /\ UNCHANGED answer
       ELSE respond(r, 401)
    /\ UNCHANGED <<nonceVars, body, admitted>>

\* The entry markUsed reads lets it go on.
unused(n) == byNonce[n] # None /\ ~byNonce[n].used

\* The entry is written back as used, and consume returns.
mark(r) ==
    /\ byNonce' = [byNonce EXCEPT ![body[r].nonce] =
                     [wallet |-> body[r].wallet, action |-> body[r].action,
                      used |-> TRUE]]
    /\ goto(r, "admitted")
    /\ admitted' = admitted \cup {r}
    /\ UNCHANGED <<expired, issuing, issued, body, answer>>

\* markUsed: all of it in memory, the read alone in Redis.
markUsed(r) ==
    /\ pc[r] = "mark"
    /\ \/ /\ ~unused(body[r].nonce)
          /\ respond(r, 401)
          /\ UNCHANGED <<nonceVars, body, admitted>>
       \/ /\ unused(body[r].nonce)
          /\ ~RedisStore
          /\ mark(r)
       \/ /\ unused(body[r].nonce)
          /\ RedisStore
          /\ goto(r, "marking")
          /\ UNCHANGED <<nonceVars, body, answer, admitted>>

\* The write of Redis markUsed, whatever has happened since its read.
markUsedWrite(r) ==
    /\ pc[r] = "marking"
    /\ mark(r)

nonceStep(r) ==
    \/ validateForUse(r) \/ consume(r) \/ markUsed(r) \/ markUsedWrite(r)

nonceClock == \E n \in Nonces : expire(n) \/ evict(n)

issueStep ==
    \E i \in Issuers :
        \/ \E w \in Wallets, a \in Actions : issue(i, w, a)
        \/ \E n \in Nonces : save(i, n)

\* The signed routes on their own: a request that got through is finished.
nonceAll == <<nonceVars, requestVars>>
NonceNext ==
    \/ issueStep
    \/ nonceClock
    \/ \E r \in Requests, b \in Bodies : send(r, b)
    \/ \E r \in Requests : nonceStep(r)

NonceSpec == NonceInit /\ [][NonceNext]_nonceAll

-----------------------------------------------------------------------------
(* Properties *)

\* "Each nonce is single-use": no two requests get through the middleware
\* with the same nonce, however their awaits interleave.
SingleUse ==
    Enforced => \A r, q \in admitted :
                    body[r].nonce = body[q].nonce => r = q

\* The nonces as tokens: what they were issued for, whom they let through.
Tokens == INSTANCE TokenUse WITH
              Tokens <- Nonces, Users <- Requests, Purposes <- Wallets \X Actions,
              NotGiven <- None, given <- issued,
              usedBy <- [n \in Nonces |-> {r \in admitted : body[r].nonce = n}]

\* The middleware with the in-memory store implements TokenUse: whatever is
\* awaited, expires, is evicted or lost with the process, a nonce is issued
\* once and lets through one request, later.
NonceIsToken == Tokens!Spec

\* A request that got through spent a nonce that had been issued to its wallet
\* for its route's action.
IssuedForIt ==
    Enforced => \A r \in admitted :
                    issued[body[r].nonce] = <<body[r].wallet, body[r].action>>

\* The count and the save of issue are two steps: concurrent issuers may pass
\* the cap together, but only by one nonce for each other issuer.
ActiveBounded ==
    \A w \in Wallets : Cardinality(active(w))
        <= MAX_ACTIVE_NONCES_PER_WALLET + Cardinality(Issuers) - 1
=============================================================================
