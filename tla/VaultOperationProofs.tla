------------------------ MODULE VaultOperationProofs ------------------------
(***************************************************************************)
(* Theorems about the server nonces and about the deposit and withdrawal   *)
(* handlers behind them, for any number of wallets, keys and overlapping   *)
(* requests, through every failure, deleted keys, midnight and restarts.   *)
(***************************************************************************)
EXTENDS VaultOperation, Sums, TLAPS

(***************************************************************************)
(* The server nonces, for any number of wallets, nonces, issuers and       *)
(* requests.                                                               *)
(***************************************************************************)

\* Where a handler may be: in the middleware, and in the vault operation behind
\* it.
Labels == {"idle", "validate", "consume", "mark", "marking", "admitted", "limit",
           "submit", "create", "mirror", "finish", "done"}

\* What the body of a request asks for.
asked(r) == <<body[r].wallet, body[r].action>>

\* A request that has been sent has a body.
SentHasBody ==
    /\ pc \in [Requests -> Labels]
    /\ \A r \in Requests : pc[r] # "idle" => body[r] \in Bodies
    /\ \A r \in admitted : pc[r] # "idle"

\* An entry of the store says what its nonce was issued for.
EntriesAreIssued ==
    \A n \in Nonces : byNonce[n] # None =>
        issued[n] = <<byNonce[n].wallet, byNonce[n].action>>

\* A request past its first validation, or let through, holds a nonce that was
\* issued for what it asks.
PastValidation ==
    \A r \in Requests : (pc[r] \in {"consume", "mark", "marking"}
                         \/ (Enforced /\ r \in admitted))
                        => issued[body[r].nonce] = asked(r)

\* The nonce of a request that was let through is used, or gone: expired, or
\* lost with the process.  Since no value is issued twice, it is gone for good.
Spent == Enforced => \A r \in admitted : ~unused(body[r].nonce)

IInv == NonceTypeOK /\ SentHasBody /\ EntriesAreIssued /\ PastValidation

\* Initially no nonce is issued and no request is sent.
LEMMA IInvInit == NonceInit => IInv /\ Spent /\ SingleUse
  <1> SUFFICES ASSUME NonceInit PROVE IInv /\ Spent /\ SingleUse
    OBVIOUS
  <1>1. NonceTypeOK
    BY DEF NonceInit, NonceTypeOK
  <1>2. SentHasBody
    BY DEF NonceInit, SentHasBody, Labels
  <1>3. EntriesAreIssued /\ PastValidation
    BY DEF NonceInit, EntriesAreIssued, PastValidation
  <1>4. Spent /\ SingleUse
    BY DEF NonceInit, Spent, SingleUse
  <1> QED
    BY <1>1, <1>2, <1>3, <1>4 DEF IInv

\* IInv holds after every step, of either store.
LEMMA IInvStep == IInv /\ [NonceNext]_nonceAll => IInv'
  <1> SUFFICES ASSUME IInv, [NonceNext]_nonceAll PROVE IInv'
    OBVIOUS
  <1> USE DEF IInv
  <1>1. CASE UNCHANGED nonceAll
    BY <1>1 DEF nonceAll, nonceVars, requestVars, NonceTypeOK, SentHasBody,
       EntriesAreIssued, PastValidation, asked
  <1>2. ASSUME NEW i \in Issuers, NEW w \in Wallets, NEW a \in Actions,
               issue(i, w, a)
        PROVE IInv'
    BY <1>2 DEF issue, requestVars, NonceTypeOK, SentHasBody,
       EntriesAreIssued, PastValidation, asked
  <1>3. ASSUME NEW i \in Issuers, NEW n \in Nonces, save(i, n)
        PROVE IInv'
    <2>1. PICK w \in Wallets, a \in Actions : issuing[i] = <<w, a>>
      BY <1>3 DEF save, NonceTypeOK
    <2>2. NonceTypeOK'
      BY <1>3, <2>1 DEF save, requestVars, NonceTypeOK, StoredNonce
    <2>3. SentHasBody'
      BY <1>3 DEF save, requestVars, SentHasBody
    <2>4. EntriesAreIssued'
      BY <1>3, <2>1 DEF save, requestVars, NonceTypeOK, EntriesAreIssued
    <2>5. \A q \in Requests : body[q] \in Bodies => asked(q) # None
      BY NonceAssumption DEF asked
    <2>6. \A q \in Requests : (body[q] \in Bodies /\ issued[body[q].nonce] = asked(q))
                              => body[q].nonce # n
      BY <1>3, <2>5 DEF save, fresh
    <2>7. PastValidation'
      BY <1>3, <2>6, NonceAssumption
         DEF save, requestVars, NonceTypeOK, SentHasBody, PastValidation, asked
    <2> QED
      BY <2>2, <2>3, <2>4, <2>7
  <1>4. ASSUME NEW n \in Nonces, expire(n) \/ evict(n)
        PROVE IInv'
    BY <1>4 DEF expire, evict, requestVars, NonceTypeOK, SentHasBody,
       EntriesAreIssued, PastValidation, asked
  <1>5. ASSUME NEW r \in Requests, NEW b \in Bodies, send(r, b)
        PROVE IInv'
    <2>1. NonceTypeOK' /\ EntriesAreIssued'
      BY <1>5 DEF send, nonceVars, NonceTypeOK, EntriesAreIssued
    <2>2. SentHasBody'
      BY <1>5 DEF send, goto, NonceTypeOK, SentHasBody, Labels
    <2>3. PastValidation'
      BY <1>5 DEF send, goto, nonceVars, NonceTypeOK, SentHasBody, PastValidation,
         asked
    <2> QED
      BY <2>1, <2>2, <2>3
  <1>6. ASSUME NEW r \in Requests, validateForUse(r) \/ consume(r)
        PROVE IInv'
    <2>1. body[r] \in Bodies
      BY <1>6 DEF validateForUse, consume, SentHasBody
    <2>2. NonceTypeOK' /\ EntriesAreIssued'
      BY <1>6 DEF validateForUse, consume, nonceVars, NonceTypeOK,
         EntriesAreIssued
    <2>3. UNCHANGED <<issued, body, admitted>>
      BY <1>6 DEF validateForUse, consume, nonceVars
    <2>4. pc' = [pc EXCEPT ![r] = "done"]
          \/ (usable(body[r]) /\ pc' \in {[pc EXCEPT ![r] = "consume"],
                                          [pc EXCEPT ![r] = "mark"]})
      BY <1>6 DEF validateForUse, consume, goto, respond
    <2>5. SentHasBody'
      BY <2>1, <2>3, <2>4 DEF NonceTypeOK, SentHasBody, Labels
    <2>6. usable(body[r]) => issued[body[r].nonce] = asked(r)
      BY <2>1, NonceAssumption DEF usable, EntriesAreIssued, asked
    <2>7. PastValidation'
      BY <2>3, <2>4, <2>6 DEF SentHasBody, PastValidation, asked
    <2> QED
      BY <2>2, <2>5, <2>7
  <1>7. ASSUME NEW r \in Requests, pc[r] \in {"mark", "marking"}, mark(r)
        PROVE IInv'
    <2>1. body[r] \in Bodies /\ issued[body[r].nonce] = asked(r)
      BY <1>7 DEF SentHasBody, PastValidation
    <2>2. NonceTypeOK'
      BY <1>7, <2>1, NonceAssumption DEF mark, NonceTypeOK, StoredNonce
    <2>3. SentHasBody'
      BY <1>7, <2>1 DEF mark, goto, SentHasBody, Labels
    <2>4. EntriesAreIssued'
      BY <1>7, <2>1, NonceAssumption
         DEF mark, NonceTypeOK, EntriesAreIssued, asked
    <2>5. PastValidation'
      BY <1>7, <2>1 DEF mark, goto, SentHasBody, PastValidation, asked
    <2> QED
      BY <2>2, <2>3, <2>4, <2>5
  <1>8. ASSUME NEW r \in Requests, markUsed(r) \/ markUsedWrite(r)
        PROVE IInv'
    <2>1. CASE mark(r)
      BY <1>7, <1>8, <2>1 DEF markUsed, markUsedWrite
    <2>2. CASE /\ pc[r] = "mark"
               /\ respond(r, 401) \/ (goto(r, "marking") /\ UNCHANGED answer)
               /\ UNCHANGED <<nonceVars, body, admitted>>
      <3>1. /\ pc' = [pc EXCEPT ![r] = "done"] \/ pc' = [pc EXCEPT ![r] = "marking"]
            /\ pc[r] = "mark" /\ UNCHANGED nonceVars /\ UNCHANGED <<body, admitted>>
        BY <2>2 DEF goto, respond
      <3>2. NonceTypeOK'
        BY <3>1 DEF nonceVars, NonceTypeOK
      <3>3. SentHasBody'
        <4>1. pc \in [Requests -> Labels] /\ (\A q \in Requests : pc[q] # "idle" => body[q] \in Bodies)
              /\ (\A q \in admitted : pc[q] # "idle")
          BY DEF SentHasBody
        <4>2. pc' \in [Requests -> Labels]
          BY <3>1, <4>1 DEF Labels
        <4>3. \A q \in Requests : pc'[q] # "idle" <=> pc[q] # "idle"
          BY <3>1, <4>1
        <4>4. admitted \subseteq Requests
          BY DEF NonceTypeOK
        <4> QED
          BY <3>1, <4>1, <4>2, <4>3, <4>4 DEF SentHasBody
      <3>4. EntriesAreIssued'
        BY <3>1 DEF nonceVars, EntriesAreIssued
      <3>5. PastValidation'
        BY <3>1 DEF nonceVars, SentHasBody, PastValidation, asked
      <3> QED
        BY <3>2, <3>3, <3>4, <3>5
    <2> QED
      BY <1>8, <2>1, <2>2 DEF markUsed, markUsedWrite
  <1> QED
    BY <1>1, <1>2, <1>3, <1>4, <1>5, <1>6, <1>8
       DEF NonceNext, issueStep, nonceClock, nonceStep

\* A request is let through only with a nonce issued to its wallet for its
\* action, whichever store keeps the nonces.
THEOREM NonceIssuedForIt == NonceSpec => []IssuedForIt
  <1>1. IInv => IssuedForIt
    BY DEF IInv, NonceTypeOK, PastValidation, IssuedForIt, asked
  <1> QED
    BY IInvInit, IInvStep, <1>1, PTL DEF NonceSpec

-----------------------------------------------------------------------------
(* The in-memory store *)

\* What the spent nonces rest on: no request is between the read and the write
\* of markUsed, which only Redis separates.
MInv == IInv /\ Spent /\ SingleUse /\ \A r \in Requests : pc[r] # "marking"

\* A step that leaves the requests let through and their nonces alone.
LEMMA SpentStays ==
    ASSUME IInv, Spent, SingleUse, UNCHANGED admitted,
           \A r \in admitted : /\ body'[r] = body[r]
                               /\ byNonce'[body[r].nonce] = byNonce[body[r].nonce]
                                  \/ byNonce'[body[r].nonce] = None
    PROVE  Spent' /\ SingleUse'
  BY DEF Spent, SingleUse, unused

\* The nonce of a request that was let through is never unused again.
LEMMA SpentIsUsed ==
    ASSUME IInv, Spent, Enforced, NEW r \in admitted
    PROVE  ~unused(body[r].nonce)
  BY DEF Spent

\* MInv holds after every step when the store is in memory.
LEMMA MInvStep ==
    ASSUME ~RedisStore
    PROVE  MInv /\ [NonceNext]_nonceAll => MInv'
  <1> SUFFICES ASSUME MInv, [NonceNext]_nonceAll PROVE MInv'
    OBVIOUS
  <1>a. IInv /\ IInv'
    BY IInvStep DEF MInv
  <1>b. /\ Spent /\ SingleUse
        /\ \A r \in Requests : pc[r] # "marking"
        /\ admitted \subseteq Requests
        /\ pc \in [Requests -> Labels]
        /\ byNonce \in [Nonces -> StoredNonce \cup {None}]
        /\ \A r \in admitted : body[r] \in Bodies /\ body[r].nonce \in Nonces
                                /\ pc[r] # "idle"
    BY <1>a, NonceAssumption DEF MInv, IInv, NonceTypeOK, SentHasBody
  <1>1. CASE UNCHANGED nonceAll
    BY <1>1, <1>a, <1>b, SpentStays DEF MInv, nonceAll, nonceVars, requestVars
  <1>2. ASSUME NEW i \in Issuers, NEW w \in Wallets, NEW a \in Actions,
               issue(i, w, a)
        PROVE MInv'
    BY <1>2, <1>a, <1>b, SpentStays DEF MInv, issue, requestVars
  <1>3. ASSUME NEW i \in Issuers, NEW n \in Nonces, save(i, n)
        PROVE MInv'
    <2>1. CASE Enforced
      <3>1. ASSUME NEW r \in admitted PROVE body[r].nonce # n
        <4>1. issued[body[r].nonce] = asked(r)
          BY <1>a, <1>b, <2>1 DEF IInv, PastValidation
        <4>2. asked(r) # None
          BY <1>b, NonceAssumption DEF asked
        <4> QED
          BY <1>3, <4>1, <4>2 DEF save, fresh
      <3>2. Spent' /\ SingleUse'
        BY <1>3, <1>a, <1>b, <3>1, SpentStays DEF save, requestVars
      <3> QED
        BY <1>3, <1>a, <1>b, <3>2 DEF MInv, save, requestVars
    <2>2. CASE ~Enforced
      BY <1>3, <1>a, <1>b, <2>2 DEF MInv, save, requestVars, Spent, SingleUse
    <2> QED
      BY <2>1, <2>2
  <1>4. ASSUME NEW n \in Nonces, expire(n) \/ evict(n)
        PROVE MInv'
    <2>1. Spent' /\ SingleUse'
      BY <1>4, <1>a, <1>b, SpentStays DEF expire, evict, requestVars
    <2> QED
      BY <1>4, <1>a, <1>b, <2>1 DEF MInv, expire, evict, requestVars
  <1>5. ASSUME NEW r \in Requests, NEW b \in Bodies, send(r, b)
        PROVE MInv'
    <2>1. \A q \in Requests : pc'[q] # "marking"
      BY <1>5, <1>b DEF send, goto
    <2>2. CASE Enforced
      <3>1. Spent' /\ SingleUse'
        <4>1. UNCHANGED <<admitted, byNonce, expired>>
          BY <1>5, <2>2 DEF send, nonceVars
        <4>2. \A q \in admitted : body'[q] = body[q]
          BY <1>5, <1>a, <1>b DEF send, IInv, NonceTypeOK
        <4> QED
          BY <4>1, <4>2, <1>a, <1>b, SpentStays
      <3> QED
        BY <1>a, <2>1, <3>1 DEF MInv
    <2>3. CASE ~Enforced
      BY <1>a, <2>1, <2>3 DEF MInv, Spent, SingleUse
    <2> QED
      BY <2>2, <2>3
  <1>6. ASSUME NEW r \in Requests, validateForUse(r) \/ consume(r)
        PROVE MInv'
    <2>1. UNCHANGED <<byNonce, expired, body, admitted>>
      BY <1>6 DEF validateForUse, consume, nonceVars
    <2>2. \A q \in Requests : pc'[q] # "marking"
      BY <1>6, <1>b DEF validateForUse, consume, goto, respond
    <2> QED
      BY <1>a, <1>b, <2>1, <2>2, SpentStays DEF MInv
  <1>7. ASSUME NEW r \in Requests, markUsed(r)
        PROVE MInv'
    <2>1. CASE ~unused(body[r].nonce)
      <3>1. UNCHANGED <<byNonce, expired, body, admitted>>
        BY <1>7, <2>1 DEF markUsed, nonceVars
      <3>2. \A q \in Requests : pc'[q] # "marking"
        BY <1>7, <2>1, <1>b DEF markUsed, goto, respond
      <3> QED
        BY <1>a, <1>b, <3>1, <3>2, SpentStays DEF MInv
    <2>2. CASE unused(body[r].nonce)
      <3>1. mark(r)
        BY <1>7, <2>2 DEF markUsed
      <3>2. body[r] \in Bodies /\ body[r].nonce \in Nonces
        BY <1>7, <1>a, NonceAssumption DEF markUsed, IInv, SentHasBody
      <3>3. \A q \in Requests : pc'[q] # "marking"
        BY <3>1, <1>b DEF mark, goto
      <3>4. CASE Enforced
        <4>1. \A q \in admitted : body[q].nonce # body[r].nonce
          BY <1>a, <1>b, <2>2, <3>4, SpentIsUsed
        <4>2. byNonce'[body[r].nonce] \in StoredNonce
              /\ byNonce'[body[r].nonce].used
          BY <3>1, <3>2, <1>b, NonceAssumption DEF mark, StoredNonce
        <4>3. \A q \in admitted : byNonce'[body[q].nonce] = byNonce[body[q].nonce]
          BY <3>1, <4>1, <1>b DEF mark
        <4>4. UNCHANGED <<body, expired>> /\ admitted' = admitted \cup {r}
          BY <3>1 DEF mark
        <4>5. Spent'
          BY <1>b, <4>2, <4>3, <4>4, NonceAssumption DEF Spent, unused
        <4>6. SingleUse'
          BY <1>b, <4>1, <4>4 DEF SingleUse
        <4> QED
          BY <1>a, <3>3, <4>5, <4>6 DEF MInv
      <3>5. CASE ~Enforced
        BY <1>a, <3>3, <3>5 DEF MInv, Spent, SingleUse
      <3> QED
        BY <3>4, <3>5
    <2> QED
      BY <2>1, <2>2
  <1>8. ASSUME NEW r \in Requests, markUsedWrite(r)
        PROVE MInv'
    BY <1>8, <1>b DEF markUsedWrite
  <1> QED
    BY <1>1, <1>2, <1>3, <1>4, <1>5, <1>6, <1>7, <1>8
       DEF NonceNext, issueStep, nonceClock, nonceStep

\* "Each nonce is single-use" when the nonces are kept in memory: two requests
\* never get through with the same one, for any number of requests, any
\* interleaving of their awaits and any expiry.
THEOREM NonceSingleUse ==
    ASSUME ~RedisStore
    PROVE  NonceSpec => []SingleUse
  <1>1. NonceInit => MInv
    BY IInvInit DEF MInv, NonceInit
  <1>2. MInv /\ [NonceNext]_nonceAll => MInv'
    BY MInvStep
  <1>3. MInv => SingleUse
    BY DEF MInv
  <1> QED
    BY <1>1, <1>2, <1>3, PTL DEF NonceSpec

letThrough(n) == {r \in admitted : body[r].nonce = n}

\* A step that leaves the issued nonces, the admitted requests and their bodies
\* alone is not a step of the tokens.
LEMMA TokensStutter ==
    ASSUME UNCHANGED <<issued, admitted>>, \A r \in admitted : body'[r] = body[r]
    PROVE  UNCHANGED Tokens!tokenVars
  BY DEF Tokens!tokenVars

\* A step that lets a request through uses a token that was given and not used.
LEMMA MarkUsesToken ==
    ASSUME MInv, Enforced, NEW r \in Requests, pc[r] = "mark",
           NEW m \in Nonces, m = body[r].nonce, unused(m), mark(r)
    PROVE  Tokens!Use(m, r)
  <1>1. body[r] \in Bodies
    BY NonceAssumption DEF MInv, IInv, SentHasBody
  <1>2. issued[m] # None
    <2>1. issued[m] = asked(r)
      BY DEF MInv, IInv, PastValidation
    <2> QED
      BY <1>1, <2>1, NonceAssumption DEF asked
  <1>3. \A q \in admitted : body[q].nonce # m
    BY SpentIsUsed DEF MInv
  <1>4. UNCHANGED <<issued, body>> /\ admitted' = admitted \cup {r}
    BY DEF mark
  <1>5. letThrough(m) = {}
    BY <1>3 DEF letThrough
  <1>6. ASSUME NEW n \in Nonces
        PROVE  letThrough(n)' = IF n = m THEN {r} ELSE letThrough(n)
    BY <1>3, <1>4 DEF letThrough
  <1>7. [n \in Nonces |-> letThrough(n)]'
          = [[n \in Nonces |-> letThrough(n)] EXCEPT ![m] = {r}]
    BY <1>1, <1>6
  <1> QED
    BY <1>1, <1>2, <1>4, <1>5, <1>7 DEF Tokens!Use, letThrough

\* A nonce is issued once, for a wallet and an action.
LEMMA SaveGivesToken ==
    ASSUME MInv, NEW i \in Issuers, NEW n \in Nonces, save(i, n)
    PROVE  \E p \in Wallets \X Actions : Tokens!Give(n, p)
  <1>1. PICK p \in Wallets \X Actions : p = issuing[i]
    BY DEF save, MInv, IInv, NonceTypeOK
  <1>2. Tokens!Give(n, p)
    BY <1>1 DEF Tokens!Give, save, fresh, requestVars
  <1> QED
    BY <1>2

\* A step of the middleware with the in-memory store is a step of the tokens.
LEMMA NonceStepIsToken ==
    ASSUME ~RedisStore, Enforced, MInv, [NonceNext]_nonceAll
    PROVE  Tokens!Next \/ UNCHANGED Tokens!tokenVars
  <1>a. /\ \A r \in Requests : pc[r] # "marking"
        /\ \A r \in admitted : pc[r] # "idle"
        /\ body \in [Requests -> Bodies \cup {None}] /\ admitted \subseteq Requests
    BY DEF MInv, IInv, SentHasBody, NonceTypeOK
  <1>1. CASE UNCHANGED nonceAll
    BY <1>1, TokensStutter DEF nonceAll, nonceVars, requestVars
  <1>2. ASSUME NEW i \in Issuers, NEW w \in Wallets, NEW a \in Actions,
               issue(i, w, a)
        PROVE UNCHANGED Tokens!tokenVars
    BY <1>2, TokensStutter DEF issue, requestVars
  <1>3. ASSUME NEW i \in Issuers, NEW n \in Nonces, save(i, n)
        PROVE Tokens!Next
    BY <1>3, SaveGivesToken DEF Tokens!Next
  <1>4. ASSUME NEW n \in Nonces, expire(n) \/ evict(n)
        PROVE UNCHANGED Tokens!tokenVars
    BY <1>4, TokensStutter DEF expire, evict, requestVars
  <1>5. ASSUME NEW r \in Requests, NEW b \in Bodies, send(r, b)
        PROVE UNCHANGED Tokens!tokenVars
    <2>1. UNCHANGED <<issued, admitted>>
      BY <1>5 DEF send, nonceVars
    <2>2. \A q \in admitted : body'[q] = body[q]
      BY <1>5, <1>a DEF send
    <2> QED
      BY <2>1, <2>2, TokensStutter
  <1>6. ASSUME NEW r \in Requests, validateForUse(r) \/ consume(r)
        PROVE UNCHANGED Tokens!tokenVars
    BY <1>6, TokensStutter DEF validateForUse, consume, nonceVars
  <1>7. ASSUME NEW r \in Requests, markUsed(r)
        PROVE Tokens!Next \/ UNCHANGED Tokens!tokenVars
    <2>1. CASE ~unused(body[r].nonce)
      BY <1>7, <2>1, TokensStutter DEF markUsed, nonceVars
    <2>2. CASE unused(body[r].nonce)
      <3>1. pc[r] = "mark" /\ mark(r)
        BY <1>7, <2>2 DEF markUsed
      <3>2. PICK m \in Nonces : m = body[r].nonce
        BY <3>1, NonceAssumption DEF MInv, IInv, SentHasBody
      <3> QED
        BY <2>2, <3>1, <3>2, MarkUsesToken DEF Tokens!Next
    <2> QED
      BY <2>1, <2>2
  <1>8. ASSUME NEW r \in Requests, markUsedWrite(r)
        PROVE FALSE
    BY <1>8, <1>a DEF markUsedWrite
  <1> QED
    BY <1>1, <1>2, <1>3, <1>4, <1>5, <1>6, <1>7, <1>8
       DEF NonceNext, issueStep, nonceClock, nonceStep

\* walletSignedAction with the in-memory store implements TokenUse: for any
\* number of wallets, nonces, issuers and requests, a nonce is issued once and
\* lets at most one request through, after it was issued.
THEOREM NonceImplementsToken ==
    ASSUME ~RedisStore, Enforced
    PROVE  NonceSpec => NonceIsToken
  <1>1. NonceInit => MInv /\ Tokens!Init
    BY IInvInit DEF MInv, NonceInit, Tokens!Init
  <1>2. MInv /\ [NonceNext]_nonceAll => MInv'
    BY MInvStep
  <1>3. MInv /\ [NonceNext]_nonceAll => [Tokens!Next]_(Tokens!tokenVars)
    BY NonceStepIsToken
  <1> QED
    BY <1>1, <1>2, <1>3, PTL DEF NonceSpec, NonceIsToken, Tokens!Spec

(***************************************************************************)
(* The deposit and withdrawal handlers.                                    *)
(***************************************************************************)

\* How far a handler has come is how far its operation has come.
Progress ==
    \A r \in Requests :
        /\ pc[r] \in {"admitted", "limit"} \cup Operating => r \in admitted
        /\ pc[r] \in {"create", "mirror", "finish"} => r \in sent
        /\ pc[r] \in {"mirror", "finish"} => r \in rows
        /\ pc[r] = "finish" => r \in mirrored
        /\ pc[r] = "idle" => answer[r] = None

\* A pending entry is of an operation under way with that key.
PendingRuns ==
    \A k \in Keys : pending[k] # None =>
        pc[pending[k]] \in Operating /\ body[pending[k]].key = k

\* A completed entry is of an operation with that key that was carried out.
CompletedIsMirrored ==
    \A k \in Keys : completed[k] # None =>
        completed[k] \in mirrored /\ body[completed[k]].key = k

\* As long as its key is not dropped, an operation under way is the pending one
\* of its key, and nothing has completed under it.
RunningIsPending ==
    \A r \in Requests :
        pc[r] \in Operating /\ body[r].key \notin forgotten \cup {None}
            => pending[body[r].key] = r /\ completed[body[r].key] = None

\* As long as its key is not dropped, an answered 201 is found under it.
AnsweredIsCompleted ==
    \A q \in Requests :
        answer[q] = 201 /\ body[q].key \notin forgotten \cup {None}
            => completed[body[q].key] # None

OInv ==
    /\ IInv /\ TypeOK /\ forgotten \subseteq Keys
    /\ Progress /\ LockTracksOperations
    /\ PendingRuns /\ CompletedIsMirrored
    /\ RunningIsPending /\ AnsweredIsCompleted /\ SuccessIsRecorded

\* Nothing has been sent, locked or stored yet.
LEMMA OInvInit == Init => OInv
  <1> SUFFICES ASSUME Init PROVE OInv
    OBVIOUS
  <1>1. IInv
    BY IInvInit DEF Init
  <1>2. TypeOK /\ forgotten \subseteq Keys
    BY <1>1 DEF Init, NonceInit, TypeOK, IInv
  <1>3. Progress /\ PendingRuns /\ CompletedIsMirrored /\ RunningIsPending
    BY DEF Init, NonceInit, Progress, Operating, PendingRuns, CompletedIsMirrored,
       RunningIsPending
  <1>4. LockTracksOperations
    BY DEF Init, NonceInit, LockTracksOperations, Operating
  <1>5. AnsweredIsCompleted /\ SuccessIsRecorded
    BY OperationAssumption DEF Init, NonceInit, AnsweredIsCompleted, SuccessIsRecorded
  <1> QED
    BY <1>1, <1>2, <1>3, <1>4, <1>5 DEF OInv

\* The fields of a body that has been sent.
LEMMA BodyFields ==
    ASSUME IInv, NEW r \in Requests, pc[r] # "idle"
    PROVE  /\ body[r] \in Bodies
           /\ body[r].wallet \in Wallets /\ body[r].action \in {"deposit", "withdrawal"}
           /\ body[r].key \in Keys \cup {None} /\ body[r].nonce \in Nonces
  BY NonceAssumption, OperationAssumption DEF IInv, SentHasBody

-----------------------------------------------------------------------------
(* The steps outside an operation *)

\* A step that moves no handler: issuing, the clock, overrides, midnight.
LEMMA QuietStep ==
    ASSUME OInv, IInv', UNCHANGED <<body, pc, answer, admitted>>,
           UNCHANGED <<inFlightWallets, completed, pending, sent, rows, mirrored,
                       forgotten>>,
           today' \subseteq today
    PROVE  OInv'
  <1>1. TypeOK' /\ forgotten' \subseteq Keys
    BY DEF OInv, TypeOK, IInv, Operating
  <1>2. Progress' /\ PendingRuns' /\ CompletedIsMirrored' /\ RunningIsPending'
    BY DEF OInv, Progress, PendingRuns, CompletedIsMirrored, RunningIsPending
  <1>3. LockTracksOperations' /\ AnsweredIsCompleted' /\ SuccessIsRecorded'
    BY DEF OInv, LockTracksOperations, AnsweredIsCompleted, SuccessIsRecorded,
       fingerprint, generateFingerprint
  <1> QED
    BY <1>1, <1>2, <1>3 DEF OInv

\* A step of one handler that is not in an operation and does not enter one.
LEMMA OutsideStep ==
    ASSUME OInv, IInv', NEW r \in Requests, pc[r] \notin Operating \cup {"done"},
           NEW l \in Labels \ Operating, l # "idle",
           pc' = [pc EXCEPT ![r] = l],
           l \in {"admitted", "limit"} => r \in admitted',
           admitted \subseteq admitted',
           \/ UNCHANGED answer
           \/ answer' \in {[answer EXCEPT ![r] = 401], [answer EXCEPT ![r] = 409],
                           [answer EXCEPT ![r] = 429]},
           \A q \in Requests : pc[q] # "idle" => body'[q] = body[q],
           UNCHANGED <<inFlightWallets, completed, pending, sent, rows, today, mirrored,
                       forgotten>>
    PROVE  OInv'
  <1>a. /\ pc \in [Requests -> Labels] /\ answer \in [Requests -> {None, 201, 401, 409, 429, 500, 502, 503, Lost}]
        /\ mirrored \subseteq rows /\ rows \subseteq sent /\ sent \subseteq admitted
        /\ \A q \in admitted : pc[q] # "idle"
        /\ admitted \subseteq Requests
    BY DEF OInv, IInv, SentHasBody, NonceTypeOK, TypeOK
  <1>b. \A q \in Requests : pc'[q] \in Operating <=> pc[q] \in Operating
    BY <1>a DEF Labels, Operating
  <1>c. \A q \in Requests : answer'[q] = 201 => answer[q] = 201 /\ pc[q] # "idle"
    BY <1>a, OperationAssumption DEF OInv, Progress
  <1>d. \A q \in mirrored : q \in Requests /\ pc[q] # "idle" /\ body'[q] = body[q]
    BY <1>a
  <1>1. TypeOK' /\ forgotten' \subseteq Keys
    <2>1. pc' \in [Requests -> Labels]
      BY <1>a
    <2>2. answer' \in [Requests -> {None, 201, 401, 409, 429, 500, 502, 503, Lost}]
      BY <1>a
    <2> QED
      BY <2>1, <2>2 DEF OInv, TypeOK, IInv, Labels, Operating
  <1>2. Progress'
    BY <1>a DEF OInv, Progress, Labels, Operating
  <1>3. PendingRuns' /\ CompletedIsMirrored'
    <2>1. PendingRuns'
      BY <1>b DEF OInv, PendingRuns, TypeOK, Operating
    <2>2. CompletedIsMirrored'
      BY <1>d DEF OInv, CompletedIsMirrored
    <2> QED
      BY <2>1, <2>2
  <1>4. RunningIsPending'
    BY <1>b DEF OInv, RunningIsPending, Operating
  <1>5. LockTracksOperations'
    BY <1>b DEF OInv, LockTracksOperations, Operating
  <1>6. AnsweredIsCompleted'
    BY <1>c DEF OInv, AnsweredIsCompleted
  <1>7. SuccessIsRecorded'
    <2> SUFFICES ASSUME NEW a \in Requests, answer'[a] = 201
                 PROVE  \E q \in mirrored' : fingerprint(q)' = fingerprint(a)'
                                              /\ body'[q].key = body'[a].key
      BY DEF SuccessIsRecorded
    <2>1. PICK q \in mirrored : fingerprint(q) = fingerprint(a) /\ body[q].key = body[a].key
      BY <1>c DEF OInv, SuccessIsRecorded
    <2>2. body'[q] = body[q] /\ body'[a] = body[a]
      BY <1>c, <1>d
    <2> QED
      BY <2>1, <2>2 DEF fingerprint
  <1> QED
    BY <1>1, <1>2, <1>3, <1>4, <1>5, <1>6, <1>7 DEF OInv
-----------------------------------------------------------------------------
(* Entering an operation *)

\* What OInv says of a request in front of an operation or in it.
LEMMA OInvFacts ==
    ASSUME OInv
    PROVE  /\ pc \in [Requests -> Labels] /\ admitted \subseteq Requests
           /\ answer \in [Requests -> {None, 201, 401, 409, 429, 500, 502, 503, Lost}]
           /\ completed \in [Keys -> Requests \cup {None}]
           /\ pending \in [Keys -> Requests \cup {None}]
           /\ mirrored \subseteq rows /\ rows \subseteq sent /\ sent \subseteq admitted
           /\ today \subseteq rows
           /\ \A q \in admitted : pc[q] # "idle"
           /\ \A q \in Requests : answer[q] = 201 => pc[q] # "idle"
  BY OperationAssumption DEF OInv, IInv, SentHasBody, NonceTypeOK, TypeOK, Progress

\* While a request finds the lock free, no pending entry has its fingerprint.
LEMMA NotShared == OInv => PendingNeverShared
  <1> SUFFICES ASSUME OInv, NEW r \in Requests, entered(r), body[r].key # None,
                      pending[body[r].key] # None,
                      fingerprint(pending[body[r].key]) = fingerprint(r)
               PROVE  ~lockFree(body[r].wallet)
    BY DEF PendingNeverShared
  <1> DEFINE p == pending[body[r].key]
  <1>1. body[r].key \in Keys
    BY BodyFields DEF OInv, entered
  <1>2. p \in Requests /\ pc[p] \in Operating
    BY <1>1, OInvFacts DEF OInv, PendingRuns
  <1>3. body[p].wallet = body[r].wallet
    BY DEF fingerprint, generateFingerprint
  <1> QED
    BY <1>2, <1>3 DEF OInv, LockTracksOperations, lockFree

\* What a request is replayed has completed, under its own key.
LEMMA ReplayedHasCompleted ==
    ASSUME OInv, NEW r \in Requests, entered(r), lockFree(body[r].wallet),
           entry(r) # None, matches(r)
    PROVE  /\ body[r].key \in Keys /\ completed[body[r].key] # None
           /\ entry(r) \in mirrored /\ body[entry(r)].key = body[r].key
  <1>1. body[r].key \in Keys
    BY BodyFields DEF OInv, entered, entry
  <1>2. completed[body[r].key] # None
    BY <1>1, NotShared, OperationAssumption DEF PendingNeverShared, entry, matches
  <1> QED
    BY <1>1, <1>2, OperationAssumption DEF entry, OInv, CompletedIsMirrored

LEMMA ReplayStep ==
    ASSUME OInv, IInv', NEW r \in Requests, replay(r)
    PROVE  OInv'
  <1> USE OInvFacts
  <1>a. pc[r] \notin Operating \cup {"done", "idle"}
    BY DEF replay, entered, Operating
  <1>b. /\ pc' = [pc EXCEPT ![r] = "done"] /\ answer' = [answer EXCEPT ![r] = 201]
        /\ UNCHANGED <<nonceVars, body, admitted, opVars>>
    BY DEF replay, respond, goto
  <1>c. /\ body[r].key \in Keys /\ completed[body[r].key] # None
        /\ entry(r) \in mirrored /\ body[entry(r)].key = body[r].key
        /\ fingerprint(entry(r)) = fingerprint(r)
    BY ReplayedHasCompleted DEF replay, matches
  <1>d. \A q \in Requests : pc'[q] \in Operating <=> pc[q] \in Operating
    BY <1>a, <1>b DEF Operating
  <1>1. TypeOK' /\ forgotten' \subseteq Keys
    BY <1>b DEF OInv, TypeOK, IInv, opVars
  <1>2. Progress'
    BY <1>a, <1>b DEF OInv, Progress, Operating, opVars
  <1>3. PendingRuns' /\ CompletedIsMirrored' /\ RunningIsPending'
    BY <1>b, <1>d DEF OInv, PendingRuns, CompletedIsMirrored, RunningIsPending, opVars
  <1>4. LockTracksOperations'
    BY <1>b, <1>d DEF OInv, LockTracksOperations, opVars
  <1>5. AnsweredIsCompleted'
    BY <1>b, <1>c DEF OInv, AnsweredIsCompleted, opVars
  <1>6. SuccessIsRecorded'
    BY <1>b, <1>c DEF OInv, SuccessIsRecorded, fingerprint, opVars
  <1> QED
    BY <1>1, <1>2, <1>3, <1>4, <1>5, <1>6 DEF OInv

LEMMA BeginStep ==
    ASSUME OInv, IInv', NEW r \in Requests, begin(r)
    PROVE  OInv'
  <1> USE OInvFacts
  <1>a. pc[r] \in {"admitted", "limit"} /\ r \in admitted
    BY DEF begin, entered, OInv, Progress
  <1>b. /\ pc' = [pc EXCEPT ![r] = "submit"]
        /\ UNCHANGED <<body, answer, admitted, completed, sent, rows, today, mirrored,
                       forgotten>>
        /\ inFlightWallets' = inFlightWallets \cup {body[r].wallet}
        /\ body[r].wallet \notin inFlightWallets
    BY DEF begin, goto, lockFree
  <1>c. body[r].key \in Keys \cup {None}
    BY <1>a, BodyFields DEF OInv
  <1>d. /\ body[r].key = None => pending' = pending
        /\ body[r].key # None => /\ pending' = [pending EXCEPT ![body[r].key] = r]
                                 /\ completed[body[r].key] = None
                                 /\ pending[body[r].key] = None
    BY <1>c DEF begin, entry
  <1>e. \A q \in Requests : pc'[q] \in Operating <=> (pc[q] \in Operating \/ q = r)
    BY <1>a, <1>b DEF Operating
  <1>1. TypeOK' /\ forgotten' \subseteq Keys
    <2>1. pc' \in [Requests -> Labels]
      BY <1>b DEF Labels
    <2>2. pending' \in [Keys -> Requests \cup {None}]
      BY <1>d
    <2> QED
      BY <1>b, <2>1, <2>2 DEF OInv, TypeOK, IInv, Labels, Operating
  <1>2. Progress'
    BY <1>a, <1>b DEF OInv, Progress, Operating
  <1>3. PendingRuns'
    BY <1>b, <1>c, <1>d, <1>e, OperationAssumption DEF OInv, PendingRuns
  <1>4. CompletedIsMirrored'
    BY <1>b DEF OInv, CompletedIsMirrored
  <1>5. RunningIsPending'
    <2> SUFFICES ASSUME NEW q \in Requests, pc'[q] \in Operating,
                        body[q].key \notin forgotten \cup {None}
                 PROVE  pending'[body[q].key] = q /\ completed[body[q].key] = None
      BY <1>b DEF RunningIsPending
    <2>1. CASE q = r
      BY <1>c, <1>d, <2>1
    <2>2. CASE q # r
      <3>1. pending[body[q].key] = q /\ completed[body[q].key] = None
        BY <1>e, <2>2 DEF OInv, RunningIsPending
      <3>2. body[q].key \in Keys
        BY <1>e, <2>2, BodyFields DEF OInv, Operating
      <3> QED
        BY <1>d, <3>1, <3>2, OperationAssumption
    <2> QED
      BY <2>1, <2>2
  <1>6. LockTracksOperations'
    BY <1>b, <1>e DEF OInv, LockTracksOperations
  <1>7. AnsweredIsCompleted' /\ SuccessIsRecorded'
    BY <1>b DEF OInv, AnsweredIsCompleted, SuccessIsRecorded, fingerprint
  <1> QED
    BY <1>1, <1>2, <1>3, <1>4, <1>5, <1>6, <1>7 DEF OInv
-----------------------------------------------------------------------------
(* In an operation *)

\* The operation of r goes on: the network, the table or the mirror has it.
LEMMA AdvanceStep ==
    ASSUME OInv, IInv', NEW r \in Requests, pc[r] \in Operating,
           NEW l \in Operating \ {"submit"}, pc' = [pc EXCEPT ![r] = l],
           sent \subseteq sent', rows \subseteq rows', mirrored \subseteq mirrored',
           mirrored' \subseteq rows', rows' \subseteq sent', sent' \subseteq admitted,
           today' \subseteq rows', r \in sent',
           l \in {"mirror", "finish"} => r \in rows',
           l = "finish" => r \in mirrored',
           UNCHANGED <<body, answer, admitted, inFlightWallets, completed, pending,
                       forgotten>>
    PROVE  OInv'
  <1> USE OInvFacts
  <1>a. \A q \in Requests : pc'[q] \in Operating <=> pc[q] \in Operating
    OBVIOUS
  <1>1. TypeOK' /\ forgotten' \subseteq Keys
    <2>1. pc' \in [Requests -> Labels]
      BY DEF Labels, Operating
    <2> QED
      BY <2>1 DEF OInv, TypeOK, IInv, Labels, Operating
  <1>2. Progress'
    BY DEF OInv, Progress, Operating
  <1>3. PendingRuns' /\ CompletedIsMirrored' /\ RunningIsPending'
    BY <1>a DEF OInv, PendingRuns, CompletedIsMirrored, RunningIsPending
  <1>4. LockTracksOperations'
    BY <1>a DEF OInv, LockTracksOperations
  <1>5. AnsweredIsCompleted' /\ SuccessIsRecorded'
    BY DEF OInv, AnsweredIsCompleted, SuccessIsRecorded, fingerprint
  <1> QED
    BY <1>1, <1>2, <1>3, <1>4, <1>5 DEF OInv

\* The operation of r ends: the lock is released and the key is not pending.
LEMMA EndStep ==
    ASSUME OInv, IInv', NEW r \in Requests, pc[r] \in Operating,
           pc' = [pc EXCEPT ![r] = "done"],
           \/ answer' = [answer EXCEPT ![r] = 500] \/ answer' = [answer EXCEPT ![r] = 502]
           \/ answer' = [answer EXCEPT ![r] = 503] \/ answer' = [answer EXCEPT ![r] = 201],
           inFlightWallets' = inFlightWallets \ {body[r].wallet},
           pending' = without_entry(r),
           \/ answer'[r] # 201 /\ UNCHANGED completed
           \/ /\ answer'[r] = 201 /\ r \in mirrored
              /\ completed' = IF body[r].key = None THEN completed
                              ELSE [completed EXCEPT ![body[r].key] = r],
           sent \subseteq sent', sent' \subseteq admitted,
           UNCHANGED <<body, admitted, rows, today, mirrored, forgotten>>
    PROVE  OInv'
  <1> USE OInvFacts
  <1>a. \A q \in Requests : pc'[q] \in Operating <=> (pc[q] \in Operating /\ q # r)
    BY DEF Operating
  <1>b. body[r].key \in Keys \cup {None}
    BY BodyFields DEF OInv, Operating
  <1>c. \A q \in Requests : (pc[q] \in Operating /\ q # r)
            => body[q].key \in Keys \cup {None} /\ body[q].wallet # body[r].wallet
    BY BodyFields DEF OInv, LockTracksOperations, Operating
  <1>1. TypeOK' /\ forgotten' \subseteq Keys
    <2>1. pc' \in [Requests -> Labels]
      BY DEF Labels
    <2>a. pending' \in [Keys -> Requests \cup {None}]
      BY DEF without_entry
    <2>2. completed' \in [Keys -> Requests \cup {None}]
      OBVIOUS
    <2>3. answer' \in [Requests -> {None, 201, 401, 409, 429, 500, 502, 503, Lost}]
      OBVIOUS
    <2> QED
      BY <2>1, <2>a, <2>2, <2>3 DEF OInv, TypeOK, IInv, Labels, Operating
  <1>2. Progress'
    BY DEF OInv, Progress, Operating
  <1>3. PendingRuns'
    BY <1>a, <1>b, OperationAssumption DEF OInv, PendingRuns, without_entry
  <1>4. CompletedIsMirrored'
    BY <1>b DEF OInv, CompletedIsMirrored
  <1>5. RunningIsPending'
    <2> SUFFICES ASSUME NEW q \in Requests, pc[q] \in Operating, q # r,
                        body[q].key \notin forgotten \cup {None}
                 PROVE  pending'[body[q].key] = q /\ completed'[body[q].key] = None
      BY <1>a DEF RunningIsPending
    <2>1. pending[body[q].key] = q /\ completed[body[q].key] = None
      BY DEF OInv, RunningIsPending
    <2>2. body[r].key # body[q].key
      BY <2>1 DEF OInv, RunningIsPending
    <2> QED
      BY <1>c, <2>1, <2>2 DEF without_entry
  <1>6. LockTracksOperations'
    <2> DEFINE running == {q \in Requests : pc[q] \in Operating}
    <2>1. {q \in Requests : pc'[q] \in Operating} = running \ {r}
      BY <1>a
    <2>2. inFlightWallets = {body[q].wallet : q \in running}
      BY DEF OInv, LockTracksOperations
    <2>3. inFlightWallets' = {body[q].wallet : q \in running \ {r}}
      BY <1>c, <2>2
    <2> QED
      BY <2>1, <2>3 DEF OInv, LockTracksOperations
  <1>7. AnsweredIsCompleted'
    <2> SUFFICES ASSUME NEW q \in Requests, answer'[q] = 201,
                        body[q].key \notin forgotten \cup {None}
                 PROVE  completed'[body[q].key] # None
      BY DEF AnsweredIsCompleted
    <2>1. CASE q = r
      BY <1>b, <2>1, OperationAssumption
    <2>2. CASE q # r
      <3>1. answer[q] = 201 /\ completed[body[q].key] # None
        BY <2>2 DEF OInv, AnsweredIsCompleted
      <3>2. body[q].key \in Keys
        BY <3>1, BodyFields DEF OInv
      <3> QED
        BY <1>b, <3>1, <3>2, OperationAssumption
    <2> QED
      BY <2>1, <2>2
  <1>8. SuccessIsRecorded'
    BY DEF OInv, SuccessIsRecorded, fingerprint
  <1> QED
    BY <1>1, <1>2, <1>3, <1>4, <1>5, <1>6, <1>7, <1>8 DEF OInv

-----------------------------------------------------------------------------
(* Dropped keys and restarts *)

LEMMA ForgetStep ==
    ASSUME OInv, IInv', NEW K \in SUBSET Keys, forget(K)
    PROVE  OInv'
  <1> USE OInvFacts
  <1>a. UNCHANGED <<body, pc, answer, admitted, inFlightWallets, sent, rows, today, mirrored>>
    BY DEF forget, requestVars
  <1>b. forgotten' = forgotten \cup K
    BY DEF forget
  <1>c. \A k \in Keys : /\ completed'[k] = IF k \in K THEN None ELSE completed[k]
                        /\ pending'[k] = IF k \in K THEN None ELSE pending[k]
    BY DEF forget
  <1>d. \A q \in Requests : pc[q] # "idle" => body[q].key \in Keys \cup {None}
    BY BodyFields DEF OInv
  <1>1. TypeOK' /\ forgotten' \subseteq Keys
    <2>1. /\ completed' \in [Keys -> Requests \cup {None}]
          /\ pending' \in [Keys -> Requests \cup {None}]
      BY DEF forget
    <2> QED
      BY <1>a, <1>b, <2>1 DEF OInv, TypeOK, IInv
  <1>2. Progress'
    BY <1>a DEF OInv, Progress
  <1>3. PendingRuns' /\ CompletedIsMirrored'
    BY <1>a, <1>c DEF OInv, PendingRuns, CompletedIsMirrored
  <1>4. RunningIsPending'
    BY <1>a, <1>b, <1>c, <1>d DEF OInv, RunningIsPending, Operating
  <1>5. AnsweredIsCompleted'
    BY <1>a, <1>b, <1>c, <1>d DEF OInv, AnsweredIsCompleted
  <1>6. LockTracksOperations' /\ SuccessIsRecorded'
    BY <1>a DEF OInv, LockTracksOperations, SuccessIsRecorded, fingerprint
  <1> QED
    BY <1>1, <1>2, <1>3, <1>4, <1>5, <1>6 DEF OInv

LEMMA RestartStep ==
    ASSUME OInv, restart
    PROVE  OInv'
  <1> USE OInvFacts
  <1>a. UNCHANGED <<body, issued, expired, admitted, sent, rows, today, mirrored>>
    BY DEF restart
  <1>b. \A q \in Requests : /\ pc'[q] \in {"idle", "done"}
                            /\ pc'[q] = "idle" <=> pc[q] = "idle"
    BY DEF restart
  <1>c. \A q \in Requests : answer'[q] = answer[q] \/ (answer'[q] = Lost /\ pc[q] # "idle")
    BY DEF restart
  <1>d. \A q \in Requests : pc[q] # "idle" => body[q].key \in Keys \cup {None}
    BY BodyFields DEF OInv
  <1>0. IInv'
    <2>1. NonceTypeOK'
      BY <1>a DEF restart, OInv, IInv, NonceTypeOK
    <2>2. SentHasBody'
      BY <1>a, <1>b DEF restart, OInv, IInv, SentHasBody, Labels
    <2>3. EntriesAreIssued'
      BY <1>a DEF restart, OInv, IInv, EntriesAreIssued
    <2>4. PastValidation'
      <3>1. PastValidation
        BY DEF OInv, IInv
      <3>2. \A r \in Requests : pc'[r] \notin {"consume", "mark", "marking"}
        BY <1>b
      <3> QED
        BY <1>a, <3>1, <3>2 DEF PastValidation, asked
    <2> QED
      BY <2>1, <2>2, <2>3, <2>4 DEF IInv
  <1>1. TypeOK' /\ forgotten' \subseteq Keys
    <2>1. pc' \in [Requests -> {"idle", "done"}]
      BY DEF restart
    <2>2. answer' \in [Requests -> {None, 201, 401, 409, 429, 500, 502, 503, Lost}]
      BY DEF restart
    <2> QED
      BY <1>0, <1>a, <2>1, <2>2 DEF restart, OInv, TypeOK, IInv
  <1>2. Progress'
    BY <1>a, <1>b, <1>c DEF OInv, Progress, Operating
  <1>3. PendingRuns' /\ CompletedIsMirrored'
    BY DEF restart, PendingRuns, CompletedIsMirrored
  <1>4. RunningIsPending' /\ LockTracksOperations'
    BY <1>b DEF restart, RunningIsPending, LockTracksOperations, Operating
  <1>5. AnsweredIsCompleted'
    BY <1>a, <1>b, <1>c, <1>d DEF restart, AnsweredIsCompleted, Lost
  <1>6. SuccessIsRecorded'
    BY <1>a, <1>c DEF OInv, SuccessIsRecorded, fingerprint, Lost
  <1> QED
    BY <1>0, <1>1, <1>2, <1>3, <1>4, <1>5, <1>6 DEF OInv

-----------------------------------------------------------------------------
(* Every step *)

\* A step of an operation leaves what the middleware's invariant is about.
LEMMA IInvKept ==
    ASSUME IInv, UNCHANGED <<nonceVars, body, admitted>>, NEW r \in Requests,
           pc[r] # "idle",
           NEW l \in Labels \ {"idle", "consume", "mark", "marking"},
           pc' = [pc EXCEPT ![r] = l]
    PROVE  IInv'
  <1>1. NonceTypeOK' /\ EntriesAreIssued'
    BY DEF IInv, NonceTypeOK, EntriesAreIssued, nonceVars
  <1>2. SentHasBody'
    BY DEF IInv, SentHasBody, NonceTypeOK
  <1>3. PastValidation'
    BY DEF IInv, SentHasBody, PastValidation, asked, nonceVars
  <1> QED
    BY <1>1, <1>2, <1>3 DEF IInv

\* The steps of the limit middleware and of the operation, one by one.
LEMMA OperationStep ==
    ASSUME OInv, NEW r \in Requests, handlerStep(r), ~(nonceStep(r) /\ UNCHANGED opVars)
    PROVE  OInv'
  <1> USE DEF Operating, Labels
  <1>1. CASE sumWithdrawalsForDay(r)
    <2>1. /\ pc[r] = "admitted" /\ pc' = [pc EXCEPT ![r] = "limit"] /\ r \in admitted
          /\ UNCHANGED <<nonceVars, body, answer, admitted, inFlightWallets, completed,
                         pending, sent, rows, today, mirrored, forgotten>>
      BY <1>1 DEF sumWithdrawalsForDay, goto, OInv, Progress
    <2>2. IInv'
      BY <2>1, IInvKept DEF OInv
    <2> QED
      BY <2>1, <2>2, OutsideStep
  <1>2. CASE blocked(r) \/ conflict(r)
    <2>1. /\ pc[r] \in {"admitted", "limit"} /\ pc' = [pc EXCEPT ![r] = "done"]
          /\ answer' \in {[answer EXCEPT ![r] = 409], [answer EXCEPT ![r] = 429]}
          /\ UNCHANGED <<nonceVars, body, admitted>> /\ UNCHANGED opVars
      BY <1>2 DEF blocked, conflict, entered, respond, goto
    <2>2. IInv'
      BY <2>1, IInvKept, ZenonT(30) DEF OInv
    <2>3. UNCHANGED <<inFlightWallets, completed, pending, sent, rows, today, mirrored,
                      forgotten>>
      BY <2>1 DEF opVars
    <2>4. /\ pc[r] \notin Operating \cup {"done"} /\ "done" \in Labels \ Operating /\ "done" # "idle"
          /\ "done" \notin {"admitted", "limit"}
      BY <2>1 DEF Operating, Labels
    <2>5. /\ UNCHANGED <<body, admitted>>
          /\ answer' = [answer EXCEPT ![r] = 409] \/ answer' = [answer EXCEPT ![r] = 429]
          /\ pc' = [pc EXCEPT ![r] = "done"]
      BY <2>1
    <2> QED
      BY <2>2, <2>3, <2>4, <2>5, OutsideStep, ZenonT(30)
  <1>3. CASE replay(r)
    <2>1. /\ pc[r] # "idle" /\ pc' = [pc EXCEPT ![r] = "done"]
          /\ UNCHANGED <<nonceVars, body, admitted>>
      BY <1>3 DEF replay, entered, respond, goto
    <2>2. IInv'
      BY <2>1, IInvKept DEF OInv
    <2> QED
      BY <1>3, <2>2, ReplayStep
  <1>4. CASE begin(r)
    <2>1. /\ pc[r] # "idle" /\ pc' = [pc EXCEPT ![r] = "submit"]
          /\ UNCHANGED <<nonceVars, body, admitted>>
      BY <1>4 DEF begin, entered, goto
    <2>2. IInv'
      BY <2>1, IInvKept DEF OInv
    <2> QED
      BY <1>4, <2>2, BeginStep
  <1>5. CASE submitRejected(r) \/ submitReplyLost(r) \/ databaseFails(r)
    <2>1. throws(r, 500) \/ throws(r, 502) \/ throws(r, 503)
      BY <1>5 DEF submitRejected, submitReplyLost, databaseFails
    <2>2. /\ pc' = [pc EXCEPT ![r] = "done"]
          /\ inFlightWallets' = inFlightWallets \ {body[r].wallet}
          /\ pending' = without_entry(r)
          /\ UNCHANGED <<nonceVars, body, admitted, completed, rows, today, mirrored,
                         forgotten>>
      BY <2>1 DEF throws, respond, goto, unlocked
    <2>3. pc[r] \in Operating
      BY <1>5 DEF submitRejected, submitReplyLost, databaseFails
    <2>4. sent \subseteq sent' /\ sent' \subseteq admitted
      BY <1>5, <2>3, OInvFacts
         DEF submitRejected, submitReplyLost, databaseFails, transmit, OInv, Progress
    <2>5. IInv'
      BY <2>2, <2>3, IInvKept DEF OInv
    <2>6. UNCHANGED completed /\ UNCHANGED <<body, admitted, rows, today, mirrored, forgotten>>
      BY <2>2
    <2>7. /\ \/ answer' = [answer EXCEPT ![r] = 500] \/ answer' = [answer EXCEPT ![r] = 502]
             \/ answer' = [answer EXCEPT ![r] = 503]
          /\ answer'[r] # 201
      BY <2>1, OInvFacts DEF throws, respond
    <2> QED
      BY <2>2, <2>3, <2>4, <2>5, <2>6, <2>7, EndStep, ZenonT(30)
  <1>6. CASE submitSorobanTx(r) \/ createRow(r) \/ updateVaultStateAndSnapshot(r)
    <2> DEFINE l == IF pc[r] = "submit" THEN "create"
                    ELSE IF pc[r] = "create" THEN "mirror" ELSE "finish"
    <2>1. /\ pc[r] \in {"submit", "create", "mirror"} /\ pc' = [pc EXCEPT ![r] = l]
          /\ UNCHANGED <<nonceVars, body, answer, admitted, inFlightWallets, completed,
                         pending, forgotten>>
      BY <1>6 DEF submitSorobanTx, createRow, updateVaultStateAndSnapshot, goto
    <2>2. /\ sent' = IF pc[r] = "submit" THEN sent \cup {r} ELSE sent
          /\ rows' = IF pc[r] = "create" THEN rows \cup {r} ELSE rows
          /\ today' = IF pc[r] = "create" THEN today \cup {r} ELSE today
          /\ mirrored' = IF pc[r] = "mirror" THEN mirrored \cup {r} ELSE mirrored
      BY <1>6 DEF submitSorobanTx, createRow, updateVaultStateAndSnapshot, transmit
    <2>3. /\ r \in admitted /\ (pc[r] # "submit" => r \in sent)
          /\ (pc[r] = "mirror" => r \in rows)
      BY <2>1 DEF OInv, Progress
    <2>4. IInv'
      BY <2>1, IInvKept DEF OInv
    <2>5. /\ sent \subseteq sent' /\ rows \subseteq rows' /\ mirrored \subseteq mirrored'
          /\ mirrored' \subseteq rows' /\ rows' \subseteq sent' /\ sent' \subseteq admitted
          /\ today' \subseteq rows' /\ r \in sent'
      BY <2>1, <2>2, <2>3, OInvFacts
    <2>6. /\ l \in {"mirror", "finish"} => r \in rows'
          /\ l = "finish" => r \in mirrored'
          /\ l \in Operating \ {"submit"}
      BY <2>1, <2>2, <2>3
    <2> HIDE DEF l
    <2> QED
      BY <2>1, <2>4, <2>5, <2>6, AdvanceStep
  <1>7. CASE finish(r)
    <2>1. /\ pc[r] = "finish" /\ pc' = [pc EXCEPT ![r] = "done"] /\ r \in mirrored
          /\ answer' = [answer EXCEPT ![r] = 201]
          /\ inFlightWallets' = inFlightWallets \ {body[r].wallet}
          /\ pending' = without_entry(r)
          /\ completed' = IF body[r].key = None THEN completed
                          ELSE [completed EXCEPT ![body[r].key] = r]
          /\ UNCHANGED <<nonceVars, body, admitted, sent, rows, today, mirrored, forgotten>>
      BY <1>7 DEF finish, respond, goto, unlocked, OInv, Progress
    <2>2. IInv'
      BY <2>1, IInvKept DEF OInv
    <2>3. /\ answer'[r] = 201 /\ sent \subseteq sent' /\ sent' \subseteq admitted
          /\ pc[r] \in Operating
          /\ UNCHANGED <<body, admitted, rows, today, mirrored, forgotten>>
      BY <2>1, OInvFacts
    <2> QED
      BY <2>1, <2>2, <2>3, EndStep
  <1> QED
    BY <1>1, <1>2, <1>3, <1>4, <1>5, <1>6, <1>7 DEF handlerStep

\* The middleware's own steps, and a client that sends.
LEMMA MiddlewareStep ==
    ASSUME OInv, IInv', UNCHANGED opVars, NEW r \in Requests,
           nonceStep(r) \/ \E b \in Bodies : send(r, b)
    PROVE  OInv'
  <1> USE DEF Operating, Labels
  <1>1. UNCHANGED <<inFlightWallets, completed, pending, sent, rows, today, mirrored,
                    forgotten>>
    BY DEF opVars
  <1>2. ASSUME NEW b \in Bodies, send(r, b) PROVE OInv'
    <2>1. PICK l \in {"validate", "admitted"} :
             /\ pc[r] = "idle" /\ pc' = [pc EXCEPT ![r] = l]
             /\ l = "admitted" => r \in admitted'
             /\ admitted \subseteq admitted' /\ UNCHANGED answer
             /\ body' = [body EXCEPT ![r] = b]
      BY <1>2 DEF send, goto
    <2>2. \A q \in Requests : pc[q] # "idle" => body'[q] = body[q]
      BY <2>1 DEF OInv, IInv, NonceTypeOK
    <2> QED
      BY <1>1, <2>1, <2>2, OutsideStep
  <1>3. CASE nonceStep(r)
    <2>1. PICK l \in {"consume", "mark", "marking", "admitted", "done"} :
             /\ pc[r] \in {"validate", "consume", "mark", "marking"}
             /\ pc' = [pc EXCEPT ![r] = l]
             /\ l = "admitted" => r \in admitted'
             /\ admitted \subseteq admitted'
             /\ UNCHANGED answer \/ answer' = [answer EXCEPT ![r] = 401]
             /\ UNCHANGED body
      BY <1>3 DEF nonceStep, validateForUse, consume, markUsed, markUsedWrite, mark,
         respond, goto
    <2>2. /\ pc[r] \notin Operating \cup {"done"} /\ l \in Labels \ Operating /\ l # "idle"
          /\ l # "limit" /\ \A q \in Requests : pc[q] # "idle" => body'[q] = body[q]
          /\ UNCHANGED answer \/ answer' = [answer EXCEPT ![r] = 401]
      BY <2>1
    <2> QED
      BY <1>1, <2>1, <2>2, OutsideStep, ZenonT(30)
  <1> QED
    BY <1>2, <1>3

\* OInv holds after every step.
LEMMA OInvStep == OInv /\ [Next]_vars => OInv'
  <1> SUFFICES ASSUME OInv, [Next]_vars PROVE OInv'
    OBVIOUS
  <1>a. IInv
    BY DEF OInv
  <1>1. ASSUME [issueStep \/ nonceClock]_nonceAll, UNCHANGED opVars PROVE OInv'
    <2>1. IInv'
      BY <1>1, <1>a, IInvStep DEF NonceNext
    <2>2. UNCHANGED <<body, pc, answer, admitted>>
      BY <1>1 DEF issueStep, nonceClock, issue, save, expire, evict, requestVars, nonceAll
    <2> QED
      BY <1>1, <2>1, <2>2, QuietStep DEF opVars
  <1>2. CASE UNCHANGED vars
    BY <1>1, <1>2 DEF vars, nonceAll
  <1>3. ASSUME NEW r \in Requests, handlerStep(r) PROVE OInv'
    <2>1. CASE nonceStep(r) /\ UNCHANGED opVars
      <3>1. IInv'
        BY <2>1, <1>a, IInvStep DEF NonceNext
      <3> QED
        BY <2>1, <3>1, MiddlewareStep
    <2> QED
      BY <1>3, <2>1, OperationStep
  <1>4. ASSUME NEW r \in Requests, NEW b \in Bodies, send(r, b), UNCHANGED opVars
        PROVE  OInv'
    <2>1. IInv'
      BY <1>4, <1>a, IInvStep DEF NonceNext
    <2> QED
      BY <1>4, <2>1, MiddlewareStep
  <1>5. CASE clear \/ \E k \in Keys : deleteKey(k)
    <2>1. PICK K \in SUBSET Keys : forget(K)
      BY <1>5 DEF clear, deleteKey
    <2>2. UNCHANGED nonceAll
      BY <2>1 DEF forget, nonceAll
    <2> QED
      BY <1>a, <2>1, <2>2, IInvStep, ForgetStep
  <1>6. CASE newDay \/ \E w \in Wallets : setWithdrawalLimitOverride(w) \/ overrideExpires(w)
    <2>1. /\ UNCHANGED nonceAll /\ UNCHANGED <<body, pc, answer, admitted>>
          /\ UNCHANGED <<inFlightWallets, completed, pending, sent, rows, mirrored, forgotten>>
          /\ today' \subseteq today
      BY <1>6 DEF newDay, setWithdrawalLimitOverride, overrideExpires, nonceAll, requestVars
    <2>2. IInv'
      BY <1>a, <2>1, IInvStep
    <2> QED
      BY <2>1, <2>2, QuietStep
  <1>7. CASE restart
    BY <1>7, RestartStep
  <1> QED
    BY <1>1, <1>2, <1>3, <1>4, <1>5, <1>6, <1>7 DEF Next

\* The handlers keep their types: what is mirrored is in the table, what is in
\* the table is on the network, and what is on the network was admitted.
THEOREM OperationTyped == Spec => []TypeOK
  <1>1. OInv => TypeOK
    BY DEF OInv
  <1> QED
    BY <1>1, OInvInit, OInvStep, PTL DEF Spec

\* walletLock.ts: on every path through the handlers the lock set is exactly the
\* wallets of the operations under way, one operation of a wallet at a time, and
\* no request shares another's promise.
THEOREM OneAtATime == Spec => []OneOperationPerWallet
  <1>1. OInv => OneOperationPerWallet
    BY NotShared DEF OInv, OneOperationPerWallet
  <1> QED
    BY <1>1, OInvInit, OInvStep, PTL DEF Spec

\* A 201 is backed by an operation of the same key and fingerprint that was
\* sent, recorded and mirrored.
THEOREM AnswersAreBacked == Spec => []SuccessIsRecorded
  <1>1. OInv => SuccessIsRecorded
    BY DEF OInv
  <1> QED
    BY <1>1, OInvInit, OInvStep, PTL DEF Spec

\* A request is sent to the network only by its own submission.
LEMMA SentBySubmission ==
    ASSUME OInv, Next, NEW r \in sent' \ sent
    PROVE  r \in Requests /\ pc[r] = "submit"
  <1>1. PICK q \in Requests : (pc[q] = "submit" /\ transmit(q)) \/ UNCHANGED sent
    <2>1. CASE \E q \in Requests : handlerStep(q)
      BY <2>1 DEF handlerStep, sumWithdrawalsForDay, blocked, conflict, replay, begin,
         submitRejected, submitReplyLost, submitSorobanTx, createRow,
         updateVaultStateAndSnapshot, databaseFails, finish, opVars
    <2>2. CASE ~ \E q \in Requests : handlerStep(q)
      <3>1. UNCHANGED sent
        BY <2>2 DEF Next, opVars, deleteKey, clear, forget, setWithdrawalLimitOverride,
           overrideExpires, newDay, restart
      <3> QED
        BY <3>1
    <2> QED
      BY <2>1, <2>2
  <1> QED
    BY <1>1 DEF transmit

\* The idempotency store: as long as it has not dropped the key, nothing is sent
\* to the network under a key that has been answered 201, whatever overlaps,
\* fails or is retried.
THEOREM KeysAreSentOnce == Spec => NoResubmission
  <1>1. ASSUME OInv, [Next]_vars
        PROVE  [\A r \in sent' \ sent, q \in Requests :
                  (q # r /\ body[q] # None /\ body[q].key = body[r].key
                   /\ body[r].key \notin forgotten \cup {None}) => answer[q] # 201]_vars
    <2>1. CASE UNCHANGED vars
      BY <2>1
    <2>2. CASE Next
      <3> SUFFICES ASSUME NEW r \in sent' \ sent, NEW q \in Requests,
                          body[q].key = body[r].key,
                          body[r].key \notin forgotten \cup {None}, answer[q] = 201
                   PROVE  FALSE
        OBVIOUS
      <3>1. completed[body[r].key] = None
        BY <2>2, <1>1, SentBySubmission DEF OInv, RunningIsPending, Operating
      <3>2. completed[body[q].key] # None
        BY <1>1 DEF OInv, AnsweredIsCompleted
      <3> QED
        BY <3>1, <3>2
    <2> QED
      BY <1>1, <2>1, <2>2
  <1> QED
    BY <1>1, OInvInit, OInvStep, PTL DEF Spec, NoResubmission

-----------------------------------------------------------------------------
(* The nonces on the whole path, with the in-memory store *)

\* A step of the path is a step of the middleware, or leaves the issued nonces
\* and the requests let through alone; a restart may empty the store.
LEMMA MiddlewareOrNot ==
    ASSUME OInv, [Next]_vars, ~RedisStore
    PROVE  \/ [NonceNext]_nonceAll
           \/ /\ UNCHANGED <<issued, admitted, body>>
              /\ UNCHANGED byNonce \/ byNonce' = [n \in Nonces |-> None]
              /\ \A q \in Requests : pc'[q] = "marking" => pc[q] = "marking"
  <1> USE OInvFacts
  <1>1. CASE UNCHANGED vars
    BY <1>1 DEF vars, nonceAll
  <1>2. ASSUME NEW r \in Requests, handlerStep(r), ~nonceStep(r)
        PROVE  /\ UNCHANGED <<issued, admitted, body, byNonce>>
               /\ \A q \in Requests : pc'[q] = "marking" => pc[q] = "marking"
    <2>1. UNCHANGED <<issued, admitted, body, byNonce>>
      BY <1>2 DEF handlerStep, sumWithdrawalsForDay, blocked, conflict, replay, begin,
         submitRejected, submitReplyLost, submitSorobanTx, createRow, throws,
         updateVaultStateAndSnapshot, databaseFails, finish, nonceVars
    <2>2. \E l \in Labels \ {"marking"} : pc' = [pc EXCEPT ![r] = l]
      BY <1>2 DEF handlerStep, sumWithdrawalsForDay, blocked, conflict, replay, begin,
         submitRejected, submitReplyLost, submitSorobanTx, createRow, throws,
         updateVaultStateAndSnapshot, databaseFails, finish, goto, respond, Labels
    <2> QED
      BY <2>1, <2>2
  <1>3. CASE clear \/ newDay \/ (\E k \in Keys : deleteKey(k))
             \/ \E w \in Wallets : setWithdrawalLimitOverride(w) \/ overrideExpires(w)
    BY <1>3 DEF clear, newDay, deleteKey, forget, setWithdrawalLimitOverride,
       overrideExpires, nonceAll
  <1>4. CASE restart
    BY <1>4 DEF restart
  <1> QED
    BY <1>1, <1>2, <1>3, <1>4 DEF Next, NonceNext

\* The deposit and withdrawal routes implement TokenUse: with the nonces in
\* memory a nonce lets one request through, later than it was issued, through
\* every failure of the operation behind it and every restart.
THEOREM OperationImplementsToken ==
    ASSUME ~RedisStore, Enforced
    PROVE  Spec => NonceIsToken
  <1> DEFINE Inv == OInv /\ MInv
  <1>1. Init => Inv /\ Tokens!Init
    BY OInvInit, IInvInit DEF Init, MInv, NonceInit, Tokens!Init
  <1>2. Inv /\ [Next]_vars => Inv' /\ [Tokens!Next]_(Tokens!tokenVars)
    <2> SUFFICES ASSUME Inv, [Next]_vars
                 PROVE  MInv' /\ (Tokens!Next \/ UNCHANGED Tokens!tokenVars)
      BY OInvStep
    <2>a. IInv'
      BY OInvStep DEF OInv
    <2>1. CASE [NonceNext]_nonceAll
      BY <2>1, MInvStep, NonceStepIsToken
    <2>2. CASE /\ UNCHANGED <<issued, admitted, body>>
               /\ UNCHANGED byNonce \/ byNonce' = [n \in Nonces |-> None]
               /\ \A q \in Requests : pc'[q] = "marking" => pc[q] = "marking"
      <3>1. \A q \in admitted : body[q].nonce \in Nonces
        BY BodyFields DEF OInv, IInv, SentHasBody, NonceTypeOK
      <3>2. Spent' /\ SingleUse'
        BY <2>2, <3>1, SpentStays DEF MInv
      <3> QED
        BY <2>a, <2>2, <3>2, TokensStutter DEF MInv
    <2> QED
      BY <2>1, <2>2, MiddlewareOrNot
  <1> QED
    BY <1>1, <1>2, PTL DEF Spec, NonceIsToken, Tokens!Spec

-----------------------------------------------------------------------------
(* The daily limit *)

\* The handler has not written its row.
Early == {"idle", "validate", "consume", "mark", "marking", "admitted", "limit",
          "submit", "create"}

\* A row is written by a handler that has come that far, once.
RowsAreLate == \A r \in Requests : pc[r] \in Early => r \notin rows

\* What a request has summed were rows of its wallet's withdrawals, never its own.
SummedAreRows ==
    /\ used \in [Requests -> SUBSET Requests]
    /\ \A r \in Requests : /\ used[r] \subseteq rows
                           /\ used[r] # {} => pc[r] # "idle"
                           /\ r \notin used[r]
                           /\ \A q \in used[r] : /\ body[q].action = "withdrawal"
                                                 /\ body[q].wallet = body[r].wallet

\* What was there when a summed row was evaluated is still there, unless the day
\* has ended, and so has been summed too.
SummedInTurn ==
    \A r \in Requests : \A q \in used[r] : \A p \in used[q] : p \in today => p \in used[r]

\* A withdrawal under way or recorded was within the limit, or is excused.
EvaluatedOrExcused ==
    \A r \in Requests :
        (r \in rows \/ pc[r] \in Operating) /\ body[r].action = "withdrawal" /\ r \notin excused
            => withinLimit(r)

LimitInv == /\ OInv /\ IsFiniteSet(rows) /\ RowsAreLate /\ SummedAreRows
            /\ SummedInTurn /\ EvaluatedOrExcused

\* A step that neither evaluates, begins nor records.
Passes ==
    /\ UNCHANGED <<used, excused, rows>> /\ today' \subseteq today
    /\ \A q \in Requests :
          /\ pc[q] # "idle" => body'[q] = body[q] /\ pc'[q] # "idle"
          /\ pc'[q] \in Operating => pc[q] \in Operating
          /\ pc'[q] \in Early => pc[q] \in Early

\* One handler moves on.
LEMMA MovePasses ==
    ASSUME OInv, NEW r \in Requests, NEW l, l # "idle", pc' = [pc EXCEPT ![r] = l],
           l \in Operating => pc[r] \in Operating, l \in Early => pc[r] \in Early,
           \A q \in Requests : pc[q] # "idle" => body'[q] = body[q],
           UNCHANGED <<used, excused, rows, today>>
    PROVE  Passes
  <1>1. pc \in [Requests -> Labels]
    BY OInvFacts
  <1> QED
    BY <1>1 DEF Passes

\* Every step passes, or is one of the three that the limit is about.
LEMMA LimitSteps ==
    ASSUME OInv, [Next]_vars
    PROVE  \/ Passes
           \/ \E r \in Requests : sumWithdrawalsForDay(r) \/ begin(r) \/ createRow(r)
  <1>0. pc \in [Requests -> Labels] /\ body \in [Requests -> Bodies \cup {None}]
    BY OInvFacts DEF OInv, IInv, NonceTypeOK
  <1>1. ASSUME UNCHANGED <<body, pc, used, excused, rows>>, today' \subseteq today PROVE Passes
    BY <1>1 DEF Passes
  <1>2. CASE UNCHANGED vars
    BY <1>2, <1>1 DEF vars, requestVars, opVars
  <1>3. CASE (issueStep \/ nonceClock) /\ UNCHANGED opVars
    <2>1. UNCHANGED <<body, pc>>
      BY <1>3 DEF issueStep, nonceClock, issue, save, expire, evict, requestVars
    <2> QED
      BY <1>1, <1>3, <2>1 DEF opVars
  <1>4. ASSUME NEW r \in Requests, NEW b \in Bodies, send(r, b), UNCHANGED opVars
        PROVE  Passes
    <2>1. PICK l \in {"validate", "admitted"} :
             pc[r] = "idle" /\ pc' = [pc EXCEPT ![r] = l] /\ body' = [body EXCEPT ![r] = b]
      BY <1>4 DEF send, goto
    <2>2. \A q \in Requests : pc[q] # "idle" => body'[q] = body[q]
      BY <1>0, <2>1
    <2>3. UNCHANGED <<used, excused, rows, today>>
      BY <1>4 DEF opVars
    <2> QED
      BY <2>1, <2>2, <2>3, MovePasses DEF Operating, Early
  <1>5. ASSUME NEW r \in Requests, handlerStep(r),
               ~sumWithdrawalsForDay(r), ~begin(r), ~createRow(r)
        PROVE  Passes
    <2>1. UNCHANGED <<body, used, excused, rows, today>>
      BY <1>5 DEF handlerStep, nonceStep, validateForUse, consume, markUsed, markUsedWrite,
         mark, blocked, conflict, replay, submitRejected, submitReplyLost, submitSorobanTx,
         updateVaultStateAndSnapshot, databaseFails, finish, throws, opVars
    <2>2. PICK l \in {"consume", "mark", "marking", "admitted", "done", "create", "finish"} :
             /\ pc' = [pc EXCEPT ![r] = l]
             /\ l \in {"consume", "mark", "marking", "admitted"} => pc[r] \in Early
             /\ l = "create" => pc[r] = "submit"
             /\ l = "finish" => pc[r] = "mirror"
      <3>1. CASE nonceStep(r)
        BY <3>1 DEF nonceStep, validateForUse, consume, markUsed, markUsedWrite, mark,
           respond, goto, Early
      <3>2. CASE blocked(r) \/ conflict(r) \/ replay(r) \/ submitRejected(r)
                 \/ submitReplyLost(r) \/ databaseFails(r) \/ finish(r)
        BY <3>2 DEF blocked, conflict, replay, submitRejected, submitReplyLost,
           databaseFails, finish, throws, respond, goto
      <3>3. CASE submitSorobanTx(r) \/ updateVaultStateAndSnapshot(r)
        BY <3>3 DEF submitSorobanTx, updateVaultStateAndSnapshot, goto
      <3> QED
        BY <1>5, <3>1, <3>2, <3>3 DEF handlerStep
    <2>3. /\ l # "idle" /\ (l \in Operating => pc[r] \in Operating)
          /\ (l \in Early => pc[r] \in Early)
      BY <2>2 DEF Operating, Early
    <2> QED
      BY <2>1, <2>2, <2>3, MovePasses
  <1>6. CASE clear \/ newDay \/ (\E k \in Keys : deleteKey(k))
             \/ \E w \in Wallets : setWithdrawalLimitOverride(w) \/ overrideExpires(w)
    <2>1. UNCHANGED <<body, pc, used, excused, rows>> /\ today' \subseteq today
      BY <1>6 DEF clear, newDay, deleteKey, forget, setWithdrawalLimitOverride,
         overrideExpires, requestVars
    <2> QED
      BY <1>1, <2>1
  <1>7. CASE restart
    <2>1. /\ UNCHANGED <<body, used, excused, rows, today>>
          /\ pc' = [r \in Requests |-> IF pc[r] = "idle" THEN "idle" ELSE "done"]
      BY <1>7 DEF restart
    <2> QED
      BY <1>0, <2>1 DEF Passes, Operating, Early
  <1> QED
    BY <1>2, <1>3, <1>4, <1>5, <1>6, <1>7 DEF Next

\* What LimitInv says of the requests on record.
LEMMA RowFacts ==
    ASSUME LimitInv
    PROVE  /\ rows \subseteq Requests /\ today \subseteq rows /\ IsFiniteSet(rows)
           /\ pc \in [Requests -> Labels] /\ used \in [Requests -> SUBSET Requests]
           /\ \A q \in rows : pc[q] # "idle" /\ body[q].amount \in Nat
           /\ \A r \in Requests : used[r] \subseteq rows
  <1>1. /\ rows \subseteq Requests /\ today \subseteq rows /\ pc \in [Requests -> Labels]
        /\ \A q \in rows : q \in Requests /\ pc[q] # "idle"
    BY OInvFacts DEF LimitInv
  <1>2. \A q \in rows : body[q] \in Bodies
    BY <1>1, BodyFields DEF LimitInv, OInv
  <1> QED
    BY <1>1, <1>2, OperationAssumption DEF LimitInv, SummedAreRows

\* The total of recorded withdrawals is that of their bodies, which stay.
LEMMA TotalStays ==
    ASSUME LimitInv, NEW S, S \subseteq rows,
           \A q \in rows : body'[q] = body[q]
    PROVE  total(S)' = total(S)
  <1>1. [q \in S |-> body'[q].amount] = [q \in S |-> body[q].amount]
    OBVIOUS
  <1> QED
    BY <1>1 DEF total

\* Whatever passes leaves LimitInv as it is.
LEMMA PassStep ==
    ASSUME LimitInv, OInv', Passes
    PROVE  LimitInv'
  <1> USE RowFacts
  <1>0. /\ UNCHANGED <<used, excused, rows>> /\ today' \subseteq today
        /\ \A q \in Requests : pc[q] # "idle" => body'[q] = body[q] /\ pc'[q] # "idle"
        /\ \A q \in rows : body'[q] = body[q]
    BY DEF Passes
  <1>1. IsFiniteSet(rows)'
    BY <1>0
  <1>2. RowsAreLate'
    BY <1>0 DEF Passes, LimitInv, RowsAreLate
  <1>3. SummedAreRows'
    <2> SUFFICES ASSUME NEW r \in Requests
                 PROVE  /\ used[r] \subseteq rows
                        /\ used[r] # {} => pc'[r] # "idle"
                        /\ r \notin used[r]
                        /\ \A q \in used[r] : /\ body'[q].action = "withdrawal"
                                              /\ body'[q].wallet = body'[r].wallet
      BY <1>0 DEF SummedAreRows
    <2>1. /\ used[r] \subseteq rows /\ (used[r] # {} => pc[r] # "idle") /\ r \notin used[r]
          /\ \A q \in used[r] : body[q].action = "withdrawal" /\ body[q].wallet = body[r].wallet
      BY DEF LimitInv, SummedAreRows
    <2> QED
      BY <1>0, <2>1
  <1>4. SummedInTurn'
    BY <1>0 DEF LimitInv, SummedInTurn
  <1>5. EvaluatedOrExcused'
    <2> SUFFICES ASSUME NEW r \in Requests, r \in rows \/ pc'[r] \in Operating,
                        body'[r].action = "withdrawal", r \notin excused
                 PROVE  withinLimit(r)'
      BY <1>0 DEF EvaluatedOrExcused
    <2>1. r \in rows \/ pc[r] \in Operating
      BY DEF Passes
    <2>2. body'[r] = body[r]
      BY <1>0, <2>1 DEF Operating
    <2>3. withinLimit(r)
      BY <2>1, <2>2 DEF LimitInv, EvaluatedOrExcused
    <2>4. total(used[r])' = total(used[r])
      BY <1>0, TotalStays
    <2> QED
      BY <1>0, <2>2, <2>3, <2>4 DEF withinLimit, total
  <1> QED
    BY <1>1, <1>2, <1>3, <1>4, <1>5 DEF LimitInv

\* The middleware sums the rows of the day.
LEMMA SumStepHolds ==
    ASSUME LimitInv, OInv', NEW r \in Requests, sumWithdrawalsForDay(r)
    PROVE  LimitInv'
  <1> USE RowFacts
  <1> DEFINE U == withdrawalsOf(today, body[r].wallet)
  <1>0. /\ pc[r] = "admitted" /\ pc' = [pc EXCEPT ![r] = "limit"]
        /\ used' = [used EXCEPT ![r] = U]
        /\ UNCHANGED <<body, excused, rows, today>>
    BY DEF sumWithdrawalsForDay, goto
  <1>1. r \notin rows
    BY <1>0 DEF LimitInv, RowsAreLate, Early
  <1>2. U \subseteq today /\ \A q \in U : body[q].action = "withdrawal" /\ body[q].wallet = body[r].wallet
    BY DEF withdrawalsOf
  <1>3. \A q \in today : body[q].action = "withdrawal" /\ body[q].wallet = body[r].wallet => q \in U
    BY DEF withdrawalsOf
  <1> HIDE DEF U
  <1>4. used'[r] = U /\ \A q \in Requests \ {r} : used'[q] = used[q]
    BY <1>0
  <1>5. IsFiniteSet(rows)' /\ RowsAreLate'
    BY <1>0, <1>1 DEF LimitInv, RowsAreLate
  <1>6. SummedAreRows'
    <2>1. used' \in [Requests -> SUBSET Requests]
      BY <1>0, <1>2
    <2> SUFFICES ASSUME NEW q \in Requests
                 PROVE  /\ used'[q] \subseteq rows
                        /\ used'[q] # {} => pc'[q] # "idle"
                        /\ q \notin used'[q]
                        /\ \A p \in used'[q] : /\ body[p].action = "withdrawal"
                                               /\ body[p].wallet = body[q].wallet
      BY <1>0, <2>1 DEF SummedAreRows
    <2>2. CASE q = r
      BY <1>0, <1>1, <1>2, <1>4, <2>2
    <2>3. CASE q # r
      BY <1>0, <1>4, <2>3 DEF LimitInv, SummedAreRows
    <2> QED
      BY <2>2, <2>3
  <1>7. SummedInTurn'
    <2> SUFFICES ASSUME NEW s \in Requests, NEW q \in used'[s], NEW p \in used'[q], p \in today
                 PROVE  p \in used'[s]
      BY <1>0 DEF SummedInTurn
    <2>1. q \in rows /\ q \in Requests /\ q # r
      BY <1>1, <1>2, <1>4
    <2>2. p \in used[q]
      BY <1>4, <2>1
    <2>3. body[p].action = "withdrawal" /\ body[p].wallet = body[q].wallet
      BY <2>1, <2>2 DEF LimitInv, SummedAreRows
    <2>4. CASE s = r
      BY <1>2, <1>3, <1>4, <2>3, <2>4
    <2>5. CASE s # r
      BY <1>4, <2>1, <2>2, <2>5 DEF LimitInv, SummedInTurn
    <2> QED
      BY <2>4, <2>5
  <1>8. EvaluatedOrExcused'
    <2> SUFFICES ASSUME NEW q \in Requests, q \in rows \/ pc'[q] \in Operating,
                        body[q].action = "withdrawal", q \notin excused
                 PROVE  withinLimit(q)'
      BY <1>0 DEF EvaluatedOrExcused
    <2>1. q # r /\ (q \in rows \/ pc[q] \in Operating)
      BY <1>0, <1>1 DEF Operating
    <2>2. withinLimit(q)
      BY <2>1 DEF LimitInv, EvaluatedOrExcused
    <2>3. used'[q] = used[q]
      BY <1>4, <2>1
    <2> QED
      BY <1>0, <2>2, <2>3 DEF withinLimit, total
  <1> QED
    BY <1>5, <1>6, <1>7, <1>8 DEF LimitInv

\* A request enters the operation within the limit, or is excused.
LEMMA BeginHolds ==
    ASSUME LimitInv, OInv', NEW r \in Requests, begin(r)
    PROVE  LimitInv'
  <1> USE RowFacts
  <1>0. /\ pc[r] \in {"admitted", "limit"} /\ pc' = [pc EXCEPT ![r] = "submit"]
        /\ UNCHANGED <<body, used, rows, today>>
        /\ excused' = IF body[r].action = "withdrawal" /\ ~withinLimit(r)
                      THEN excused \cup {r} ELSE excused
    BY DEF begin, entered, goto
  <1>1. IsFiniteSet(rows)' /\ RowsAreLate'
    BY <1>0 DEF LimitInv, RowsAreLate, Early
  <1>2. SummedAreRows' /\ SummedInTurn'
    BY <1>0 DEF LimitInv, SummedAreRows, SummedInTurn
  <1>3. EvaluatedOrExcused'
    <2> SUFFICES ASSUME NEW q \in Requests, q \in rows \/ pc'[q] \in Operating,
                        body[q].action = "withdrawal", q \notin excused'
                 PROVE  withinLimit(q)
      BY <1>0 DEF EvaluatedOrExcused, withinLimit, total
    <2>1. CASE q = r
      BY <1>0, <2>1
    <2>2. CASE q # r
      BY <1>0, <2>2 DEF LimitInv, EvaluatedOrExcused
    <2> QED
      BY <2>1, <2>2
  <1> QED
    BY <1>1, <1>2, <1>3 DEF LimitInv

\* The row of a request that nobody has summed is written.
LEMMA CreateHolds ==
    ASSUME LimitInv, OInv', NEW r \in Requests, createRow(r)
    PROVE  LimitInv'
  <1> USE RowFacts
  <1>0. /\ pc[r] = "create" /\ pc' = [pc EXCEPT ![r] = "mirror"]
        /\ rows' = rows \cup {r} /\ today' = today \cup {r}
        /\ UNCHANGED <<body, used, excused>>
    BY DEF createRow, goto
  <1>1. r \notin rows /\ \A q \in Requests : r \notin used[q]
    BY <1>0 DEF LimitInv, RowsAreLate, Early
  <1>2. IsFiniteSet(rows)'
    BY <1>0, FS_AddElement
  <1>3. RowsAreLate'
    BY <1>0 DEF LimitInv, RowsAreLate, Early
  <1>4. SummedAreRows'
    BY <1>0 DEF LimitInv, SummedAreRows
  <1>5. SummedInTurn'
    <2> SUFFICES ASSUME NEW s \in Requests, NEW q \in used[s], NEW p \in used[q], p \in today \cup {r}
                 PROVE  p \in used[s]
      BY <1>0 DEF SummedInTurn
    <2>1. p # r
      BY <1>1
    <2> QED
      BY <2>1 DEF LimitInv, SummedInTurn
  <1>6. EvaluatedOrExcused'
    <2> SUFFICES ASSUME NEW q \in Requests, q \in rows' \/ pc'[q] \in Operating,
                        body[q].action = "withdrawal", q \notin excused
                 PROVE  withinLimit(q)
      BY <1>0 DEF EvaluatedOrExcused, withinLimit, total
    <2>1. q \in rows \/ pc[q] \in Operating
      BY <1>0 DEF Operating
    <2> QED
      BY <2>1 DEF LimitInv, EvaluatedOrExcused
  <1> QED
    BY <1>2, <1>3, <1>4, <1>5, <1>6 DEF LimitInv

\* Withdrawals of a day of which every two have one that summed the other have a
\* last one, which summed all the others.
LEMMA LastSummedAll ==
    ASSUME LimitInv, NEW W, W \subseteq today, W # {},
           \A r, q \in W : r # q => r \in used[q] \/ q \in used[r]
    PROVE  \E r \in W : W \ {r} \subseteq used[r]
  <1> USE RowFacts
  <1> DEFINE missed(r) == W \ used[r]
             F == {missed(r) : r \in W}
  <1>1. IsFiniteSet(W) /\ W \subseteq Requests
    BY FS_Subset
  <1>2. F \subseteq SUBSET W /\ F # {}
    OBVIOUS
  <1> HIDE DEF F
  <1>3. PICK T \in F : \A V \in F : V \subseteq T => V = T
    BY <1>1, <1>2, SmallestSubset
  <1>4. PICK r \in W : T = missed(r)
    BY <1>3 DEF F
  <1>5. ASSUME NEW q \in W, q # r, q \notin used[r] PROVE FALSE
    <2>1. r \in used[q]
      BY <1>5
    <2>2. \A p \in W : p \in used[r] => p \in used[q]
      BY <1>1, <2>1 DEF LimitInv, SummedInTurn
    <2>3. missed(q) \in F /\ missed(q) \subseteq T
      BY <1>4, <2>2 DEF F
    <2>4. r \in missed(r) /\ r \notin missed(q)
      BY <1>1, <2>1 DEF LimitInv, SummedAreRows
    <2> QED
      BY <1>3, <1>4, <2>3, <2>4
  <1> QED
    BY <1>5

\* A day over the limit without an excused withdrawal has two that overlapped:
\* else the last one, which summed all the others, was over the limit.
LEMMA OvershootHolds ==
    ASSUME LimitInv
    PROVE  OvershootIsOverlap
  <1> USE RowFacts
  <1> SUFFICES ASSUME NEW w \in Wallets, NEW W, W = withdrawalsOf(today, w),
                      total(W) > DailyLimit, W \cap excused = {},
                      \A r, q \in W : r # q => r \in used[q] \/ q \in used[r]
               PROVE  FALSE
    BY DEF OvershootIsOverlap
  <1>1. /\ W \subseteq today /\ W \subseteq rows /\ IsFiniteSet(W)
        /\ \A q \in W : body[q].action = "withdrawal" /\ body[q].amount \in Nat
    BY FS_Subset DEF withdrawalsOf
  <1>2. DailyLimit \in Nat
    BY OperationAssumption
  <1>3. W # {}
    <2>1. SUFFICES ASSUME W = {} PROVE total(W) = 0
      BY <1>2
    <2> QED
      BY <2>1, SumEmpty DEF total
  <1>4. PICK r \in W : W \ {r} \subseteq used[r]
    BY <1>1, <1>3, LastSummedAll
  <1>5. r \in Requests /\ used[r] \subseteq rows /\ IsFiniteSet(used[r]) /\ r \notin used[r]
    BY <1>1, FS_Subset DEF LimitInv, SummedAreRows
  <1>6. total(used[r]) + body[r].amount <= DailyLimit
    BY <1>1, <1>5 DEF LimitInv, EvaluatedOrExcused, withinLimit
  <1> DEFINE f == [q \in rows |-> body[q].amount]
             U == used[r]
             R == W \ {r}
  <1>7. \A q \in rows : f[q] = body[q].amount /\ f[q] \in Nat /\ f[q] \in Int
    OBVIOUS
  <1>8. ASSUME NEW S, S \subseteq rows, IsFiniteSet(S) PROVE total(S) = SumFunctionOnSet(f, S)
    <2> DEFINE g == [q \in S |-> body[q].amount]
    <2>1. \A q \in S : g[q] \in Int /\ g[q] = f[q]
      BY <1>8, <1>7
    <2> HIDE DEF f
    <2>2. total(S) = SumFunctionOnSet(g, S)
      BY DEF total
    <2> HIDE DEF g
    <2> QED
      BY <1>8, <2>1, <2>2, SumSame
  <1>9. /\ total(W) = SumFunctionOnSet(f, W) /\ total(U) = SumFunctionOnSet(f, U)
    BY <1>1, <1>5, <1>8
  <1> HIDE DEF f
  <1>10. SumFunctionOnSet(f, W) = f[r] + SumFunctionOnSet(f, R)
    BY <1>1, <1>7, SumRemove
  <1>11. \A q \in U : f[q] \in Nat
    BY <1>5, <1>7
  <1>12. R \in SUBSET U
    BY <1>4
  <1> HIDE DEF U, R
  <1>13. SumFunctionOnSet(f, R) \in Nat /\ SumFunctionOnSet(f, R) <= SumFunctionOnSet(f, U)
    BY <1>5, <1>11, <1>12, SumSubset DEF U
  <1>14. SumFunctionOnSet(f, U) \in Int
    BY <1>5, <1>11, SumInt DEF U
  <1>15. f[r] = body[r].amount /\ f[r] \in Int
    BY <1>1, <1>7
  <1>16. \A a, b, c, d \in Int : a <= b /\ b + c <= d => ~(c + a > d)
    OBVIOUS
  <1> QED
    BY <1>2, <1>6, <1>9, <1>10, <1>13, <1>14, <1>15, <1>16 DEF U

\* The daily limit is passed only by withdrawals that overlap or that an override
\* let through, for any number of wallets, requests and amounts, through every
\* failure, midnight and restart.
THEOREM LimitPassedOnlyByOverlap == Spec => []OvershootIsOverlap
  <1>1. Init => LimitInv
    <2> SUFFICES ASSUME Init PROVE LimitInv
      OBVIOUS
    <2>1. OInv
      BY OInvInit
    <2>2. IsFiniteSet(rows) /\ rows = {}
      BY FS_EmptySet DEF Init
    <2>3. /\ used \in [Requests -> SUBSET Requests]
          /\ \A r \in Requests : used[r] = {} /\ pc[r] = "idle"
      BY DEF Init, NonceInit
    <2> QED
      BY <2>1, <2>2, <2>3
         DEF LimitInv, RowsAreLate, SummedAreRows, SummedInTurn, EvaluatedOrExcused, Operating
  <1>2. LimitInv /\ [Next]_vars => LimitInv'
    <2> SUFFICES ASSUME LimitInv, [Next]_vars PROVE LimitInv'
      OBVIOUS
    <2>1. OInv /\ OInv'
      BY OInvStep DEF LimitInv
    <2> QED
      BY <2>1, LimitSteps, PassStep, SumStepHolds, BeginHolds, CreateHolds
  <1>3. LimitInv => OvershootIsOverlap
    BY OvershootHolds
  <1> QED
    BY <1>1, <1>2, <1>3, PTL DEF Spec
=============================================================================
