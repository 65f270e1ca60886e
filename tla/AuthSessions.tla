---------------------------- MODULE AuthSessions ----------------------------
(***************************************************************************)
(* Refresh-token sessions (backend/src/auth.ts) over the Redis store that  *)
(* several requests, and several processes, share.  A login starts a       *)
(* family of tokens; each refresh uses one token up and adds the next.     *)
(* Every call of the store is awaited, so a refresh is a step per call.    *)
(*                                                                         *)
(* All entries live for the same JWT_REFRESH_TTL_SECONDS, so they expire   *)
(* in the order they were written: that order is kept, not the time.       *)
(***************************************************************************)
EXTENDS Naturals, Sequences, FiniteSets, SequencesExt

CONSTANTS Families, RefreshCalls,
          MaxTokens   \* bound: refresh tokens ever issued

ASSUME AuthAssumption == IsFiniteSet(RefreshCalls) /\ MaxTokens \in Nat

VARIABLES
    tokens,      \* every token issued: n -> [fam, used]
    store,       \* keys of the store in order of expiry: tokens and families
    access,      \* families with an access token that has not expired
    calls,       \* refreshes under way: r -> [at, token, used]
    overlapped,  \* history: refreshes that met another of the same token
    everRevoked, \* history: families revoked at some time
    late         \* history: tokens issued after their family was revoked

authVars == <<tokens, store, access, calls, overlapped, everRevoked, late>>

TokenKey(t) == <<"refresh", t>>
FamilyKey(f) == <<"revoked", f>>
Stored(k) == k \in ToSet(store)
Del(s, k) == RemoveFirst(s, k)      \* a key is stored once
SetEx(k) == Append(Del(store, k), k)

IdleCall == [at |-> "idle", token |-> 0, used |-> FALSE]

AuthTypeOK ==
    /\ \A t \in DOMAIN tokens : tokens[t] \in [fam: Families, used: BOOLEAN]
    /\ ToSet(store) \subseteq {TokenKey(t) : t \in DOMAIN tokens}
                                \cup {FamilyKey(f) : f \in Families}
    /\ access \subseteq Families
    /\ calls \in [RefreshCalls ->
           [at: {"idle", "check", "mark", "issue", "revoke"},
            token: 0..MaxTokens, used: BOOLEAN]]

AuthInit ==
    /\ tokens = << >> /\ store = << >> /\ access = {}
    /\ calls = [r \in RefreshCalls |-> IdleCall]
    /\ overlapped = [f \in Families |-> 0]
    /\ everRevoked = {} /\ late = {}

Fam(t) == tokens[t].fam
Revoked(f) == Stored(FamilyKey(f))

-----------------------------------------------------------------------------
\* A new pair for the family: an access token and an unused refresh token.
issueTokenPair(f) ==
    /\ Len(tokens) < MaxTokens
    /\ tokens' = Append(tokens, [fam |-> f, used |-> FALSE])
    /\ store' = SetEx(TokenKey(Len(tokens) + 1))
    /\ access' = access \cup {f}

\* A wallet that proved itself with a signed nonce gets a family of its own.
loginHandler(f) ==
    /\ \A t \in DOMAIN tokens : Fam(t) # f
    /\ issueTokenPair(f)
    /\ UNCHANGED <<calls, overlapped, everRevoked, late>>

\* rotateRefreshToken up to its first answer: an unknown or expired token is
\* refused (no change), another is carried on with as it was read.
rotateRead(r, t) ==
    /\ calls[r].at = "idle" /\ t \in DOMAIN tokens /\ Stored(TokenKey(t))
    /\ calls' = [calls EXCEPT ![r] = [at |-> "check", token |-> t, used |-> tokens[t].used]]
    /\ overlapped' = [overlapped EXCEPT ![Fam(t)] = @ +
           IF \E s \in RefreshCalls : calls[s].token = t /\ calls[s].at # "issue"
             THEN 1 ELSE 0]
    /\ UNCHANGED <<tokens, store, access, everRevoked, late>>

afterCheck(used) == IF used THEN "revoke" ELSE "mark"

\* A token of a revoked family is deleted and refused; a used token is a
\* replay, which will revoke the family; another is marked used.
rotateCheck(r) ==
    /\ calls[r].at = "check"
    /\ LET t == calls[r].token
       IN IF Revoked(Fam(t))
            THEN /\ store' = Del(store, TokenKey(t))
                 /\ calls' = [calls EXCEPT ![r] = IdleCall]
            ELSE /\ calls' = [calls EXCEPT ![r].at = afterCheck(calls[r].used)]
                 /\ UNCHANGED store
    /\ UNCHANGED <<tokens, access, overlapped, everRevoked, late>>

markUsed(t) == [tokens EXCEPT ![t].used = TRUE]

\* The entry is written back with the time it has left: one that was deleted
\* meanwhile returns, as the first to expire.
rotateMark(r) ==
    /\ calls[r].at = "mark"
    /\ LET t == calls[r].token
       IN /\ tokens' = markUsed(t)
          /\ store' = IF Stored(TokenKey(t)) THEN store ELSE <<TokenKey(t)>> \o store
    /\ calls' = [calls EXCEPT ![r].at = "issue"]
    /\ UNCHANGED <<access, overlapped, everRevoked, late>>

rotateIssue(r) ==
    /\ calls[r].at = "issue"
    /\ issueTokenPair(Fam(calls[r].token))
    /\ late' = IF Fam(calls[r].token) \in everRevoked
                 THEN late \cup {Len(tokens) + 1} ELSE late
    /\ calls' = [calls EXCEPT ![r] = IdleCall]
    /\ UNCHANGED <<overlapped, everRevoked>>

\* Mutant: the mark of a revoked family goes first.
revokeFamily_brief(f) == <<FamilyKey(f)>> \o Del(store, FamilyKey(f))

\* The family's mark lives as long as a token written now.
revokeFamily(f) == SetEx(FamilyKey(f))

rotateRevoke(r) ==
    /\ calls[r].at = "revoke"
    /\ store' = revokeFamily(Fam(calls[r].token))
    /\ everRevoked' = everRevoked \cup {Fam(calls[r].token)}
    /\ calls' = [calls EXCEPT ![r] = IdleCall]
    /\ UNCHANGED <<tokens, access, overlapped, late>>

\* requireAuth: the access token is checked by its signature and its expiry
\* alone, never against the store.
requireAuth(f) == f \in access

\* The logout routes answer that the session is revoked, and call no store.
logout(f) ==
    requireAuth(f) /\ UNCHANGED authVars

\* The oldest key of the store, and an access token, run out.
storeExpires ==
    /\ store # << >>
    /\ store' = Tail(store)
    /\ UNCHANGED <<tokens, access, calls, overlapped, everRevoked, late>>

accessExpires(f) ==
    /\ f \in access
    /\ access' = access \ {f}
    /\ UNCHANGED <<tokens, store, calls, overlapped, everRevoked, late>>

rotateStep(r) ==
    rotateCheck(r) \/ rotateMark(r) \/ rotateIssue(r) \/ rotateRevoke(r)

AuthNext ==
    \/ \E f \in Families : loginHandler(f) \/ logout(f) \/ accessExpires(f)
    \/ \E r \in RefreshCalls :
         (\E t \in 1..MaxTokens : rotateRead(r, t)) \/ rotateStep(r)
    \/ storeExpires

-----------------------------------------------------------------------------
(* Properties. *)

\* A token a refresh would take.
Usable(t) == Stored(TokenKey(t)) /\ ~tokens[t].used /\ ~Revoked(Fam(t))

\* rotateRefreshToken reads a token and marks it used in two calls of the
\* store.  A session has one usable token at a time, counting the one a
\* refresh is about to issue, but for those that two overlapping refreshes of
\* one token got in excess.
OneUsablePerSession ==
    \A f \in Families :
        Cardinality({t \in DOMAIN tokens : Fam(t) = f /\ Usable(t)})
          + Cardinality({r \in RefreshCalls : /\ calls[r].at = "issue"
                                              /\ Fam(calls[r].token) = f})
            <= 1 + overlapped[f]

\* revokeFamily: the mark of a revoked family outlives every token the family
\* had, so only a token issued by a refresh that was already past its check
\* when the family was revoked is ever usable again.
RevokedForGood ==
    \A t \in DOMAIN tokens : Usable(t) /\ Fam(t) \in everRevoked => t \in late

\* rotateRefreshToken: once a refresh has read a token that was used before,
\* the session is revoked in the end, whoever else refreshes meanwhile.
ReplayRevokes ==
    \A f \in Families :
        (\E r \in RefreshCalls : /\ calls[r].at = "check" /\ calls[r].used
                                 /\ Fam(calls[r].token) = f)
            ~> (f \in everRevoked)

\* A session has one usable token at a time, and none once it was revoked.
SessionsHold == OneUsablePerSession /\ RevokedForGood
=============================================================================
