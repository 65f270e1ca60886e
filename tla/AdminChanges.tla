---------------------------- MODULE AdminChanges -----------------------------
(***************************************************************************)
(* What administrators change at run time (backend/src/index.ts):          *)
(* maintenance mode, the allowlist and withdrawal overrides, all in the    *)
(* memory of the process, and the APY history and the replayed events in   *)
(* the database; with the signed receipt (adminReceipt.ts) and the audit   *)
(* entry (adminAudit.ts) each change is to leave in the database.          *)
(*                                                                         *)
(* A handler changes the state first and then awaits the receipt.  Only    *)
(* the backfill and the replay await it inside a try: in the others a      *)
(* refused receipt is a rejection nobody handles, which ends the process.  *)
(* The next one starts from the environment's settings.                    *)
(*                                                                         *)
(* Administrators' API keys: the set in the memory of the process          *)
(* (backend/src/middleware/apiKeyAuth.ts), its audit trail in the database *)
(* (apiKeyAudit.ts) and the three routes that change both (index.ts).      *)
(* A route changes the set, awaits the audit event, and undoes its change  *)
(* when the event is refused; other routes run during the await.           *)
(*                                                                         *)
(* getApiKeyMetadata and restoreApiKey, which the routes call, are not in  *)
(* apiKeyAuth.ts: they are taken to read and to put back one key.  Nothing *)
(* in the server registers a first key; SeedKeys stands for a deployment's *)
(* own bootstrap, as in the tests' setup.                                  *)
(***************************************************************************)
EXTENDS Naturals, Sequences, SequencesExt, FiniteSets

CONSTANTS AdWallets, AdCalls,
          MaxChanges,   \* bound: changes ever made
          MaxAdFaults   \* bound: refused writes

ASSUME ChangesAssumption == MaxChanges \in Nat /\ MaxAdFaults \in Nat

\* What there is to change, on or off: settings, and rows of the database.
DbItems == {<<"backfill">>, <<"replay">>}
AdItems == {<<"maintenance">>} \cup ({"allow", "override"} \X AdWallets) \cup DbItems

VARIABLES
    auditMode,   \* ADMIN_AUDIT_LOG_STORAGE
    inForce,     \* item -> [on, by]: its value and the change that set it, or 0
    adChanges,   \* history: changes in order: [item, on]
    receipts,    \* changes with a receipt, oldest first
    auditDb, auditMem,   \* changes with an audit entry, by where it is
    adCalls,     \* handlers and audit writes under way: call -> [at, change]
    adOverlap,   \* history: items two handlers worked on at a time
    lostAt,      \* history: the changes made when the process last ended
    adFaults

adVars == <<auditMode, inForce, adChanges, receipts, auditDb, auditMem, adCalls,
            adOverlap, lostAt, adFaults>>

AdTypeOK ==
    /\ auditMode \in {"memory", "prisma", "hybrid"}
    /\ inForce \in [AdItems -> [on: BOOLEAN, by: 0..MaxChanges]]
    /\ \A n \in DOMAIN adChanges : adChanges[n] \in [item: AdItems, on: BOOLEAN]
    /\ ToSet(receipts) \cup auditDb \cup auditMem \subseteq DOMAIN adChanges
    /\ DOMAIN adCalls \subseteq AdCalls
    /\ \A c \in DOMAIN adCalls :
         adCalls[c] \in [at: {"receipt", "audit"}, change: 1..MaxChanges]
    /\ lostAt \in 0..MaxChanges /\ adFaults \in 0..MaxAdFaults

\* The environment's settings: nothing is on.
seedFromEnv == [on |-> FALSE, by |-> 0]

AdInit ==
    /\ auditMode \in {"memory", "prisma", "hybrid"}
    /\ inForce = [i \in AdItems |-> seedFromEnv]
    /\ adChanges = << >> /\ receipts = << >> /\ auditDb = {} /\ auditMem = {}
    /\ adCalls = << >> /\ adOverlap = {} /\ lostAt = 0 /\ adFaults = 0

-----------------------------------------------------------------------------
Working(item) == \E c \in DOMAIN adCalls : adChanges[adCalls[c].change].item = item

\* A handler makes change n of item and goes on to its receipt, or, for an
\* override, straight to its audit entry.
Change(c, item, on, at) ==
    LET n == Len(adChanges) + 1
    IN /\ c \notin DOMAIN adCalls /\ n <= MaxChanges
       /\ adChanges' = Append(adChanges, [item |-> item, on |-> on])
       /\ adCalls' = [d \in DOMAIN adCalls \cup {c} |->
                         IF d = c THEN [at |-> at, change |-> n] ELSE adCalls[d]]
       /\ adOverlap' = IF Working(item) THEN adOverlap \cup {item} ELSE adOverlap
       /\ UNCHANGED <<auditMode, receipts, auditDb, auditMem, lostAt, adFaults>>

SetItem(item, on) ==
    inForce' = [inForce EXCEPT ![item] = [on |-> on, by |-> Len(adChanges) + 1]]

updateMaintenanceModeState(on) == SetItem(<<"maintenance">>, on)

postMaintenance(c, on) ==
    updateMaintenanceModeState(on) /\ Change(c, <<"maintenance">>, on, "receipt")

\* An address that is there already is left alone, and gets a receipt.
addAddress(w) ==
    IF inForce[<<"allow", w>>].on THEN UNCHANGED inForce ELSE SetItem(<<"allow", w>>, TRUE)

postAllowlistAdd(c, w) == addAddress(w) /\ Change(c, <<"allow", w>>, TRUE, "receipt")

\* An address that is not there is answered 404.
removeAddress(w) == inForce[<<"allow", w>>].on /\ SetItem(<<"allow", w>>, FALSE)

deleteAllowlistRemove(c, w) == removeAddress(w) /\ Change(c, <<"allow", w>>, FALSE, "receipt")

setWithdrawalLimitOverride(w) == SetItem(<<"override", w>>, TRUE)

postWithdrawalOverride(c, w) ==
    setWithdrawalLimitOverride(w) /\ Change(c, <<"override", w>>, TRUE, "audit")

\* getActiveOverride drops an override past its expiry.
getActiveOverride(w) ==
    /\ inForce[<<"override", w>>].on
    /\ inForce' = [inForce EXCEPT ![<<"override", w>>] = seedFromEnv]
    /\ UNCHANGED <<auditMode, adChanges, receipts, auditDb, auditMem, adCalls,
                   adOverlap, lostAt, adFaults>>

\* The snapshots are written before the receipt is asked for.
postApyBackfill(c) == SetItem(<<"backfill">>, TRUE) /\ Change(c, <<"backfill">>, TRUE, "receipt")

\* The events of a range of ledgers are replayed before the receipt is asked
\* for.  A range that is none is answered 400; a dry run replays nothing.
postEventsReplay(c) == SetItem(<<"replay">>, TRUE) /\ Change(c, <<"replay">>, TRUE, "receipt")

-----------------------------------------------------------------------------
Forget(c) == [d \in DOMAIN adCalls \ {c} |-> adCalls[d]]
Refused == adFaults < MaxAdFaults /\ adFaults' = adFaults + 1

\* Memory is lost; snapshots and events are in the database.
afterCrash(item) == IF item \in DbItems THEN inForce[item] ELSE seedFromEnv

\* A rejection nobody handles: the process ends and starts again, and the
\* other handlers end with it.
Crash ==
    /\ Refused
    /\ inForce' = [i \in AdItems |-> afterCrash(i)]
    /\ auditMem' = {} /\ adCalls' = << >> /\ lostAt' = Len(adChanges)
    /\ UNCHANGED <<auditMode, adChanges, receipts, auditDb, adOverlap>>

\* The receipt is in the database, the answer goes out, and the audit entry
\* is written on its own (void).
generateAdminReceipt(c) ==
    /\ c \in DOMAIN adCalls /\ adCalls[c].at = "receipt"
    /\ receipts' = Append(receipts, adCalls[c].change)
    /\ adCalls' = [adCalls EXCEPT ![c].at = "audit"]
    /\ UNCHANGED <<auditMode, inForce, adChanges, auditDb, auditMem, adOverlap, lostAt, adFaults>>

\* The backfill answers 500 and keeps its snapshots; so does the replay, which
\* goes on to an audit entry about its failure.
receiptRefused(c) ==
    /\ c \in DOMAIN adCalls /\ adCalls[c].at = "receipt"
    /\ IF adChanges[adCalls[c].change].item \in DbItems
         THEN /\ Refused
              /\ adCalls' = IF adChanges[adCalls[c].change].item = <<"replay">>
                            THEN [adCalls EXCEPT ![c].at = "audit"] ELSE Forget(c)
              /\ UNCHANGED <<auditMode, inForce, adChanges, receipts, auditDb, auditMem,
                             adOverlap, lostAt>>
         ELSE Crash

recordAdminAuditLog(c) ==
    /\ c \in DOMAIN adCalls /\ adCalls[c].at = "audit"
    /\ IF auditMode = "memory"
         THEN auditMem' = auditMem \cup {adCalls[c].change} /\ UNCHANGED auditDb
         ELSE auditDb' = auditDb \cup {adCalls[c].change} /\ UNCHANGED auditMem
    /\ adCalls' = Forget(c)
    /\ UNCHANGED <<auditMode, inForce, adChanges, receipts, adOverlap, lostAt, adFaults>>

\* Hybrid storage falls back to memory; prisma storage throws, and whether
\* awaited (the override) or not, nobody catches it.
auditRefused(c) ==
    /\ c \in DOMAIN adCalls /\ adCalls[c].at = "audit" /\ auditMode # "memory"
    /\ IF auditMode = "hybrid"
         THEN /\ Refused /\ auditMem' = auditMem \cup {adCalls[c].change}
              /\ adCalls' = Forget(c)
              /\ UNCHANGED <<auditMode, inForce, adChanges, receipts, auditDb, adOverlap, lostAt>>
         ELSE Crash

AdNext ==
    \E c \in AdCalls :
        \/ \E on \in BOOLEAN : postMaintenance(c, on)
        \/ \E w \in AdWallets : \/ postAllowlistAdd(c, w) \/ deleteAllowlistRemove(c, w)
                                \/ postWithdrawalOverride(c, w) \/ getActiveOverride(w)
        \/ postApyBackfill(c) \/ postEventsReplay(c)
        \/ generateAdminReceipt(c) \/ receiptRefused(c)
        \/ recordAdminAuditLog(c) \/ auditRefused(c)

-----------------------------------------------------------------------------
(* Properties. *)

Pending(n) == \E c \in DOMAIN adCalls : adCalls[c].change = n
Documented(n) == n \in ToSet(receipts) \cup auditDb \cup auditMem

\* Whatever an administrator changed in memory and is in force has its
\* receipt, or for an override its audit entry, or a handler still at work
\* on it: handlers change the state before they write, and when the write
\* fails the change goes down with the process.
InForceIsDocumented ==
    \A item \in AdItems \ DbItems :
        inForce[item].by # 0 => Pending(inForce[item].by) \/ Documented(inForce[item].by)

\* Receipt i is the last of item since the process started.
LastReceipt(i, item) ==
    LET of(j) == receipts[j] > lostAt /\ adChanges[receipts[j]].item = item
    IN of(i) /\ \A j \in DOMAIN receipts : j > i => ~of(j)

\* The receipts are written after the changes, so two overlapping changes may
\* get theirs in the other order; otherwise the last receipt since the
\* process started tells what is in force.
LastReceiptInForce ==
    \A item \in {<<"maintenance">>} \cup ({"allow"} \X AdWallets) :
        ~Working(item) /\ item \notin adOverlap =>
            \A i \in DOMAIN receipts :
                LastReceipt(i, item) => inForce[item].on = adChanges[receipts[i]].on

-----------------------------------------------------------------------------
(* The API keys. *)

CONSTANTS ApiKeys_, SeedKeys, KeyCalls,
          MaxKeyEvents,   \* bound: audit events written
          MaxKeyFaults    \* bound: audit events refused

ASSUME KeysAssumption ==
    SeedKeys \subseteq ApiKeys_ /\ MaxKeyEvents \in Nat /\ MaxKeyFaults \in Nat

VARIABLES
    apiKeys,     \* API_KEYS
    keyEvents,   \* the audit trail: [action, key], oldest first
    keyCalls,    \* routes awaiting their event: call -> [op, key, old]
    keyOverlap,  \* history: keys two routes had in hand at a time
    keyFaults

keyVars == <<apiKeys, keyEvents, keyCalls, keyOverlap, keyFaults>>

KeyTypeOK ==
    /\ apiKeys \subseteq ApiKeys_ /\ keyOverlap \subseteq ApiKeys_
    /\ Len(keyEvents) <= MaxKeyEvents
    /\ \A i \in DOMAIN keyEvents :
         keyEvents[i] \in [action: {"created", "rotated", "revoked"}, key: ApiKeys_]
    /\ DOMAIN keyCalls \subseteq KeyCalls /\ keyFaults \in 0..MaxKeyFaults

KeyInit ==
    /\ apiKeys = SeedKeys /\ keyEvents = << >> /\ keyCalls = << >>
    /\ keyOverlap = {} /\ keyFaults = 0

Hands(call) == {call.key, call.old}
InHand == UNION {Hands(keyCalls[c]) : c \in DOMAIN keyCalls}

-----------------------------------------------------------------------------
\* A request comes with some valid key.
validateApiKey == apiKeys # {}

\* The route has made its change and awaits the event.
awaitEvent(c, op, key, old) ==
    LET call == [op |-> op, key |-> key, old |-> old]
    IN /\ c \notin DOMAIN keyCalls
       /\ Len(keyEvents) + Cardinality(DOMAIN keyCalls) < MaxKeyEvents
       /\ validateApiKey
       /\ keyCalls' = [d \in DOMAIN keyCalls \cup {c} |-> IF d = c THEN call ELSE keyCalls[d]]
       /\ keyOverlap' = keyOverlap \cup (Hands(call) \cap InHand)
       /\ UNCHANGED <<keyEvents, keyFaults>>

registerApiKey(key) == apiKeys \cup {key}

revokeApiKey(key) == apiKeys \ {key}

\* The old key goes, the new one comes, even if they are the same.
rotateApiKey(old, key) == (apiKeys \ {old}) \cup {key}

postRegister(c, key) == apiKeys' = registerApiKey(key) /\ awaitEvent(c, "created", key, key)

postRotate(c, old, key) ==
    /\ old \in apiKeys
    /\ apiKeys' = rotateApiKey(old, key) /\ awaitEvent(c, "rotated", key, old)

postRevoke(c, key) ==
    /\ key \in apiKeys
    /\ apiKeys' = revokeApiKey(key) /\ awaitEvent(c, "revoked", key, key)

\* Mutant: a registration is not undone.
undone_kept(call) ==
    IF call.op = "created" THEN apiKeys ELSE (apiKeys \ {call.key}) \cup {call.old}

\* What a route puts back: a registered key is revoked, whether or not it was
\* there before; the new key of a rotation goes and the old one comes back.
undone(call) ==
    CASE call.op = "created" -> apiKeys \ {call.key}
      [] call.op = "rotated" -> (apiKeys \ {call.key}) \cup {call.old}
      [] call.op = "revoked" -> apiKeys \cup {call.key}

recordApiKeyAuditEvent(c) ==
    /\ c \in DOMAIN keyCalls
    /\ keyEvents' = Append(keyEvents, [action |-> keyCalls[c].op, key |-> keyCalls[c].key])
    /\ keyCalls' = [d \in DOMAIN keyCalls \ {c} |-> keyCalls[d]]
    /\ UNCHANGED <<apiKeys, keyOverlap, keyFaults>>

eventRefused(c) ==
    /\ c \in DOMAIN keyCalls /\ keyFaults < MaxKeyFaults
    /\ apiKeys' = undone(keyCalls[c])
    /\ keyFaults' = keyFaults + 1
    /\ keyCalls' = [d \in DOMAIN keyCalls \ {c} |-> keyCalls[d]]
    /\ UNCHANGED <<keyEvents, keyOverlap>>

KeyNext ==
    \E c \in KeyCalls :
        \/ \E key \in ApiKeys_ : \/ postRegister(c, key) \/ postRevoke(c, key)
                                 \/ \E old \in ApiKeys_ : postRotate(c, old, key)
        \/ recordApiKeyAuditEvent(c) \/ eventRefused(c)

-----------------------------------------------------------------------------
(* Properties. *)

LastEvent(i, key) ==
    keyEvents[i].key = key /\ \A j \in DOMAIN keyEvents : j > i => keyEvents[j].key # key

\* The routes: a key that is accepted, and that no route is working on, was
\* seeded or has an event that says it was made.  Each route undoes its own
\* change; it takes two refused events, of overlapping routes on one key, for
\* an undo to bring back a key nobody ever noted.
KeysAreAudited ==
    keyFaults < 2 =>
        \A key \in apiKeys \ (SeedKeys \cup InHand) :
            \E i \in DOMAIN keyEvents :
                keyEvents[i].key = key /\ keyEvents[i].action # "revoked"

\* The trail is written after the change, so its order may differ from the
\* order of the changes; but with no event refused, the last event of an
\* accepted key says it was revoked only if routes on that key overlapped.
TrailTellsRevocation ==
    keyFaults = 0 =>
        \A key \in apiKeys \ (InHand \cup keyOverlap), i \in DOMAIN keyEvents :
            LastEvent(i, key) => keyEvents[i].action # "revoked"
=============================================================================
