------------------------------ MODULE Webhooks ------------------------------
(***************************************************************************)
(* Webhook endpoints, deliveries and dead letters                          *)
(* (backend/src/webhookDelivery.ts).  Endpoints and deliveries live in the *)
(* memory of one process: the rows written to the database are a best      *)
(* effort copy that nothing reads back, and are left out.                  *)
(*                                                                         *)
(* A delivery is numbered in the order of creation, newest first in the    *)
(* list.  Awaited calls (a probe, an attempt) are two steps, and what the  *)
(* code holds across the await is kept in the record of the call.          *)
(***************************************************************************)
EXTENDS Naturals, Sequences, FiniteSets, SequencesExt, TLC

CONSTANTS
    WhIds,            \* endpoint ids
    WhMaxAttempts,    \* WEBHOOK_MAX_ATTEMPTS
    WhRetention,      \* WEBHOOK_DELIVERY_RETENTION
    WhAllowUnverified, \* WEBHOOK_ALLOW_UNVERIFIED
    MaxDeliveries,    \* bound: deliveries ever created
    MaxProbes         \* bound: verifications ever begun

ASSUME WebhookAssumption ==
    /\ WhMaxAttempts \in Nat \ {0}
    /\ WhRetention \in Nat \ {0}
    /\ MaxDeliveries \in Nat /\ MaxProbes \in Nat
    /\ WhAllowUnverified \in BOOLEAN

VARIABLES
    hooks,        \* endpoints: id -> endpoint
    expired,      \* ids whose challenge has outlived challengeTtlMs
    probes,       \* verifications begun: n -> [hook, snap, open]
    answered,     \* ids that answered a probe with their challenge (history)
    sends,        \* deliverWithRetry calls: n -> delivery
    deliveries,   \* the list kept for the admin pages, newest first
    deadLetters   \* dead letters, newest first

whVars == <<hooks, expired, probes, answered, sends, deliveries, deadLetters>>

WebhookEndpoint ==
    [enabled: BOOLEAN, status: {"pending", "verified", "failed"},
     token: BOOLEAN, deleted: BOOLEAN]

WebhookDelivery ==
    [hook: WhIds, status: {"pending", "delivered", "failed"},
     attempts: 1..WhMaxAttempts, sending: BOOLEAN,
     letter: 0..MaxDeliveries]   \* the delivery whose dead letter it retries

WebhookDeadLetter ==
    [from: 1..MaxDeliveries, hook: WhIds,
     status: {"dead-letter", "requeued", "delivered"}]

WhTypeOK ==
    /\ DOMAIN hooks \subseteq WhIds
    /\ \A h \in DOMAIN hooks : hooks[h] \in WebhookEndpoint
    /\ expired \subseteq WhIds /\ answered \subseteq WhIds
    /\ \A p \in DOMAIN probes :
         probes[p] \in [hook: WhIds, snap: WebhookEndpoint, open: BOOLEAN]
    /\ \A d \in DOMAIN sends : sends[d] \in WebhookDelivery
    /\ ToSet(deliveries) \subseteq DOMAIN sends
    /\ \A i \in DOMAIN deadLetters : deadLetters[i] \in WebhookDeadLetter

WhInit ==
    /\ hooks = << >> /\ expired = {} /\ probes = << >> /\ answered = {}
    /\ sends = << >> /\ deliveries = << >> /\ deadLetters = << >>

-----------------------------------------------------------------------------
(* Endpoints. *)

Live(h) == h \in DOMAIN hooks /\ ~hooks[h].deleted

Put(h, e) == hooks' = [g \in DOMAIN hooks \cup {h} |-> IF g = h THEN e ELSE hooks[g]]

ProbeBegins(h, e) ==
    /\ Len(probes) < MaxProbes
    /\ probes' = Append(probes, [hook |-> h, snap |-> e, open |-> TRUE])

\* A new endpoint is pending, with a challenge to answer.
Registered(on) ==
    [enabled |-> on, status |-> "pending", token |-> TRUE, deleted |-> FALSE]

\* The route passes enabled ?? true; the verification starts at once.
RegisterWebhookEndpoint(h, on) ==
    /\ h \notin DOMAIN hooks
    /\ Put(h, Registered(on)) /\ ProbeBegins(h, Registered(on))
    /\ UNCHANGED <<expired, answered, sends, deliveries, deadLetters>>

\* The part of a verification before its await: an expired challenge and an
\* endpoint without one (verified before) fail without asking the endpoint.
VerifyWebhookEndpoint(h) ==
    /\ Live(h)
    /\ IF h \in expired \/ ~hooks[h].token
         THEN Put(h, [hooks[h] EXCEPT !.status = "failed"]) /\ UNCHANGED probes
         ELSE ProbeBegins(h, hooks[h]) /\ UNCHANGED hooks
    /\ UNCHANGED <<expired, answered, sends, deliveries, deadLetters>>

\* What a verification writes when its probe ends: the endpoint as it was
\* read before the await, with the outcome.
AfterProbe(e, ok) ==
    IF ok THEN [e EXCEPT !.status = "verified", !.enabled = TRUE, !.token = FALSE]
          ELSE [e EXCEPT !.status = "failed"]

ProbeWebhookVerification(p, ok) ==
    /\ p \in DOMAIN probes /\ probes[p].open
    /\ Put(probes[p].hook, AfterProbe(probes[p].snap, ok))
    /\ probes' = [probes EXCEPT ![p].open = FALSE]
    /\ answered' = IF ok THEN answered \cup {probes[p].hook} ELSE answered
    /\ UNCHANGED <<expired, sends, deliveries, deadLetters>>

ChallengeExpires(h) ==
    /\ h \in DOMAIN hooks /\ h \notin expired
    /\ expired' = expired \cup {h}
    /\ UNCHANGED <<hooks, probes, answered, sends, deliveries, deadLetters>>

\* Mutant: the update forgets that the endpoint is deleted.
UpdateWebhookEndpoint_anew(h, on) ==
    /\ h \in DOMAIN hooks
    /\ Put(h, [hooks[h] EXCEPT !.enabled = on, !.deleted = FALSE])
    /\ UNCHANGED <<expired, probes, answered, sends, deliveries, deadLetters>>

Updated(e, on) == [e EXCEPT !.enabled = on]

UpdateWebhookEndpoint(h, on) ==
    /\ Live(h)
    /\ Put(h, Updated(hooks[h], on))
    /\ UNCHANGED <<expired, probes, answered, sends, deliveries, deadLetters>>

SoftDeleted(e) == [e EXCEPT !.deleted = TRUE]

DeleteWebhookEndpoint(h) ==
    /\ Live(h)
    /\ Put(h, SoftDeleted(hooks[h]))
    /\ UNCHANGED <<expired, probes, answered, sends, deliveries, deadLetters>>

Undeleted(e) == [e EXCEPT !.deleted = FALSE]

RestoreWebhookEndpoint(h) ==
    /\ h \in DOMAIN hooks /\ hooks[h].deleted
    /\ Put(h, Undeleted(hooks[h]))
    /\ UNCHANGED <<expired, probes, answered, sends, deliveries, deadLetters>>

-----------------------------------------------------------------------------
(* Deliveries. *)

NewSend(h, l) ==
    [hook |-> h, status |-> "pending", attempts |-> 1, sending |-> TRUE,
     letter |-> l]

\* The endpoints an event goes to.  Subscription to the event type is a
\* filter like any other and is taken to hold.
Active(h) ==
    Live(h) /\ hooks[h].enabled
    /\ (WhAllowUnverified \/ hooks[h].status = "verified")

\* One delivery for each active endpoint, put in front of the list, which
\* keeps its newest WhRetention entries: a delivery cut off is still sent.
EmitTransactionEvent ==
    LET to  == SetToSeq({h \in DOMAIN hooks : Active(h)})
        n   == Len(sends)
        new == [i \in DOMAIN to |-> NewSend(to[i], 0)]
        all == Reverse([i \in DOMAIN to |-> n + i]) \o deliveries
    IN /\ to # << >>
       /\ n + Len(to) <= MaxDeliveries
       /\ sends' = sends \o new
       /\ deliveries' = SubSeq(all, 1, IF Len(all) < WhRetention
                                         THEN Len(all) ELSE WhRetention)
       /\ UNCHANGED <<hooks, expired, probes, answered, deadLetters>>

\* Mutant: every letter of the endpoint is marked.
LettersAfter_endpoint(d, status) ==
    [i \in DOMAIN deadLetters |->
        IF deadLetters[i].hook = sends[d].hook /\ status = "delivered"
          THEN [deadLetters[i] EXCEPT !.status = status] ELSE deadLetters[i]]

\* The letter a retry works on, once that retry's first attempt has ended:
\* a later attempt of it is on a timer and never comes back to the letter.
LettersAfter(d, status) ==
    [i \in DOMAIN deadLetters |->
        IF deadLetters[i].from = sends[d].letter /\ sends[d].attempts = 1
          THEN [deadLetters[i] EXCEPT
                  !.status = CASE status = "delivered" -> "delivered"
                               [] status = "failed" -> "dead-letter"
                               [] OTHER -> @]
          ELSE deadLetters[i]]

\* Mutant: one attempt too many.
spent_late(n) == n > WhMaxAttempts

spent(n) == n >= WhMaxAttempts

\* An attempt ends: answered, or refused / timed out with attempts left (the
\* retry waits for its timer), or refused for the last time.
DeliverWithRetry(d, ok) ==
    /\ d \in DOMAIN sends /\ sends[d].sending
    /\ LET s == sends[d]
           status == IF ok THEN "delivered" ELSE IF spent(s.attempts) THEN "failed" ELSE "pending"
           letter == [from |-> d, hook |-> s.hook, status |-> "dead-letter"]
       IN /\ sends' = [sends EXCEPT ![d].status = status, ![d].sending = FALSE]
          /\ deadLetters' = (IF status = "failed" THEN <<letter>> ELSE << >>)
                              \o LettersAfter(d, status)
    /\ UNCHANGED <<hooks, expired, probes, answered, deliveries>>

\* Mutant: the timer gives up on an endpoint that is not live.
RetryTimer_live(d) ==
    /\ d \in DOMAIN sends /\ ~sends[d].sending /\ sends[d].status = "pending"
    /\ Live(sends[d].hook)
    /\ sends' = [sends EXCEPT ![d].sending = TRUE, ![d].attempts = @ + 1]
    /\ UNCHANGED <<hooks, expired, probes, answered, deliveries, deadLetters>>

\* The timer of a retry: it asks nothing of the endpoint's present state.
RetryTimer(d) ==
    /\ d \in DOMAIN sends /\ ~sends[d].sending /\ sends[d].status = "pending"
    /\ sends' = [sends EXCEPT ![d].sending = TRUE, ![d].attempts = @ + 1]
    /\ UNCHANGED <<hooks, expired, probes, answered, deliveries, deadLetters>>

\* A dead letter is sent again as a delivery of its own, unless its endpoint
\* is gone; the list of deliveries is not cut here.
Requeue(i) ==
       IF ~Live(deadLetters[i].hook)
         THEN /\ deadLetters' = [deadLetters EXCEPT ![i].status = "dead-letter"]
              /\ UNCHANGED <<sends, deliveries>>
         ELSE /\ Len(sends) < MaxDeliveries
              /\ sends' = Append(sends, NewSend(deadLetters[i].hook, deadLetters[i].from))
              /\ deliveries' = <<Len(sends) + 1>> \o deliveries
              /\ deadLetters' = [deadLetters EXCEPT ![i].status = "requeued"]

\* An administrator's retry of a dead letter.
RetryWebhookDeadLetter(i) ==
    /\ i \in DOMAIN deadLetters
    /\ Requeue(i)
    /\ UNCHANGED <<hooks, expired, probes, answered>>

WhNext ==
    \/ \E h \in WhIds :
         \/ \E on \in BOOLEAN : RegisterWebhookEndpoint(h, on)
                                  \/ UpdateWebhookEndpoint(h, on)
         \/ VerifyWebhookEndpoint(h) \/ ChallengeExpires(h)
         \/ DeleteWebhookEndpoint(h) \/ RestoreWebhookEndpoint(h)
    \/ EmitTransactionEvent
    \/ \E p \in 1..MaxProbes, ok \in BOOLEAN : ProbeWebhookVerification(p, ok)
    \/ \E d \in 1..MaxDeliveries :
         (\E ok \in BOOLEAN : DeliverWithRetry(d, ok)) \/ RetryTimer(d)
    \/ \E i \in DOMAIN deadLetters : RetryWebhookDeadLetter(i)

\* A fetch is aborted after its timeout and a timer fires: no delivery step
\* waits for ever.
DeliveryStep(d) == (\E ok \in BOOLEAN : DeliverWithRetry(d, ok)) \/ RetryTimer(d)

-----------------------------------------------------------------------------
(* Properties. *)

\* deliverWithRetry: a delivery has a dead letter, and only one, exactly when
\* it has failed, and then every allowed attempt was spent on it; no delivery
\* is both delivered and a dead letter.
LettersMatchFailures ==
    /\ \A i, j \in DOMAIN deadLetters :
         deadLetters[i].from = deadLetters[j].from => i = j
    /\ {deadLetters[i].from : i \in DOMAIN deadLetters}
         = {d \in DOMAIN sends : sends[d].status = "failed"}
    /\ \A d \in DOMAIN sends :
         sends[d].status = "failed" => sends[d].attempts = WhMaxAttempts

\* retryWebhookDeadLetter: a letter says delivered only if a retry of that
\* very letter was answered, whatever other retries of it, other letters of
\* the endpoint, and late attempts on timers did in between.
DeliveredLetterWasAnswered ==
    \A i \in DOMAIN deadLetters :
        deadLetters[i].status = "delivered" =>
            \E d \in DOMAIN sends : /\ sends[d].letter = deadLetters[i].from
                                    /\ sends[d].status = "delivered"

\* emitTransactionEvent and verifyWebhookEndpoint: however verifications,
\* updates, deletions, restores and expiries interleave (each verification
\* writes back an endpoint it read long before), an event is only ever sent to
\* an endpoint that answered a challenge.
SentOnlyToAnswering ==
    WhAllowUnverified \/ \A d \in DOMAIN sends : sends[d].hook \in answered

\* verifyWebhookEndpoint writes back a whole endpoint after its await.  A
\* deleted endpoint can be live again without a restore, but only through a
\* verification that read it before it was deleted: once those have ended,
\* it stays deleted.
DeletedStaysDeleted ==
    [][\A h \in DOMAIN hooks :
         hooks[h].deleted /\ ~hooks'[h].deleted /\ ~RestoreWebhookEndpoint(h)
           => \E p \in DOMAIN probes : /\ probes[p].hook = h /\ probes[p].open
                                       /\ ~probes[p].snap.deleted]_whVars

\* deliverWithRetry: every delivery is settled in the end, the ones cut off
\* the list and the ones of deleted endpoints too.
DeliveriesSettle ==
    \A d \in 1..MaxDeliveries :
        (d \in DOMAIN sends) ~> (d \in DOMAIN sends /\ sends[d].status # "pending")

\* What the deliveries and the dead letters say is what happened, and only to
\* endpoints that answered a challenge.
DeliveriesAccounted == LettersMatchFailures /\ DeliveredLetterWasAnswered /\ SentOnlyToAnswering
=============================================================================
