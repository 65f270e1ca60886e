---------------------------- MODULE WorkersProofs ----------------------------
(***************************************************************************)
(* Theorems about the background work of the server, for any number of     *)
(* endpoints, deliveries, emails and calls and any interleaving of what    *)
(* the workers await.  Each is about Spec of MCWorkers; its worker is      *)
(* proved about on its own, since a step of another leaves it alone.       *)
(* The last part is about PollSpec of EventPolling: what the event poller  *)
(* may lose, for any number of instances, overlapping polls, events and    *)
(* ledgers, any batch size and page limit and any ranges replayed.         *)
(***************************************************************************)
EXTENDS MCWorkers, EventPolling, FiniteSetTheorems, TLAPS

-----------------------------------------------------------------------------
(* Sequences *)

\* A sequence of which some elements are changed.
LEMMA SeqMap ==
    ASSUME NEW S, NEW s \in Seq(S), NEW g, \A i \in DOMAIN s : g[i] \in S
    PROVE  /\ [i \in DOMAIN s |-> g[i]] \in Seq(S)
           /\ Len([i \in DOMAIN s |-> g[i]]) = Len(s)
  OBVIOUS

\* A sequence turned around, and one of two parts.
LEMMA SeqReverse ==
    ASSUME NEW S, NEW s \in Seq(S)
    PROVE  /\ Reverse(s) \in Seq(S) /\ Len(Reverse(s)) = Len(s)
           /\ \A i \in 1..Len(s) : Reverse(s)[i] \in S
  <1>1. Reverse(s) = [i \in 1..Len(s) |-> s[(Len(s) - i) + 1]] /\ Len(s) \in Nat
    BY DEF Reverse
  <1>2. \A i \in 1..Len(s) : s[(Len(s) - i) + 1] \in S
    <2> SUFFICES ASSUME NEW i \in 1..Len(s) PROVE s[(Len(s) - i) + 1] \in S
      OBVIOUS
    <2>1. (Len(s) - i) + 1 \in 1..Len(s)
      BY <1>1
    <2> QED
      BY <2>1
  <1> QED
    BY <1>1, <1>2

LEMMA SeqConcat ==
    ASSUME NEW S, NEW s \in Seq(S), NEW t \in Seq(S)
    PROVE  /\ s \o t \in Seq(S) /\ DOMAIN (s \o t) = 1..(Len(s) + Len(t))
           /\ DOMAIN s = 1..Len(s) /\ Len(s) \in Nat /\ Len(t) \in Nat
  OBVIOUS

LEMMA SeqWider ==
    ASSUME NEW S, NEW T, S \subseteq T, NEW s \in Seq(S)
    PROVE  s \in Seq(T) /\ \A i \in DOMAIN s : s[i] \in S
  OBVIOUS

\* SetToSeq lists a finite set.
LEMMA SeqOfSet ==
    ASSUME NEW S, IsFiniteSet(S)
    PROVE  SetToSeq(S) \in Seq(S)
  <1> DEFINE n == Cardinality(S)
  <1>1. n \in Nat /\ ExistsBijection(1..n, S)
    BY FS_CardinalityType
  <1>2. \E f \in [1..n -> S] : IsInjective(f)
    BY <1>1 DEF ExistsBijection, Bijection, Injection, Surjection, IsInjective
  <1>3. SetToSeq(S) \in [1..n -> S]
    BY <1>2 DEF SetToSeq
  <1> QED
    BY <1>1, <1>3

-----------------------------------------------------------------------------
(* Webhooks *)

Probe == [hook : WhIds, snap : WebhookEndpoint, open : BOOLEAN]

\* An endpoint, or a copy of one, that says verified answered its challenge.
VerifiedAnswered ==
    /\ \A h \in DOMAIN hooks : hooks[h].status = "verified" => h \in answered
    /\ \A p \in DOMAIN probes :
         probes[p].snap.status = "verified" => probes[p].hook \in answered

EndpointsOK ==
    /\ IsFiniteSet(DOMAIN hooks) /\ DOMAIN hooks \subseteq WhIds
    /\ hooks \in [DOMAIN hooks -> WebhookEndpoint]
    /\ expired \subseteq WhIds /\ answered \subseteq WhIds
    /\ probes \in Seq(Probe) /\ Len(probes) <= MaxProbes
    /\ \A p \in DOMAIN probes : probes[p].hook \in DOMAIN hooks
    /\ VerifiedAnswered

\* A delivery under way or waiting for its timer is pending, and one that waits
\* has an attempt left.
SendsOK ==
    /\ sends \in Seq(WebhookDelivery) /\ Len(sends) <= MaxDeliveries
    /\ \A d \in DOMAIN sends :
         /\ sends[d].sending => sends[d].status = "pending"
         /\ ~sends[d].sending /\ sends[d].status = "pending"
              => sends[d].attempts < WhMaxAttempts

\* A dead letter is of a delivery to its own endpoint.
LettersOK ==
    /\ deadLetters \in Seq(WebhookDeadLetter)
    /\ \A i \in DOMAIN deadLetters :
         /\ deadLetters[i].from \in DOMAIN sends
         /\ deadLetters[i].hook = sends[deadLetters[i].from].hook

DeliveriesOK ==
    deliveries \in Seq(Nat) /\ \A i \in DOMAIN deliveries : deliveries[i] \in DOMAIN sends

WInv == EndpointsOK /\ SendsOK /\ LettersOK /\ DeliveriesOK /\ DeliveriesAccounted

LEMMA WInvInit == WhInit => WInv
  <1> SUFFICES ASSUME WhInit PROVE WInv
    OBVIOUS
  <1>1. DOMAIN hooks = {} /\ IsFiniteSet({})
    BY FS_EmptySet DEF WhInit
  <1>2. EndpointsOK
    BY <1>1, WebhookAssumption DEF WhInit, EndpointsOK, VerifiedAnswered
  <1>3. SendsOK /\ LettersOK /\ DeliveriesOK
    BY WebhookAssumption DEF WhInit, SendsOK, LettersOK, DeliveriesOK
  <1>4. DeliveriesAccounted
    BY DEF WhInit, DeliveriesAccounted, LettersMatchFailures, DeliveredLetterWasAnswered,
       SentOnlyToAnswering
  <1> QED
    BY <1>2, <1>3, <1>4 DEF WInv

\* The steps on endpoints leave the deliveries, and what has answered stays so.
LEMMA EndpointStep ==
    ASSUME WInv, EndpointsOK', answered \subseteq answered',
           UNCHANGED <<sends, deliveries, deadLetters>>
    PROVE  WInv'
  <1>1. SendsOK' /\ LettersOK' /\ DeliveriesOK'
    BY DEF WInv, SendsOK, LettersOK, DeliveriesOK
  <1>2. DeliveriesAccounted'
    BY DEF WInv, DeliveriesAccounted, LettersMatchFailures, DeliveredLetterWasAnswered,
       SentOnlyToAnswering
  <1> QED
    BY <1>1, <1>2 DEF WInv

\* An endpoint is put: what it says of its verification must be so.
LEMMA PutStep ==
    ASSUME EndpointsOK, NEW h \in WhIds, NEW e \in WebhookEndpoint, Put(h, e),
           e.status = "verified" => h \in answered',
           UNCHANGED expired, answered \subseteq answered', answered' \subseteq WhIds,
           probes' \in Seq(Probe), Len(probes') <= MaxProbes,
           \A p \in DOMAIN probes' :
              \/ /\ p \in DOMAIN probes /\ probes'[p].hook = probes[p].hook
                 /\ probes'[p].snap = probes[p].snap
              \/ probes'[p].hook = h /\ probes'[p].snap.status # "verified"
    PROVE  EndpointsOK'
  <1>1. /\ DOMAIN hooks' = DOMAIN hooks \cup {h}
        /\ \A g \in DOMAIN hooks' : hooks'[g] = IF g = h THEN e ELSE hooks[g]
    BY DEF Put
  <1>2. IsFiniteSet(DOMAIN hooks')
    BY <1>1, FS_AddElement DEF EndpointsOK
  <1>3. hooks' \in [DOMAIN hooks' -> WebhookEndpoint] /\ DOMAIN hooks' \subseteq WhIds
    BY <1>1 DEF EndpointsOK, Put
  <1>4. VerifiedAnswered'
    BY <1>1 DEF EndpointsOK, VerifiedAnswered
  <1>5. \A p \in DOMAIN probes' : probes'[p].hook \in DOMAIN hooks'
    BY <1>1 DEF EndpointsOK
  <1> QED
    BY <1>2, <1>3, <1>4, <1>5 DEF EndpointsOK

LEMMA RegisterStep ==
    ASSUME WInv, NEW h \in WhIds, NEW on \in BOOLEAN, RegisterWebhookEndpoint(h, on)
    PROVE  WInv'
  <1> DEFINE new == [hook |-> h, snap |-> Registered(on), open |-> TRUE]
  <1>1. Registered(on) \in WebhookEndpoint /\ Registered(on).status = "pending"
    BY DEF Registered, WebhookEndpoint
  <1>2. /\ Put(h, Registered(on)) /\ Len(probes) < MaxProbes /\ probes' = Append(probes, new)
        /\ UNCHANGED <<expired, answered, sends, deliveries, deadLetters>>
    BY DEF RegisterWebhookEndpoint, ProbeBegins
  <1>3. new \in Probe /\ probes \in Seq(Probe) /\ MaxProbes \in Nat
        /\ answered \subseteq WhIds
    BY <1>1, WebhookAssumption DEF Probe, WInv, EndpointsOK
  <1>4. /\ probes' \in Seq(Probe) /\ Len(probes') <= MaxProbes
        /\ \A p \in DOMAIN probes' : \/ p \in DOMAIN probes /\ probes'[p] = probes[p]
                                     \/ probes'[p] = new
    BY <1>2, <1>3
  <1>5. new.hook = h /\ new.snap.status # "verified"
    BY <1>1
  <1> HIDE DEF new
  <1>6. EndpointsOK'
    BY <1>1, <1>2, <1>3, <1>4, <1>5, PutStep DEF WInv
  <1> QED
    BY <1>2, <1>6, EndpointStep

LEMMA VerifyStep ==
    ASSUME WInv, NEW h \in WhIds, VerifyWebhookEndpoint(h)
    PROVE  WInv'
  <1>a. /\ h \in DOMAIN hooks /\ hooks[h] \in WebhookEndpoint
        /\ probes \in Seq(Probe) /\ Len(probes) <= MaxProbes /\ answered \subseteq WhIds
        /\ MaxProbes \in Nat
    BY WebhookAssumption DEF VerifyWebhookEndpoint, Live, WInv, EndpointsOK
  <1>b. UNCHANGED <<expired, answered, sends, deliveries, deadLetters>>
    BY DEF VerifyWebhookEndpoint
  <1>1. CASE h \in expired \/ ~hooks[h].token
    <2> DEFINE e == [hooks[h] EXCEPT !.status = "failed"]
    <2>1. Put(h, e) /\ UNCHANGED probes
      BY <1>1 DEF VerifyWebhookEndpoint
    <2>2. e \in WebhookEndpoint /\ e.status = "failed"
      BY <1>a DEF WebhookEndpoint
    <2> HIDE DEF e
    <2>3. EndpointsOK'
      BY <1>a, <1>b, <2>1, <2>2, PutStep DEF WInv
    <2> QED
      BY <1>b, <2>3, EndpointStep
  <1>2. CASE ~(h \in expired \/ ~hooks[h].token)
    <2> DEFINE new == [hook |-> h, snap |-> hooks[h], open |-> TRUE]
    <2>1. Len(probes) < MaxProbes /\ probes' = Append(probes, new) /\ UNCHANGED hooks
      BY <1>2 DEF VerifyWebhookEndpoint, ProbeBegins
    <2>2. new \in Probe /\ new.hook = h /\ new.snap = hooks[h]
      BY <1>a DEF Probe
    <2>3. /\ probes' \in Seq(Probe) /\ Len(probes') <= MaxProbes
          /\ \A p \in DOMAIN probes' : \/ p \in DOMAIN probes /\ probes'[p] = probes[p]
                                       \/ probes'[p] = new
      BY <1>a, <2>1, <2>2
    <2> HIDE DEF new
    <2>4. VerifiedAnswered' /\ \A p \in DOMAIN probes' : probes'[p].hook \in DOMAIN hooks
      BY <1>a, <1>b, <2>1, <2>2, <2>3 DEF WInv, EndpointsOK, VerifiedAnswered
    <2>5. EndpointsOK'
      BY <1>b, <2>1, <2>3, <2>4 DEF WInv, EndpointsOK
    <2> QED
      BY <1>b, <2>5, EndpointStep
  <1> QED
    BY <1>1, <1>2

LEMMA ProbeStep ==
    ASSUME WInv, NEW p, NEW ok \in BOOLEAN, ProbeWebhookVerification(p, ok)
    PROVE  WInv'
  <1> DEFINE h == probes[p].hook
             e == AfterProbe(probes[p].snap, ok)
  <1>a. /\ p \in DOMAIN probes /\ probes[p] \in Probe /\ probes \in Seq(Probe)
        /\ answered \subseteq WhIds /\ Len(probes) <= MaxProbes
    BY DEF ProbeWebhookVerification, WInv, EndpointsOK
  <1>b. h \in WhIds /\ probes[p].snap \in WebhookEndpoint
    BY <1>a DEF Probe
  <1>1. /\ Put(h, e) /\ answered' = IF ok THEN answered \cup {h} ELSE answered
        /\ probes' = [probes EXCEPT ![p].open = FALSE]
        /\ UNCHANGED <<expired, sends, deliveries, deadLetters>>
    BY DEF ProbeWebhookVerification
  <1>2. e \in WebhookEndpoint /\ (e.status = "verified" => ok)
    BY <1>b DEF AfterProbe, WebhookEndpoint
  <1>3. /\ probes' \in Seq(Probe) /\ Len(probes') = Len(probes)
        /\ \A q \in DOMAIN probes' : /\ q \in DOMAIN probes
                                     /\ probes'[q].hook = probes[q].hook
                                     /\ probes'[q].snap = probes[q].snap
    <2> DEFINE n == [probes[p] EXCEPT !.open = FALSE]
    <2>1. n \in Probe /\ n.hook = probes[p].hook /\ n.snap = probes[p].snap
      BY <1>a DEF Probe
    <2>2. probes' = [probes EXCEPT ![p] = n]
      BY <1>1
    <2> HIDE DEF n
    <2>3. probes' \in Seq(Probe) /\ Len(probes') = Len(probes)
          /\ \A q \in DOMAIN probes' : q \in DOMAIN probes
                                        /\ probes'[q] = IF q = p THEN n ELSE probes[q]
      BY <1>a, <2>1, <2>2
    <2> QED
      BY <2>1, <2>3
  <1> HIDE DEF e, h
  <1>4. EndpointsOK'
    BY <1>a, <1>b, <1>1, <1>2, <1>3, PutStep DEF WInv
  <1>5. answered \subseteq answered'
    BY <1>1
  <1> QED
    BY <1>1, <1>4, <1>5, EndpointStep

\* An administrator's change of one endpoint, and the expiry of a challenge.
LEMMA ChangeStep ==
    ASSUME WInv, NEW h \in WhIds,
           \/ \E on \in BOOLEAN : UpdateWebhookEndpoint(h, on)
           \/ DeleteWebhookEndpoint(h) \/ RestoreWebhookEndpoint(h) \/ ChallengeExpires(h)
    PROVE  WInv'
  <1>a. /\ h \in DOMAIN hooks /\ hooks[h] \in WebhookEndpoint
        /\ probes \in Seq(Probe) /\ Len(probes) <= MaxProbes /\ answered \subseteq WhIds
    BY DEF UpdateWebhookEndpoint, DeleteWebhookEndpoint, RestoreWebhookEndpoint,
       ChallengeExpires, Live, WInv, EndpointsOK
  <1>b. UNCHANGED <<probes, answered, sends, deliveries, deadLetters>>
    BY DEF UpdateWebhookEndpoint, DeleteWebhookEndpoint, RestoreWebhookEndpoint,
       ChallengeExpires
  <1>1. CASE ChallengeExpires(h)
    <2>1. EndpointsOK'
      BY <1>1, <1>b DEF ChallengeExpires, WInv, EndpointsOK, VerifiedAnswered
    <2> QED
      BY <1>b, <2>1, EndpointStep
  <1>2. CASE ~ChallengeExpires(h)
    <2>1. PICK on \in BOOLEAN, del \in BOOLEAN :
             Put(h, [hooks[h] EXCEPT !.enabled = on, !.deleted = del]) /\ UNCHANGED expired
      <3>1. CASE \E on \in BOOLEAN : UpdateWebhookEndpoint(h, on)
        <4>1. PICK on \in BOOLEAN : /\ Put(h, [hooks[h] EXCEPT !.enabled = on])
                                    /\ UNCHANGED expired
          BY <3>1 DEF UpdateWebhookEndpoint, Updated
        <4>2. [hooks[h] EXCEPT !.enabled = on]
                = [hooks[h] EXCEPT !.enabled = on, !.deleted = hooks[h].deleted]
              /\ hooks[h].deleted \in BOOLEAN
          BY <1>a DEF WebhookEndpoint
        <4> QED
          BY <4>1, <4>2
      <3>2. CASE DeleteWebhookEndpoint(h) \/ RestoreWebhookEndpoint(h)
        <4>1. PICK del \in BOOLEAN : /\ Put(h, [hooks[h] EXCEPT !.deleted = del])
                                     /\ UNCHANGED expired
          BY <3>2 DEF DeleteWebhookEndpoint, SoftDeleted, RestoreWebhookEndpoint, Undeleted
        <4>2. [hooks[h] EXCEPT !.deleted = del]
                = [hooks[h] EXCEPT !.enabled = hooks[h].enabled, !.deleted = del]
              /\ hooks[h].enabled \in BOOLEAN
          BY <1>a DEF WebhookEndpoint
        <4> QED
          BY <4>1, <4>2
      <3> QED
        BY <1>2, <3>1, <3>2
    <2> DEFINE e == [hooks[h] EXCEPT !.enabled = on, !.deleted = del]
    <2>2. e \in WebhookEndpoint /\ e.status = hooks[h].status
      BY <1>a DEF WebhookEndpoint
    <2> HIDE DEF e
    <2>3. e.status = "verified" => h \in answered
      BY <1>a, <2>2 DEF WInv, EndpointsOK, VerifiedAnswered
    <2>4. EndpointsOK'
      BY <1>a, <1>b, <2>1, <2>2, <2>3, PutStep DEF WInv, e
    <2> QED
      BY <1>b, <2>4, EndpointStep
  <1> QED
    BY <1>1, <1>2

\* New deliveries, each pending at its first attempt, to endpoints that have
\* answered, behind the ones there are.
LEMMA NewSendsStep ==
    ASSUME WInv, NEW new \in Seq(WebhookDelivery), sends' = sends \o new,
           Len(sends) + Len(new) <= MaxDeliveries, DeliveriesOK',
           \A i \in DOMAIN new : /\ new[i].status = "pending" /\ new[i].sending
                                 /\ WhAllowUnverified \/ new[i].hook \in answered,
           deadLetters' \in Seq(WebhookDeadLetter), Len(deadLetters') = Len(deadLetters),
           \A i \in DOMAIN deadLetters :
              /\ deadLetters'[i].from = deadLetters[i].from
              /\ deadLetters'[i].hook = deadLetters[i].hook
              /\ deadLetters'[i].status # "delivered" \/ deadLetters'[i] = deadLetters[i],
           UNCHANGED <<hooks, expired, probes, answered>>
    PROVE  WInv'
  <1>a. sends \in Seq(WebhookDelivery) /\ deadLetters \in Seq(WebhookDeadLetter)
    BY DEF WInv, SendsOK, LettersOK
  <1>b. /\ sends' \in Seq(WebhookDelivery) /\ Len(sends') = Len(sends) + Len(new)
        /\ DOMAIN sends \subseteq DOMAIN sends'
        /\ \A d \in DOMAIN sends : sends'[d] = sends[d]
        /\ \A d \in DOMAIN sends' \ DOMAIN sends : \E i \in DOMAIN new : sends'[d] = new[i]
    <2>1. \A d \in DOMAIN sends' \ DOMAIN sends : sends'[d] = new[d - Len(sends)]
                                                /\ d - Len(sends) \in DOMAIN new
      BY <1>a
    <2> QED
      BY <1>a, <2>1
  <1>c. DOMAIN deadLetters' = DOMAIN deadLetters
    BY <1>a
  <1>1. EndpointsOK'
    BY DEF WInv, EndpointsOK, VerifiedAnswered
  <1>2. SendsOK'
    BY <1>b DEF WInv, SendsOK
  <1>3. LettersOK'
    <2> SUFFICES ASSUME NEW i \in DOMAIN deadLetters'
                 PROVE  /\ deadLetters'[i].from \in DOMAIN sends'
                        /\ deadLetters'[i].hook = sends'[deadLetters'[i].from].hook
      BY DEF LettersOK
    <2>1. /\ deadLetters[i].from \in DOMAIN sends
          /\ deadLetters[i].hook = sends[deadLetters[i].from].hook
      BY <1>c DEF WInv, LettersOK
    <2>2. /\ deadLetters'[i].from = deadLetters[i].from
          /\ deadLetters'[i].hook = deadLetters[i].hook
      BY <1>c
    <2>3. sends'[deadLetters[i].from] = sends[deadLetters[i].from]
      BY <1>b, <2>1
    <2> QED
      BY <1>b, <2>1, <2>2, <2>3
  <1>4. LettersMatchFailures'
    <2>1. {deadLetters'[i].from : i \in DOMAIN deadLetters'}
            = {deadLetters[i].from : i \in DOMAIN deadLetters}
      BY <1>c, ZenonT(30)
    <2>2. {d \in DOMAIN sends' : sends'[d].status = "failed"}
            = {d \in DOMAIN sends : sends[d].status = "failed"}
      BY <1>b
    <2>3. \A i, j \in DOMAIN deadLetters' :
             deadLetters'[i].from = deadLetters'[j].from => i = j
      BY <1>c DEF WInv, DeliveriesAccounted, LettersMatchFailures
    <2>4. \A d \in DOMAIN sends' :
             sends'[d].status = "failed" => sends'[d].attempts = WhMaxAttempts
      BY <1>b DEF WInv, DeliveriesAccounted, LettersMatchFailures
    <2> QED
      BY <2>1, <2>2, <2>3, <2>4 DEF WInv, DeliveriesAccounted, LettersMatchFailures
  <1>5. DeliveredLetterWasAnswered'
    <2> SUFFICES ASSUME NEW i \in DOMAIN deadLetters', deadLetters'[i].status = "delivered"
                 PROVE  \E d \in DOMAIN sends' : /\ sends'[d].letter = deadLetters'[i].from
                                                 /\ sends'[d].status = "delivered"
      BY DEF DeliveredLetterWasAnswered
    <2>1. PICK d \in DOMAIN sends : /\ sends[d].letter = deadLetters[i].from
                                    /\ sends[d].status = "delivered"
      BY <1>c DEF WInv, DeliveriesAccounted, DeliveredLetterWasAnswered
    <2> QED
      BY <1>b, <1>c, <2>1
  <1>6. SentOnlyToAnswering'
    BY <1>b DEF WInv, DeliveriesAccounted, SentOnlyToAnswering
  <1> QED
    BY <1>1, <1>2, <1>3, <1>4, <1>5, <1>6 DEF WInv, DeliveriesAccounted

\* A delivery to an endpoint that is there.
LEMMA NewSendType ==
    ASSUME WInv, NEW h \in WhIds, NEW l \in 0..MaxDeliveries
    PROVE  /\ NewSend(h, l) \in WebhookDelivery /\ NewSend(h, l).hook = h
           /\ NewSend(h, l).status = "pending" /\ NewSend(h, l).sending
  BY WebhookAssumption DEF NewSend, WebhookDelivery

LEMMA EmitStep ==
    ASSUME WInv, EmitTransactionEvent
    PROVE  WInv'
  <1> DEFINE on  == {h \in DOMAIN hooks : Active(h)}
             to  == SetToSeq(on)
             n   == Len(sends)
             new == [i \in DOMAIN to |-> NewSend(to[i], 0)]
             ids == [i \in DOMAIN to |-> n + i]
             all == Reverse(ids) \o deliveries
             m   == IF Len(all) < WhRetention THEN Len(all) ELSE WhRetention
  <1>a. IsFiniteSet(on) /\ on \subseteq WhIds
    BY FS_Subset DEF WInv, EndpointsOK
  <1>b. to \in Seq(on)
    BY <1>a, SeqOfSet
  <1> HIDE DEF to
  <1>c. sends \in Seq(WebhookDelivery) /\ n \in Nat /\ deliveries \in Seq(Nat)
        /\ \A i \in DOMAIN deliveries : deliveries[i] \in DOMAIN sends
    BY DEF WInv, SendsOK, DeliveriesOK
  <1>1. /\ n + Len(to) <= MaxDeliveries /\ sends' = sends \o new
        /\ deliveries' = SubSeq(all, 1, m)
        /\ UNCHANGED <<hooks, expired, probes, answered, deadLetters>>
    BY DEF EmitTransactionEvent, to
  <1>d. /\ DOMAIN to = 1..Len(to) /\ Len(to) \in Nat
        /\ \A i \in DOMAIN to : to[i] \in on /\ to[i] \in WhIds
    BY <1>a, <1>b
  <1>2. \A i \in DOMAIN to : /\ new[i] \in WebhookDelivery /\ new[i].hook = to[i]
                             /\ new[i].status = "pending" /\ new[i].sending
    BY <1>d, NewSendType, WebhookAssumption
  <1>3. new \in Seq(WebhookDelivery) /\ Len(new) = Len(to) /\ DOMAIN new = DOMAIN to
    BY <1>d, <1>2
  <1>4. \A i \in DOMAIN to : WhAllowUnverified \/ to[i] \in answered
    BY <1>d DEF Active, WInv, EndpointsOK, VerifiedAnswered
  <1>5. DeliveriesOK'
    <2> DEFINE D == 1..(n + Len(to))
    <2>1. DOMAIN sends' = D /\ DOMAIN sends = 1..n
      <3> HIDE DEF new, n
      <3>1. DOMAIN (sends \o new) = 1..(Len(sends) + Len(new)) /\ DOMAIN sends = 1..Len(sends)
        BY <1>c, <1>3, SeqConcat
      <3> QED
        BY <1>1, <1>3, <3>1 DEF n
    <2>2. ids \in Seq(D)
      BY <1>c, <1>d
    <2>3. Reverse(ids) \in Seq(D) /\ deliveries \in Seq(D)
      <3>1. 1..n \subseteq D
        BY <1>c, <1>d
      <3>2. deliveries \in Seq(D)
        BY <1>c, <2>1, <3>1
      <3> HIDE DEF ids, D
      <3> QED
        BY <2>2, <3>2, SeqReverse
    <2>4. all \in Seq(D)
      <3> HIDE DEF ids, D
      <3> QED
        BY <2>3, SeqConcat
    <2> HIDE DEF all, D
    <2>5. m \in 0..Len(all)
      BY <2>4, WebhookAssumption
    <2> HIDE DEF m
    <2>6. deliveries' \in Seq(D)
      BY <1>1, <2>4, <2>5
    <2>7. D \subseteq Nat
      BY DEF D
    <2>8. deliveries' \in Seq(Nat) /\ \A i \in DOMAIN deliveries' : deliveries'[i] \in D
      BY <2>6, <2>7, SeqWider
    <2> QED
      BY <2>1, <2>8 DEF DeliveriesOK
  <1> HIDE DEF new
  <1>6. deadLetters \in Seq(WebhookDeadLetter)
    BY DEF WInv, LettersOK
  <1> QED
    BY <1>1, <1>2, <1>3, <1>4, <1>5, <1>6, NewSendsStep

\* One delivery changes: what it must keep to, with no letter of its own yet.
LEMMA SendStep ==
    ASSUME WInv, NEW d \in DOMAIN sends, sends[d].status = "pending",
           NEW s \in WebhookDelivery, sends' = [sends EXCEPT ![d] = s],
           s.hook = sends[d].hook, s.letter = sends[d].letter,
           s.sending => s.status = "pending",
           ~s.sending /\ s.status = "pending" => s.attempts < WhMaxAttempts,
           s.status = "failed" => s.attempts = WhMaxAttempts
    PROVE  /\ DOMAIN sends' = DOMAIN sends /\ SendsOK'
           /\ \A e \in DOMAIN sends : sends'[e] = IF e = d THEN s ELSE sends[e]
           /\ \A e \in DOMAIN sends' : sends'[e].hook = sends[e].hook
           /\ \A e \in DOMAIN sends' :
                sends'[e].status = "failed" => sends'[e].attempts = WhMaxAttempts
           /\ d \notin {deadLetters[i].from : i \in DOMAIN deadLetters}
  <1>a. sends \in Seq(WebhookDelivery) /\ Len(sends) <= MaxDeliveries
    BY DEF WInv, SendsOK
  <1>1. /\ DOMAIN sends' = DOMAIN sends /\ Len(sends') = Len(sends)
        /\ sends' \in Seq(WebhookDelivery)
        /\ \A e \in DOMAIN sends : sends'[e] = IF e = d THEN s ELSE sends[e]
    BY <1>a
  <1>2. SendsOK'
    BY <1>a, <1>1 DEF WInv, SendsOK
  <1>3. d \notin {deadLetters[i].from : i \in DOMAIN deadLetters}
    BY DEF WInv, DeliveriesAccounted, LettersMatchFailures
  <1>4. \A e \in DOMAIN sends' :
          sends'[e].status = "failed" => sends'[e].attempts = WhMaxAttempts
    BY <1>1 DEF WInv, DeliveriesAccounted, LettersMatchFailures
  <1> QED
    BY <1>1, <1>2, <1>3, <1>4

LEMMA TimerStep ==
    ASSUME WInv, NEW d, RetryTimer(d)
    PROVE  WInv'
  <1> DEFINE s == [sends[d] EXCEPT !.sending = TRUE, !.attempts = @ + 1]
  <1>a. /\ d \in DOMAIN sends /\ sends[d] \in WebhookDelivery
        /\ sends[d].attempts < WhMaxAttempts /\ sends[d].status = "pending"
    BY DEF RetryTimer, WInv, SendsOK
  <1>1. /\ s \in WebhookDelivery /\ s.hook = sends[d].hook /\ s.letter = sends[d].letter
        /\ s.sending /\ s.status = "pending"
    <2>1. sends[d].attempts \in 1..WhMaxAttempts
      BY <1>a DEF WebhookDelivery
    <2>2. sends[d].attempts + 1 \in 1..WhMaxAttempts
      BY <1>a, <2>1, WebhookAssumption
    <2>3. s = [sends[d] EXCEPT !.sending = TRUE, !.attempts = sends[d].attempts + 1]
      BY <1>a DEF WebhookDelivery
    <2> QED
      BY <1>a, <2>2, <2>3 DEF WebhookDelivery
  <1>2. sends' = [sends EXCEPT ![d] = s]
    BY <1>a DEF RetryTimer
  <1>b. UNCHANGED <<hooks, expired, probes, answered, deliveries, deadLetters>>
    BY DEF RetryTimer
  <1> HIDE DEF s
  <1>3. /\ DOMAIN sends' = DOMAIN sends /\ SendsOK'
        /\ \A e \in DOMAIN sends : sends'[e] = IF e = d THEN s ELSE sends[e]
        /\ \A e \in DOMAIN sends' : sends'[e].hook = sends[e].hook
        /\ \A e \in DOMAIN sends' :
             sends'[e].status = "failed" => sends'[e].attempts = WhMaxAttempts
    BY <1>a, <1>1, <1>2, SendStep
  <1>4. EndpointsOK'
    BY <1>b DEF WInv, EndpointsOK, VerifiedAnswered
  <1>5. LettersOK' /\ DeliveriesOK'
    BY <1>b, <1>3 DEF WInv, LettersOK, DeliveriesOK
  <1>6. LettersMatchFailures'
    <2>1. {e \in DOMAIN sends' : sends'[e].status = "failed"}
            = {e \in DOMAIN sends : sends[e].status = "failed"}
      BY <1>a, <1>1, <1>3
    <2> QED
      BY <1>b, <1>3, <2>1 DEF WInv, DeliveriesAccounted, LettersMatchFailures
  <1>7. DeliveredLetterWasAnswered' /\ SentOnlyToAnswering'
    BY <1>a, <1>b, <1>1, <1>3
    DEF WInv, DeliveriesAccounted, DeliveredLetterWasAnswered, SentOnlyToAnswering
  <1> QED
    BY <1>3, <1>4, <1>5, <1>6, <1>7 DEF WInv, DeliveriesAccounted

\* The letters once an attempt has ended: all as they were, but that the letter
\* the delivery retries says how it ended.
LEMMA LettersAfterType ==
    ASSUME WInv, NEW d \in DOMAIN sends, NEW status \in {"pending", "delivered", "failed"}
    PROVE  /\ LettersAfter(d, status) \in Seq(WebhookDeadLetter)
           /\ DOMAIN LettersAfter(d, status) = DOMAIN deadLetters
           /\ Len(LettersAfter(d, status)) = Len(deadLetters)
           /\ \A i \in DOMAIN deadLetters :
                /\ LettersAfter(d, status)[i].from = deadLetters[i].from
                /\ LettersAfter(d, status)[i].hook = deadLetters[i].hook
                /\ LettersAfter(d, status)[i].status = "delivered"
                     => \/ deadLetters[i].status = "delivered"
                        \/ status = "delivered" /\ sends[d].letter = deadLetters[i].from
  <1> DEFINE g(i) == IF deadLetters[i].from = sends[d].letter /\ sends[d].attempts = 1
                       THEN [deadLetters[i] EXCEPT
                               !.status = CASE status = "delivered" -> "delivered"
                                            [] status = "failed" -> "dead-letter"
                                            [] OTHER -> @]
                       ELSE deadLetters[i]
  <1>a. deadLetters \in Seq(WebhookDeadLetter)
    BY DEF WInv, LettersOK
  <1>1. ASSUME NEW i \in DOMAIN deadLetters
        PROVE  /\ g(i) \in WebhookDeadLetter /\ g(i).from = deadLetters[i].from
               /\ g(i).hook = deadLetters[i].hook
               /\ g(i).status = "delivered" =>
                    \/ deadLetters[i].status = "delivered"
                    \/ status = "delivered" /\ sends[d].letter = deadLetters[i].from
    <2>1. deadLetters[i] \in WebhookDeadLetter
      BY <1>a
    <2>2. CASE ~(deadLetters[i].from = sends[d].letter /\ sends[d].attempts = 1)
      BY <2>1, <2>2
    <2>3. CASE deadLetters[i].from = sends[d].letter /\ sends[d].attempts = 1
      <3>1. CASE status = "delivered"
        BY <2>1, <2>3, <3>1 DEF WebhookDeadLetter
      <3>2. CASE status = "failed"
        BY <2>1, <2>3, <3>2 DEF WebhookDeadLetter
      <3>3. CASE status = "pending"
        BY <2>1, <2>3, <3>3 DEF WebhookDeadLetter
      <3> QED
        BY <3>1, <3>2, <3>3
    <2> QED
      BY <2>2, <2>3
  <1>2. LettersAfter(d, status) = [i \in DOMAIN deadLetters |-> g(i)]
    BY DEF LettersAfter
  <1> HIDE DEF g
  <1>3. /\ LettersAfter(d, status) \in Seq(WebhookDeadLetter)
        /\ DOMAIN LettersAfter(d, status) = DOMAIN deadLetters
        /\ Len(LettersAfter(d, status)) = Len(deadLetters)
    BY <1>a, <1>1, <1>2
  <1> QED
    BY <1>1, <1>2, <1>3

LEMMA DeliverStep ==
    ASSUME WInv, NEW d, NEW ok \in BOOLEAN, DeliverWithRetry(d, ok)
    PROVE  WInv'
  <1> DEFINE status == IF ok THEN "delivered"
                       ELSE IF spent(sends[d].attempts) THEN "failed" ELSE "pending"
             s      == [sends[d] EXCEPT !.status = status, !.sending = FALSE]
             letter == [from |-> d, hook |-> sends[d].hook, status |-> "dead-letter"]
             after  == LettersAfter(d, status)
  <1>a. /\ d \in DOMAIN sends /\ sends[d] \in WebhookDelivery /\ sends[d].status = "pending"
        /\ d \in 1..MaxDeliveries /\ sends[d].attempts \in 1..WhMaxAttempts
        /\ sends[d].hook \in WhIds
    <2>1. /\ d \in DOMAIN sends /\ sends[d].status = "pending"
          /\ sends \in Seq(WebhookDelivery) /\ Len(sends) <= MaxDeliveries
      BY DEF DeliverWithRetry, WInv, SendsOK
    <2>2. sends[d] \in WebhookDelivery /\ d \in 1..MaxDeliveries
      BY <2>1, WebhookAssumption
    <2> QED
      BY <2>1, <2>2 DEF WebhookDelivery
  <1>b. UNCHANGED <<hooks, expired, probes, answered, deliveries>>
    BY DEF DeliverWithRetry
  <1>1. /\ sends' = [sends EXCEPT ![d].status = status, ![d].sending = FALSE]
        /\ deadLetters' = (IF status = "failed" THEN <<letter>> ELSE << >>) \o after
    BY DEF DeliverWithRetry
  <1>2. /\ status \in {"pending", "delivered", "failed"}
        /\ status = "failed" => sends[d].attempts = WhMaxAttempts
        /\ status = "pending" => sends[d].attempts < WhMaxAttempts
    BY <1>a, WebhookAssumption DEF spent
  <1> HIDE DEF status
  <1>3. sends' = [sends EXCEPT ![d] = s]
    BY <1>a, <1>1
  <1>4. /\ s \in WebhookDelivery /\ s.hook = sends[d].hook /\ s.letter = sends[d].letter
        /\ s.status = status /\ ~s.sending /\ s.attempts = sends[d].attempts
    BY <1>a, <1>2 DEF WebhookDelivery
  <1> HIDE DEF s
  <1>5. /\ DOMAIN sends' = DOMAIN sends /\ SendsOK'
        /\ \A e \in DOMAIN sends : sends'[e] = IF e = d THEN s ELSE sends[e]
        /\ \A e \in DOMAIN sends' : sends'[e].hook = sends[e].hook
        /\ \A e \in DOMAIN sends' :
             sends'[e].status = "failed" => sends'[e].attempts = WhMaxAttempts
        /\ d \notin {deadLetters[i].from : i \in DOMAIN deadLetters}
    BY <1>a, <1>2, <1>3, <1>4, SendStep
  <1>6. /\ after \in Seq(WebhookDeadLetter)
        /\ DOMAIN after = DOMAIN deadLetters /\ Len(after) = Len(deadLetters)
        /\ \A i \in DOMAIN deadLetters :
             /\ after[i].from = deadLetters[i].from
             /\ after[i].hook = deadLetters[i].hook
             /\ after[i].status = "delivered"
                  => \/ deadLetters[i].status = "delivered"
                     \/ status = "delivered" /\ sends[d].letter = deadLetters[i].from
    BY <1>a, <1>2, LettersAfterType
  <1>7. /\ letter \in WebhookDeadLetter /\ letter.from = d /\ letter.hook = sends[d].hook
        /\ letter.status = "dead-letter"
    BY <1>a DEF WebhookDeadLetter
  <1> HIDE DEF after, letter
  <1>8. /\ deadLetters' \in Seq(WebhookDeadLetter)
        /\ \A i \in DOMAIN deadLetters' :
             \/ status = "failed" /\ i = 1 /\ deadLetters'[i] = letter
             \/ \E j \in DOMAIN deadLetters :
                  /\ j = (IF status = "failed" THEN i - 1 ELSE i) /\ deadLetters'[i] = after[j]
        /\ \A j \in DOMAIN deadLetters :
             \E i \in DOMAIN deadLetters' : deadLetters'[i] = after[j]
        /\ status = "failed" => \E i \in DOMAIN deadLetters' : deadLetters'[i] = letter
    <2>0. DOMAIN deadLetters = 1..Len(after) /\ Len(after) \in Nat
      BY <1>6
    <2>1. CASE status = "failed"
      <3>1. deadLetters' = <<letter>> \o after
        BY <1>1, <2>1
      <3>2. /\ deadLetters' \in Seq(WebhookDeadLetter) /\ DOMAIN deadLetters' = 1..(1 + Len(after))
            /\ deadLetters'[1] = letter
            /\ \A j \in 1..Len(after) : deadLetters'[j + 1] = after[j]
        BY <1>6, <1>7, <3>1
      <3>3. ASSUME NEW i \in 1..(1 + Len(after)), i # 1
            PROVE  i - 1 \in 1..Len(after) /\ deadLetters'[i] = after[i - 1]
        <4>1. i - 1 \in 1..Len(after) /\ (i - 1) + 1 = i
          BY <2>0, <3>3
        <4> QED
          BY <3>2, <4>1
      <3>4. \A j \in 1..Len(after) : j + 1 \in 1..(1 + Len(after))
        BY <2>0
      <3>5. 1 \in 1..(1 + Len(after))
        BY <2>0
      <3> QED
        BY <2>0, <2>1, <3>2, <3>3, <3>4, <3>5
    <2>2. CASE status # "failed"
      <3>1. deadLetters' = after
        BY <1>1, <1>6, <2>2
      <3> QED
        BY <1>6, <2>2, <3>1
    <2> QED
      BY <2>1, <2>2
  <1>9. LettersOK' /\ DeliveriesOK' /\ EndpointsOK'
    <2>1. ASSUME NEW i \in DOMAIN deadLetters'
          PROVE  /\ deadLetters'[i].from \in DOMAIN sends'
                 /\ deadLetters'[i].hook = sends'[deadLetters'[i].from].hook
      <3>1. CASE deadLetters'[i] = letter
        BY <1>a, <1>5, <1>7, <3>1
      <3>2. CASE \E j \in DOMAIN deadLetters : deadLetters'[i] = after[j]
        <4>1. PICK j \in DOMAIN deadLetters : deadLetters'[i] = after[j]
          BY <3>2
        <4>2. /\ deadLetters[j].from \in DOMAIN sends
              /\ deadLetters[j].hook = sends[deadLetters[j].from].hook
          BY DEF WInv, LettersOK
        <4> QED
          BY <1>5, <1>6, <4>1, <4>2
      <3> QED
        BY <1>8, <3>1, <3>2
    <2> QED
      BY <1>b, <1>5, <1>8, <2>1 DEF WInv, LettersOK, DeliveriesOK, EndpointsOK, VerifiedAnswered
  <1>10. LettersMatchFailures'
    <2>1. ASSUME NEW i \in DOMAIN deadLetters', NEW k \in DOMAIN deadLetters',
                 deadLetters'[i].from = deadLetters'[k].from
          PROVE  i = k
      <3>1. /\ \A j \in DOMAIN deadLetters : after[j].from # d
            /\ \A j, l \in DOMAIN deadLetters : after[j].from = after[l].from => j = l
        BY <1>5, <1>6 DEF WInv, DeliveriesAccounted, LettersMatchFailures
      <3>2. i \in Nat /\ k \in Nat
        BY <1>8
      <3>3. CASE deadLetters'[i] = letter \/ deadLetters'[k] = letter
        BY <1>7, <1>8, <2>1, <3>1, <3>3, SMTT(30)
      <3>4. CASE deadLetters'[i] # letter /\ deadLetters'[k] # letter
        <4>1. PICK j \in DOMAIN deadLetters, l \in DOMAIN deadLetters :
                 /\ j = (IF status = "failed" THEN i - 1 ELSE i) /\ deadLetters'[i] = after[j]
                 /\ l = (IF status = "failed" THEN k - 1 ELSE k) /\ deadLetters'[k] = after[l]
          BY <1>8, <3>4
        <4>2. j = l
          BY <2>1, <3>1, <4>1
        <4> QED
          BY <3>2, <4>1, <4>2
      <3> QED
        BY <3>3, <3>4
    <2>2. {deadLetters'[i].from : i \in DOMAIN deadLetters'}
            = {e \in DOMAIN sends' : sends'[e].status = "failed"}
      <3>1. {deadLetters[i].from : i \in DOMAIN deadLetters}
              = {e \in DOMAIN sends : sends[e].status = "failed"}
        BY DEF WInv, DeliveriesAccounted, LettersMatchFailures
      <3>2. ASSUME NEW i \in DOMAIN deadLetters'
            PROVE  /\ deadLetters'[i].from \in DOMAIN sends'
                   /\ sends'[deadLetters'[i].from].status = "failed"
        <4>1. CASE status = "failed" /\ deadLetters'[i] = letter
          BY <1>a, <1>4, <1>5, <1>7, <4>1
        <4>2. CASE \E j \in DOMAIN deadLetters : deadLetters'[i] = after[j]
          <5>1. PICK j \in DOMAIN deadLetters : deadLetters'[i] = after[j]
            BY <4>2
          <5>2. deadLetters[j].from \in {e \in DOMAIN sends : sends[e].status = "failed"}
                /\ deadLetters[j].from # d
            BY <1>5, <3>1
          <5> QED
            BY <1>5, <1>6, <5>1, <5>2
        <4> QED
          BY <1>8, <4>1, <4>2
      <3>3. ASSUME NEW e \in DOMAIN sends', sends'[e].status = "failed"
            PROVE  \E i \in DOMAIN deadLetters' : deadLetters'[i].from = e
        <4>1. CASE e = d
          <5>1. status = "failed"
            BY <1>a, <1>4, <1>5, <3>3, <4>1
          <5> QED
            BY <1>7, <1>8, <4>1, <5>1
        <4>2. CASE e # d
          <5>1. e \in {deadLetters[i].from : i \in DOMAIN deadLetters}
            BY <1>5, <3>1, <3>3, <4>2
          <5>2. PICK j \in DOMAIN deadLetters : deadLetters[j].from = e
            BY <5>1
          <5> QED
            BY <1>6, <1>8, <5>2
        <4> QED
          BY <4>1, <4>2
      <3> QED
        BY <3>2, <3>3
    <2> QED
      BY <1>5, <2>1, <2>2 DEF LettersMatchFailures
  <1>11. DeliveredLetterWasAnswered'
    <2> SUFFICES ASSUME NEW i \in DOMAIN deadLetters', deadLetters'[i].status = "delivered"
                 PROVE  \E e \in DOMAIN sends' : /\ sends'[e].letter = deadLetters'[i].from
                                                 /\ sends'[e].status = "delivered"
      BY DEF DeliveredLetterWasAnswered
    <2>1. PICK j \in DOMAIN deadLetters : deadLetters'[i] = after[j]
      BY <1>7, <1>8
    <2>2. CASE deadLetters[j].status = "delivered"
      <3>1. PICK e \in DOMAIN sends : /\ sends[e].letter = deadLetters[j].from
                                      /\ sends[e].status = "delivered"
        BY <2>2 DEF WInv, DeliveriesAccounted, DeliveredLetterWasAnswered
      <3>2. e # d
        BY <1>a, <3>1
      <3> QED
        BY <1>5, <1>6, <2>1, <3>1, <3>2
    <2>3. CASE status = "delivered" /\ sends[d].letter = deadLetters[j].from
      BY <1>a, <1>4, <1>5, <1>6, <2>1, <2>3
    <2> QED
      BY <1>6, <2>1, <2>2, <2>3
  <1>12. SentOnlyToAnswering'
    BY <1>b, <1>5 DEF WInv, DeliveriesAccounted, SentOnlyToAnswering
  <1> QED
    BY <1>5, <1>9, <1>10, <1>11, <1>12 DEF WInv, DeliveriesAccounted

LEMMA RequeueStep ==
    ASSUME WInv, NEW i \in DOMAIN deadLetters, RetryWebhookDeadLetter(i)
    PROVE  WInv'
  <1> DEFINE l == deadLetters[i]
  <1>a. /\ deadLetters \in Seq(WebhookDeadLetter) /\ l \in WebhookDeadLetter
        /\ l.hook \in WhIds /\ l.from \in 0..MaxDeliveries
        /\ l.from \in DOMAIN sends /\ l.hook = sends[l.from].hook
        /\ sends \in Seq(WebhookDelivery)
    <2>1. deadLetters \in Seq(WebhookDeadLetter) /\ l \in WebhookDeadLetter
      BY DEF WInv, LettersOK
    <2> QED
      BY <2>1, WebhookAssumption DEF WInv, LettersOK, SendsOK, WebhookDeadLetter
  <1>b. UNCHANGED <<hooks, expired, probes, answered>>
    BY DEF RetryWebhookDeadLetter
  <1>c. ASSUME NEW st \in {"dead-letter", "requeued"},
               deadLetters' = [deadLetters EXCEPT ![i].status = st]
        PROVE  /\ deadLetters' \in Seq(WebhookDeadLetter) /\ Len(deadLetters') = Len(deadLetters)
               /\ \A j \in DOMAIN deadLetters :
                    /\ deadLetters'[j].from = deadLetters[j].from
                    /\ deadLetters'[j].hook = deadLetters[j].hook
                    /\ deadLetters'[j].status # "delivered" \/ deadLetters'[j] = deadLetters[j]
    <2> DEFINE m == [l EXCEPT !.status = st]
    <2>1. /\ m \in WebhookDeadLetter /\ m.from = l.from /\ m.hook = l.hook
          /\ m.status # "delivered"
      BY <1>a DEF WebhookDeadLetter
    <2>2. deadLetters' = [deadLetters EXCEPT ![i] = m]
      BY <1>a, <1>c
    <2> HIDE DEF m
    <2>3. /\ deadLetters' \in Seq(WebhookDeadLetter) /\ Len(deadLetters') = Len(deadLetters)
          /\ \A j \in DOMAIN deadLetters : deadLetters'[j] = IF j = i THEN m ELSE deadLetters[j]
      BY <1>a, <2>1, <2>2
    <2> QED
      BY <2>1, <2>3
  <1>1. CASE ~Live(l.hook)
    <2>1. /\ deadLetters' = [deadLetters EXCEPT ![i].status = "dead-letter"]
          /\ sends' = sends \o << >> /\ UNCHANGED <<sends, deliveries>>
      BY <1>1, <1>a DEF RetryWebhookDeadLetter, Requeue
    <2>2. DeliveriesOK' /\ Len(sends) + Len(<< >>) <= MaxDeliveries
      BY <1>a, <2>1 DEF WInv, DeliveriesOK, SendsOK
    <2>3. PICK none : none = << >>
      OBVIOUS
    <2>4. none \in Seq(WebhookDelivery) /\ DOMAIN none = {} /\ Len(none) = 0
      BY <2>3
    <2>5. sends' = sends \o none /\ Len(sends) + Len(none) <= MaxDeliveries
      BY <2>1, <2>2, <2>3
    <2>6. /\ deadLetters' \in Seq(WebhookDeadLetter) /\ Len(deadLetters') = Len(deadLetters)
          /\ \A j \in DOMAIN deadLetters :
               /\ deadLetters'[j].from = deadLetters[j].from
               /\ deadLetters'[j].hook = deadLetters[j].hook
               /\ deadLetters'[j].status # "delivered" \/ deadLetters'[j] = deadLetters[j]
      BY <1>c, <2>1
    <2> QED
      BY <1>b, <2>2, <2>4, <2>5, <2>6, NewSendsStep
  <1>2. CASE Live(l.hook)
    <2> DEFINE s == NewSend(l.hook, l.from)
    <2>1. /\ Len(sends) < MaxDeliveries /\ sends' = Append(sends, s)
          /\ deliveries' = <<Len(sends) + 1>> \o deliveries
          /\ deadLetters' = [deadLetters EXCEPT ![i].status = "requeued"]
      BY <1>2 DEF RetryWebhookDeadLetter, Requeue
    <2>2. s \in WebhookDelivery /\ s.hook = l.hook /\ s.status = "pending" /\ s.sending
      BY <1>a, NewSendType
    <2>3. WhAllowUnverified \/ s.hook \in answered
      BY <1>a, <2>2 DEF WInv, DeliveriesAccounted, SentOnlyToAnswering
    <2> HIDE DEF s
    <2>4. /\ sends' = sends \o <<s>> /\ <<s>> \in Seq(WebhookDelivery)
          /\ Len(sends) + Len(<<s>>) <= MaxDeliveries
          /\ DOMAIN sends' = 1..(Len(sends) + 1) /\ DOMAIN sends = 1..Len(sends)
      BY <1>a, <2>1, <2>2, WebhookAssumption
    <2>5. DeliveriesOK'
      <3> DEFINE D == 1..(Len(sends) + 1)
      <3>1. D \subseteq Nat /\ <<Len(sends) + 1>> \in Seq(D)
        BY <1>a
      <3>2. deliveries \in Seq(Nat) /\ \A j \in DOMAIN deliveries : deliveries[j] \in D
        BY <1>a DEF WInv, DeliveriesOK
      <3>3. deliveries \in Seq(D)
        BY <3>2
      <3> HIDE DEF D
      <3>4. deliveries' \in Seq(D)
        BY <2>1, <3>1, <3>3, SeqConcat
      <3>5. deliveries' \in Seq(Nat) /\ \A j \in DOMAIN deliveries' : deliveries'[j] \in D
        BY <3>1, <3>4, SeqWider
      <3> QED
        BY <2>4, <3>5 DEF DeliveriesOK, D
    <2>6. \A j \in DOMAIN <<s>> : /\ <<s>>[j].status = "pending" /\ <<s>>[j].sending
                                  /\ WhAllowUnverified \/ <<s>>[j].hook \in answered
      BY <2>2, <2>3
    <2> QED
      BY <1>b, <1>c, <2>1, <2>4, <2>5, <2>6, NewSendsStep
  <1> QED
    BY <1>1, <1>2

LEMMA WInvStep == WInv /\ [WhNext]_whVars => WInv'
  <1> SUFFICES ASSUME WInv, [WhNext]_whVars PROVE WInv'
    OBVIOUS
  <1>1. CASE UNCHANGED whVars
    BY <1>1 DEF whVars, WInv, EndpointsOK, VerifiedAnswered, SendsOK, LettersOK, DeliveriesOK,
       DeliveriesAccounted, LettersMatchFailures, DeliveredLetterWasAnswered,
       SentOnlyToAnswering
  <1>2. CASE \E h \in WhIds :
               \/ \E on \in BOOLEAN : RegisterWebhookEndpoint(h, on)
                                        \/ UpdateWebhookEndpoint(h, on)
               \/ VerifyWebhookEndpoint(h) \/ ChallengeExpires(h)
               \/ DeleteWebhookEndpoint(h) \/ RestoreWebhookEndpoint(h)
    BY <1>2, RegisterStep, VerifyStep, ChangeStep
  <1>3. CASE EmitTransactionEvent
    BY <1>3, EmitStep
  <1>4. CASE \E p \in 1..MaxProbes, ok \in BOOLEAN : ProbeWebhookVerification(p, ok)
    BY <1>4, ProbeStep
  <1>5. CASE \E d \in 1..MaxDeliveries :
               (\E ok \in BOOLEAN : DeliverWithRetry(d, ok)) \/ RetryTimer(d)
    BY <1>5, DeliverStep, TimerStep
  <1>6. CASE \E i \in DOMAIN deadLetters : RetryWebhookDeadLetter(i)
    BY <1>6, RequeueStep
  <1> QED
    BY <1>1, <1>2, <1>3, <1>4, <1>5, <1>6 DEF WhNext

\* A step of the workers is a step of each of them, or leaves it alone.
LEMMA WebhooksRun == [Next]_vars => [WhNext]_whVars
  BY DEF Next, vars, workVars, OnWebhooks, OnEmails, OnJobs, OnApy, OnBreaker, OnLatency

LEMMA WInvHolds == Spec => []WInv
  <1>1. Init => WInv
    BY WInvInit DEF Init
  <1>2. WInv /\ [Next]_vars => WInv'
    BY WebhooksRun, WInvStep
  <1> QED
    BY <1>1, <1>2, PTL DEF Spec

(* deliverWithRetry, retryWebhookDeadLetter, emitTransactionEvent: a       *)
(* delivery has its one dead letter exactly when all its attempts failed,  *)
(* a letter says delivered only if a retry of it was, and nothing goes to  *)
(* an endpoint that never answered its challenge.                          *)
THEOREM WebhooksAccounted == Spec => []DeliveriesAccounted
  <1>1. WInv => DeliveriesAccounted
    BY DEF WInv
  <1> QED
    BY <1>1, WInvHolds, PTL

(* verifyWebhookEndpoint writes back the endpoint it read before its       *)
(* await: a deleted endpoint comes back without a restore only through a   *)
(* verification that read it before its deletion and has not ended.        *)
THEOREM DeletionLasts == Spec => DeletedStaysDeleted
  <1> DEFINE Back(h) == \E p \in DOMAIN probes : /\ probes[p].hook = h /\ probes[p].open
                                                 /\ ~probes[p].snap.deleted
             Kept == \A h \in DOMAIN hooks :
                        hooks[h].deleted /\ ~hooks'[h].deleted /\ ~RestoreWebhookEndpoint(h)
                          => Back(h)
  <1>1. WInv /\ [Next]_vars => [Kept]_whVars
    <2> SUFFICES ASSUME WInv, WhNext,
                        NEW h \in DOMAIN hooks, hooks[h].deleted, ~hooks'[h].deleted,
                        ~RestoreWebhookEndpoint(h)
                 PROVE  Back(h)
      BY WebhooksRun
    <2>a. hooks[h] \in WebhookEndpoint
      BY DEF WInv, EndpointsOK
    <2>b. ASSUME UNCHANGED hooks PROVE FALSE
      BY <2>b
    <2>c. ASSUME NEW g, NEW e, Put(g, e), g # h PROVE FALSE
      BY <2>c DEF Put
    <2>d. ASSUME NEW e, Put(h, e), e.deleted PROVE FALSE
      BY <2>d DEF Put
    <2>1. ASSUME NEW g \in WhIds, NEW on \in BOOLEAN, RegisterWebhookEndpoint(g, on)
          PROVE  FALSE
      BY <2>1, <2>c DEF RegisterWebhookEndpoint
    <2>2. ASSUME NEW g \in WhIds, NEW on \in BOOLEAN, UpdateWebhookEndpoint(g, on)
          PROVE  FALSE
      BY <2>2, <2>c DEF UpdateWebhookEndpoint, Live
    <2>3. ASSUME NEW g \in WhIds, VerifyWebhookEndpoint(g)
          PROVE  FALSE
      BY <2>3, <2>b, <2>c DEF VerifyWebhookEndpoint, Live
    <2>4. ASSUME NEW g \in WhIds, DeleteWebhookEndpoint(g)
          PROVE  FALSE
      BY <2>4, <2>c DEF DeleteWebhookEndpoint, Live
    <2>5. ASSUME NEW g \in WhIds, RestoreWebhookEndpoint(g)
          PROVE  FALSE
      BY <2>5, <2>c DEF RestoreWebhookEndpoint
    <2>6. ASSUME NEW p, NEW ok \in BOOLEAN, ProbeWebhookVerification(p, ok)
          PROVE  Back(h)
      <3> DEFINE e == AfterProbe(probes[p].snap, ok)
      <3>1. /\ p \in DOMAIN probes /\ probes[p].open /\ Put(probes[p].hook, e)
            /\ probes[p] \in Probe
        BY <2>6 DEF ProbeWebhookVerification, WInv, EndpointsOK
      <3>2. e.deleted = probes[p].snap.deleted
        BY <3>1 DEF AfterProbe, Probe, WebhookEndpoint
      <3> HIDE DEF e
      <3> QED
        BY <3>1, <3>2, <2>c, <2>d
    <2>7. ASSUME \/ EmitTransactionEvent \/ (\E g \in WhIds : ChallengeExpires(g))
                 \/ \E d \in 1..MaxDeliveries :
                       (\E ok \in BOOLEAN : DeliverWithRetry(d, ok)) \/ RetryTimer(d)
                 \/ \E i \in DOMAIN deadLetters : RetryWebhookDeadLetter(i)
          PROVE  FALSE
      BY <2>7, <2>b DEF EmitTransactionEvent, ChallengeExpires, DeliverWithRetry, RetryTimer,
         RetryWebhookDeadLetter
    <2> HIDE DEF Back
    <2> QED
      BY <2>1, <2>2, <2>3, <2>4, <2>5, <2>6, <2>7 DEF WhNext
  <1> QED
    BY <1>1, WInvHolds, PTL DEF Spec, DeletedStaysDeleted

-----------------------------------------------------------------------------
(* The email queue *)

EmailRow == [status : EmailStatus, retryCount : 0..EmailMaxRetries, due : BOOLEAN]
Held == [id : Emails, retryCount : Nat]

\* A row waiting to be sent has tries left, and whatever was sent of it is
\* excused; the tries it counts were refused or lost to faults.
RowOK(e) ==
    /\ mail[e] \in EmailRow
    /\ mail[e].status \in {"pending", "failed"}
         => mail[e].retryCount < EmailMaxRetries /\ sent[e] <= excuse[e]
    /\ mail[e].retryCount <= refused[e] + faults
    /\ mail[e].status = "dead-letter" => refused[e] + faults >= EmailMaxRetries
    /\ mail[e].status = "completed" => sent[e] > 0

MailOK ==
    /\ IsFiniteSet(DOMAIN mail) /\ DOMAIN mail \subseteq Emails
    /\ mail = [e \in DOMAIN mail |-> mail[e]]
    /\ sent \in [Emails -> Nat] /\ excuse \in [Emails -> Nat] /\ refused \in [Emails -> Nat]
    /\ faults \in Nat
    /\ \A e \in DOMAIN mail : RowOK(e)
    /\ \A e \in Emails \ DOMAIN mail : sent[e] = 0
    /\ DuplicatesExplained

\* A row of the batch, with the count the worker read.
ItemOK(i) ==
    /\ batch[i].id \in DOMAIN mail /\ batch[i].retryCount < EmailMaxRetries
    /\ batch[i].retryCount <= refused[batch[i].id] + faults
    /\ i > 1 \/ step = "mark" => /\ mail[batch[i].id].status # "processing"
                                 /\ sent[batch[i].id] <= excuse[batch[i].id]

BatchOK ==
    /\ batch \in Seq(Held) /\ step \in {"idle", "mark", "send", "complete", "fail"}
    /\ step = "idle" <=> batch = << >>
    /\ \A i \in DOMAIN batch : ItemOK(i)
    /\ \A i, j \in DOMAIN batch : batch[i].id = batch[j].id => i = j

\* The row the worker is at.
FirstOK ==
    /\ step = "send" => /\ sent[Row] <= excuse[Row]
                        /\ mail[Row].status = "processing" \/ sent[Row] < excuse[Row]
    /\ step = "complete" => sent[Row] > 0
    /\ step = "fail" => /\ sent[Row] <= excuse[Row]
                        /\ batch[1].retryCount < refused[Row] + faults

EInv == MailOK /\ BatchOK /\ FirstOK /\ StrandedByFaults

LEMMA EInvInit == EmailInit => EInv
  <1> SUFFICES ASSUME EmailInit PROVE EInv
    OBVIOUS
  <1>1. DOMAIN mail = {} /\ IsFiniteSet({}) /\ Cardinality({}) = 0
    BY FS_EmptySet DEF EmailInit
  <1>2. MailOK
    BY <1>1 DEF EmailInit, MailOK, DuplicatesExplained
  <1>3. batch = << >> /\ step = "idle" /\ << >> \in Seq(Held) /\ DOMAIN << >> = {}
    BY DEF EmailInit
  <1>5. BatchOK /\ FirstOK
    BY <1>3 DEF BatchOK, FirstOK
  <1>4. {e \in Emails : Stranded(e)} = {}
    BY <1>1 DEF Stranded
  <1>6. StrandedByFaults
    <2>1. Cardinality({e \in Emails : Stranded(e)}) = 0 /\ faults = 0
      BY <1>1, <1>4 DEF EmailInit
    <2> QED
      BY <2>1 DEF StrandedByFaults
  <1> QED
    BY <1>2, <1>5, <1>6 DEF EInv

\* What one fault strands is counted by it.
LEMMA CountedByFaults ==
    ASSUME NEW S, NEW T, NEW r, NEW n \in Nat, NEW m \in Nat,
           IsFiniteSet(S), Cardinality(S) <= n,
           \/ T \subseteq S /\ n <= m
           \/ T \subseteq S \cup {r} /\ m = n + 1
    PROVE  Cardinality(T) <= m
  <1>1. Cardinality(S) \in Nat /\ IsFiniteSet(S \cup {r})
    BY FS_CardinalityType, FS_AddElement
  <1>2. Cardinality(S \cup {r}) <= Cardinality(S) + 1 /\ Cardinality(S \cup {r}) \in Nat
    BY <1>1, FS_AddElement, FS_CardinalityType
  <1>3. CASE T \subseteq S /\ n <= m
    <2>1. IsFiniteSet(T) /\ Cardinality(T) <= Cardinality(S)
      BY <1>3, FS_Subset
    <2>2. Cardinality(T) \in Nat
      BY <2>1, FS_CardinalityType
    <2> QED
      BY <1>1, <1>3, <2>1, <2>2
  <1>4. CASE T \subseteq S \cup {r} /\ m = n + 1
    <2>1. IsFiniteSet(T) /\ Cardinality(T) <= Cardinality(S \cup {r})
      BY <1>1, <1>4, FS_Subset
    <2>2. Cardinality(T) \in Nat
      BY <2>1, FS_CardinalityType
    <2> QED
      BY <1>1, <1>2, <1>4, <2>1, <2>2
  <1> QED
    BY <1>3, <1>4

LEMMA StrandedStep ==
    ASSUME EInv, faults' \in Nat, NEW r,
           \/ faults <= faults' /\ \A e \in Emails : Stranded(e)' => Stranded(e)
           \/ faults' = faults + 1 /\ \A e \in Emails : Stranded(e)' => Stranded(e) \/ e = r
    PROVE  StrandedByFaults'
  <1> DEFINE S == {e \in Emails : Stranded(e)}
             T == {e \in Emails : Stranded(e)'}
  <1>1. S \subseteq DOMAIN mail /\ IsFiniteSet(DOMAIN mail) /\ faults \in Nat
        /\ Cardinality(S) <= faults
    BY DEF EInv, MailOK, Stranded, StrandedByFaults
  <1>2. IsFiniteSet(S)
    BY <1>1, FS_Subset
  <1>3. \/ T \subseteq S /\ faults <= faults'
        \/ T \subseteq S \cup {r} /\ faults' = faults + 1
    <2>1. CASE faults <= faults' /\ \A e \in Emails : Stranded(e)' => Stranded(e)
      <3>1. T \subseteq S
        BY <2>1 DEF Stranded, Row
      <3>2. faults <= faults'
        BY <2>1
      <3> HIDE DEF S, T
      <3> QED
        BY <3>1, <3>2
    <2>2. CASE faults' = faults + 1 /\ \A e \in Emails : Stranded(e)' => Stranded(e) \/ e = r
      <3>1. T \subseteq S \cup {r}
        BY <2>2 DEF Stranded, Row
      <3> HIDE DEF S, T
      <3> QED
        BY <2>2, <3>1
    <2> QED
      BY <2>1, <2>2
  <1> HIDE DEF S, T
  <1>4. Cardinality(T) <= faults'
    BY <1>1, <1>2, <1>3, CountedByFaults
  <1> QED
    BY <1>4 DEF T, StrandedByFaults

\* The row the worker is at is there.
LEMMA AtRow ==
    ASSUME EInv, step # "idle"
    PROVE  /\ Row \in DOMAIN mail /\ Row \in Emails /\ batch[1] \in Held /\ Len(batch) \in Nat
           /\ Len(batch) > 0 /\ 1 \in DOMAIN batch /\ ItemOK(1) /\ RowOK(Row)
           /\ batch # << >> /\ Row = batch[1].id
  <1>1. batch \in Seq(Held) /\ batch # << >>
    BY DEF EInv, BatchOK
  <1>2. Len(batch) \in Nat /\ Len(batch) > 0 /\ 1 \in DOMAIN batch /\ batch[1] \in Held
    BY <1>1
  <1>3. ItemOK(1)
    BY <1>2 DEF EInv, BatchOK
  <1> QED
    BY <1>1, <1>2, <1>3 DEF EInv, MailOK, ItemOK, Row

\* The histories only grow.
Grows ==
    /\ sent' \in [Emails -> Nat] /\ excuse' \in [Emails -> Nat] /\ refused' \in [Emails -> Nat]
    /\ faults' \in Nat /\ faults <= faults'
    /\ \A e \in Emails : excuse[e] <= excuse'[e] /\ refused[e] <= refused'[e]

\* A step on one row.
LEMMA MailStep ==
    ASSUME EInv, Grows, NEW r \in DOMAIN mail, NEW row, mail' = [mail EXCEPT ![r] = row],
           RowOK(r)', sent'[r] <= 1 + excuse'[r],
           \A e \in Emails : e # r => sent'[e] = sent[e]
    PROVE  /\ MailOK' /\ DOMAIN mail' = DOMAIN mail
           /\ \A e \in DOMAIN mail : e # r => mail'[e] = mail[e]
  <1>a. /\ mail = [e \in DOMAIN mail |-> mail[e]] /\ DOMAIN mail \subseteq Emails
        /\ sent \in [Emails -> Nat] /\ excuse \in [Emails -> Nat]
        /\ refused \in [Emails -> Nat] /\ faults \in Nat /\ IsFiniteSet(DOMAIN mail)
    BY DEF EInv, MailOK
  <1>1. /\ DOMAIN mail' = DOMAIN mail /\ mail' = [e \in DOMAIN mail' |-> mail'[e]]
        /\ \A e \in DOMAIN mail : e # r => mail'[e] = mail[e]
    BY <1>a
  <1>2. ASSUME NEW e \in DOMAIN mail, e # r PROVE RowOK(e)'
    <2>1. RowOK(e) /\ mail'[e] = mail[e] /\ sent'[e] = sent[e] /\ e \in Emails
      BY <1>a, <1>1, <1>2 DEF EInv, MailOK
    <2>2. mail[e] \in EmailRow /\ mail[e].retryCount \in Nat
      BY <2>1, EmailAssumption DEF RowOK, EmailRow
    <2> QED
      BY <1>a, <2>1, <2>2, EmailAssumption DEF RowOK, Grows
  <1>3. \A e \in Emails \ DOMAIN mail : sent'[e] = 0
    BY <1>a DEF EInv, MailOK
  <1>4. ASSUME NEW e \in Emails PROVE sent'[e] <= 1 + excuse'[e]
    <2>1. CASE e = r
      BY <2>1
    <2>2. CASE e # r
      <3>1. sent[e] <= 1 + excuse[e] /\ sent'[e] = sent[e] /\ excuse[e] <= excuse'[e]
        BY <2>2 DEF EInv, MailOK, DuplicatesExplained, Grows
      <3>2. sent[e] \in Nat /\ excuse[e] \in Nat /\ excuse'[e] \in Nat
        BY <1>a DEF Grows
      <3> QED
        BY <3>1, <3>2
    <2> QED
      BY <2>1, <2>2
  <1>5. \A e \in DOMAIN mail' : RowOK(e)'
    BY <1>1, <1>2
  <1>6. MailOK'
    BY <1>a, <1>1, <1>3, <1>4, <1>5 DEF MailOK, DuplicatesExplained, Grows
  <1> QED
    BY <1>1, <1>6

\* The items behind the first: nothing of theirs changes, or they are replayed.
LEMMA ItemStep ==
    ASSUME EInv, Grows, DOMAIN mail \subseteq DOMAIN mail',
           NEW i \in DOMAIN batch, i > 1 \/ step = "mark",
           \/ /\ mail'[batch[i].id].status = mail[batch[i].id].status
              /\ sent'[batch[i].id] = sent[batch[i].id]
           \/ /\ mail'[batch[i].id].status # "processing"
              /\ sent'[batch[i].id] <= excuse'[batch[i].id]
    PROVE  /\ batch[i].id \in DOMAIN mail' /\ batch[i].retryCount < EmailMaxRetries
           /\ batch[i].retryCount <= refused'[batch[i].id] + faults'
           /\ mail'[batch[i].id].status # "processing"
           /\ sent'[batch[i].id] <= excuse'[batch[i].id]
  <1> DEFINE e == batch[i].id
             n == batch[i].retryCount
  <1>1. batch[i] \in Held /\ ItemOK(i)
    BY DEF EInv, BatchOK
  <1>2. /\ e \in DOMAIN mail /\ n < EmailMaxRetries /\ n <= refused[e] + faults
        /\ mail[e].status # "processing" /\ sent[e] <= excuse[e] /\ e \in Emails /\ n \in Nat
    BY <1>1 DEF ItemOK, Held
  <1>3. /\ sent[e] \in Nat /\ excuse[e] \in Nat /\ refused[e] \in Nat /\ faults \in Nat
        /\ sent'[e] \in Nat /\ excuse'[e] \in Nat /\ refused'[e] \in Nat /\ faults' \in Nat
        /\ excuse[e] <= excuse'[e] /\ refused[e] <= refused'[e] /\ faults <= faults'
    BY <1>2 DEF EInv, MailOK, Grows
  <1> HIDE DEF e, n
  <1>4. n <= refused'[e] + faults'
    BY <1>2, <1>3
  <1>5. mail'[e].status # "processing" /\ sent'[e] <= excuse'[e]
    BY <1>2, <1>3 DEF e
  <1> QED
    BY <1>2, <1>4, <1>5 DEF e, n

\* The worker goes on with the row it is at.
LEMMA SameRowStep ==
    ASSUME EInv, Grows, step # "idle", UNCHANGED batch, DOMAIN mail' = DOMAIN mail,
           step' \in {"send", "complete", "fail"},
           \A e \in DOMAIN mail : e # Row => mail'[e] = mail[e] /\ sent'[e] = sent[e]
    PROVE  BatchOK'
  <1>a. batch \in Seq(Held) /\ batch # << >> /\ \A i \in DOMAIN batch : i \in Nat /\ i >= 1
    BY DEF EInv, BatchOK
  <1>1. ASSUME NEW i \in DOMAIN batch PROVE ItemOK(i)'
    <2>1. CASE i > 1
      <3>1. batch[i].id # Row /\ batch[i].id \in DOMAIN mail
        BY <1>a, <2>1, AtRow DEF EInv, BatchOK, ItemOK, Row
      <3>2. /\ mail'[batch[i].id].status = mail[batch[i].id].status
            /\ sent'[batch[i].id] = sent[batch[i].id]
        BY <3>1
      <3>3. /\ batch[i].id \in DOMAIN mail' /\ batch[i].retryCount < EmailMaxRetries
            /\ batch[i].retryCount <= refused'[batch[i].id] + faults'
            /\ mail'[batch[i].id].status # "processing"
            /\ sent'[batch[i].id] <= excuse'[batch[i].id]
        BY <2>1, <3>2, ItemStep
      <3> QED
        BY <3>3 DEF ItemOK
    <2>2. CASE i = 1
      <3> DEFINE n == batch[1].retryCount
                 e == batch[1].id
      <3>1. e \in DOMAIN mail /\ n < EmailMaxRetries /\ n <= refused[e] + faults /\ n \in Nat
            /\ e \in Emails
        BY AtRow DEF ItemOK, Held
      <3>2. /\ refused[e] \in Nat /\ faults \in Nat /\ refused'[e] \in Nat /\ faults' \in Nat
            /\ refused[e] <= refused'[e] /\ faults <= faults'
        BY <3>1 DEF EInv, MailOK, Grows
      <3> HIDE DEF n, e
      <3>3. n <= refused'[e] + faults'
        BY <3>1, <3>2
      <3> QED
        BY <2>2, <3>1, <3>3 DEF ItemOK, n, e
    <2> QED
      BY <1>a, <2>1, <2>2
  <1> QED
    BY <1>a, <1>1 DEF EInv, BatchOK

\* The worker is done with a row and turns to the next.
LEMMA NextRowStep ==
    ASSUME EInv, Grows, step # "idle", NextRow, DOMAIN mail' = DOMAIN mail,
           \A e \in DOMAIN mail : e # Row => mail'[e] = mail[e] /\ sent'[e] = sent[e]
    PROVE  /\ BatchOK' /\ FirstOK'
           /\ batch' # << >> => mail[Row'].status # "processing" /\ Row' \in DOMAIN mail
  <1>a. batch \in Seq(Held) /\ batch # << >> /\ Len(batch) \in Nat /\ Len(batch) >= 1
    BY AtRow DEF EInv, BatchOK
  <1>1. /\ batch' \in Seq(Held) /\ Len(batch') = Len(batch) - 1
        /\ \A i \in DOMAIN batch' : i + 1 \in DOMAIN batch /\ batch'[i] = batch[i + 1]
                                      /\ i + 1 > 1 /\ i \in Nat
        /\ batch' = << >> <=> Len(batch) = 1
    <2>1. batch' = Tail(batch)
      BY DEF NextRow
    <2>2. /\ batch' \in Seq(Held) /\ Len(batch') = Len(batch) - 1
          /\ DOMAIN batch' = 1..(Len(batch) - 1) /\ DOMAIN batch = 1..Len(batch)
          /\ \A i \in 1..(Len(batch) - 1) : batch'[i] = batch[i + 1]
      BY <1>a, <2>1
    <2>3. \A i \in 1..(Len(batch) - 1) : i + 1 \in 1..Len(batch) /\ i + 1 > 1 /\ i \in Nat
      BY <1>a
    <2>4. batch' = << >> <=> Len(batch') = 0
      BY <2>2
    <2> QED
      BY <1>a, <2>2, <2>3, <2>4
  <1>2. step' = (IF Len(batch) = 1 THEN "idle" ELSE "mark")
    BY DEF NextRow
  <1>3. ASSUME NEW i \in DOMAIN batch' PROVE ItemOK(i)' /\ mail[batch'[i].id].status # "processing"
                                             /\ batch'[i].id \in DOMAIN mail
    <2> DEFINE k == i + 1
    <2>0. k \in DOMAIN batch /\ batch'[i] = batch[k] /\ k > 1
      BY <1>1
    <2> HIDE DEF k
    <2>1. batch[k].id # Row /\ batch[k].id \in DOMAIN mail
          /\ mail[batch[k].id].status # "processing"
      BY <2>0, AtRow DEF EInv, BatchOK, ItemOK, Row
    <2>2. /\ mail'[batch[k].id].status = mail[batch[k].id].status
          /\ sent'[batch[k].id] = sent[batch[k].id]
      BY <2>1
    <2>3. /\ batch[k].id \in DOMAIN mail' /\ batch[k].retryCount < EmailMaxRetries
          /\ batch[k].retryCount <= refused'[batch[k].id] + faults'
          /\ mail'[batch[k].id].status # "processing"
          /\ sent'[batch[k].id] <= excuse'[batch[k].id]
      BY <2>0, <2>2, ItemStep
    <2> QED
      BY <2>0, <2>1, <2>3 DEF ItemOK
  <1>4. ASSUME NEW i \in DOMAIN batch', NEW j \in DOMAIN batch', batch'[i].id = batch'[j].id
        PROVE  i = j
    <2>1. i + 1 = j + 1
      BY <1>1, <1>4 DEF EInv, BatchOK
    <2> QED
      BY <1>1, <2>1
  <1>5. BatchOK'
    BY <1>1, <1>2, <1>3, <1>4 DEF BatchOK
  <1>6. FirstOK'
    BY <1>2 DEF FirstOK
  <1>7. ASSUME batch' # << >> PROVE mail[Row'].status # "processing" /\ Row' \in DOMAIN mail
    <2>1. 1 \in DOMAIN batch'
      BY <1>a, <1>1, <1>7
    <2> QED
      BY <1>3, <2>1 DEF Row
  <1> QED
    BY <1>5, <1>6, <1>7

LEMMA EnqueueStep ==
    ASSUME EInv, NEW e \in Emails, enqueueEmail(e)
    PROVE  EInv'
  <1>a. /\ e \notin DOMAIN mail
        /\ mail' = [f \in DOMAIN mail \cup {e} |-> IF f = e THEN NewMail ELSE mail[f]]
        /\ UNCHANGED <<batch, step, sent, excuse, refused, faults, replays>>
    BY DEF enqueueEmail
  <1>b. /\ DOMAIN mail' = DOMAIN mail \cup {e} /\ mail'[e] = NewMail
        /\ \A f \in DOMAIN mail : mail'[f] = mail[f]
        /\ mail' = [f \in DOMAIN mail' |-> mail'[f]]
    BY <1>a
  <1>1. RowOK(e)'
    <2>1. sent[e] = 0 /\ excuse[e] \in Nat /\ refused[e] \in Nat /\ faults \in Nat
      BY <1>a DEF EInv, MailOK
    <2>2. NewMail \in EmailRow /\ NewMail.status = "pending" /\ NewMail.retryCount = 0
      BY EmailAssumption DEF NewMail, EmailRow, EmailStatus
    <2>3. UNCHANGED <<sent, excuse, refused, faults>>
      BY <1>a
    <2> QED
      BY <1>b, <2>1, <2>2, <2>3, EmailAssumption DEF RowOK
  <1>2. \A f \in DOMAIN mail : RowOK(f)'
    BY <1>a, <1>b DEF EInv, MailOK, RowOK
  <1>3. IsFiniteSet(DOMAIN mail')
    BY <1>b, FS_AddElement DEF EInv, MailOK
  <1>4. MailOK'
    <2>1. \A f \in DOMAIN mail' : RowOK(f)'
      BY <1>b, <1>1, <1>2
    <2> QED
      BY <1>a, <1>b, <1>3, <2>1 DEF EInv, MailOK, DuplicatesExplained
  <1>5. BatchOK'
    <2>1. \A i \in DOMAIN batch : ItemOK(i)'
      BY <1>a, <1>b DEF EInv, BatchOK, ItemOK
    <2> QED
      BY <1>a, <2>1 DEF EInv, BatchOK
  <1>6. FirstOK'
    <2>1. CASE step = "idle"
      BY <1>a, <2>1 DEF FirstOK
    <2>2. CASE step # "idle"
      <3>1. Row' = Row /\ mail'[Row] = mail[Row]
        BY <1>a, <1>b, <2>2, AtRow DEF Row
      <3> QED
        BY <1>a, <3>1 DEF EInv, FirstOK
    <2> QED
      BY <2>1, <2>2
  <1>7. StrandedByFaults'
    <2>1. \A f \in Emails : Stranded(f)' => Stranded(f)
      BY <1>a, <1>b DEF Stranded, Row, NewMail
    <2>2. faults' = faults /\ faults \in Nat
      BY <1>a DEF EInv, MailOK
    <2> QED
      BY <2>1, <2>2, StrandedStep
  <1> QED
    BY <1>4, <1>5, <1>6, <1>7 DEF EInv

LEMMA QueueStep ==
    ASSUME EInv, processQueue
    PROVE  EInv'
  <1>a. step = "idle" /\ batch = << >> /\ step' = "mark" /\ dueRows # {}
        /\ UNCHANGED <<mail, sent, excuse, refused, faults, replays>>
    BY DEF processQueue, EInv, BatchOK
  <1>1. PICK old \in SetToSeqs(dueRows) :
          batch' = [i \in 1..(IF Len(old) < EmailBatch THEN Len(old) ELSE EmailBatch)
                      |-> [id |-> old[i], retryCount |-> mail[old[i]].retryCount]]
    BY DEF processQueue
  <1>2. IsFiniteSet(dueRows) /\ dueRows \subseteq DOMAIN mail
    BY FS_Subset DEF EInv, MailOK, dueRows
  <1> DEFINE c == Cardinality(dueRows)
             n == IF c < EmailBatch THEN c ELSE EmailBatch
  <1>3. c \in Nat /\ c # 0
    BY <1>a, <1>2, FS_CardinalityType, FS_EmptySet
  <1> HIDE DEF c
  <1>4. /\ old \in [1..c -> dueRows] /\ Len(old) = c
        /\ \A i, j \in 1..c : i # j => old[i] # old[j]
    BY <1>1, <1>3 DEF SetToSeqs, c
  <1>5. n \in 1..c
    BY <1>3, EmailAssumption
  <1>6. batch' = [i \in 1..n |-> [id |-> old[i], retryCount |-> mail[old[i]].retryCount]]
    BY <1>1, <1>4
  <1> HIDE DEF n
  <1>7. ASSUME NEW i \in 1..n
        PROVE  /\ batch'[i] \in Held /\ batch'[i].id = old[i] /\ ItemOK(i)'
               /\ old[i] \in DOMAIN mail /\ mail[old[i]].status # "processing"
    <2> DEFINE e == old[i]
    <2>1. e \in dueRows
      BY <1>4, <1>5
    <2>2. /\ e \in DOMAIN mail /\ e \in Emails /\ RowOK(e)
          /\ mail[e].status \in {"pending", "failed"}
      BY <1>2, <2>1 DEF EInv, MailOK, dueRows
    <2>3. batch'[i] = [id |-> e, retryCount |-> mail[e].retryCount]
      BY <1>6
    <2>4. mail[e].retryCount \in Nat
      BY <2>2 DEF RowOK, EmailRow
    <2>5. batch'[i].id = e /\ batch'[i].retryCount = mail[e].retryCount /\ batch'[i] \in Held
      BY <2>2, <2>3, <2>4 DEF Held
    <2> HIDE DEF e
    <2>6. ItemOK(i)'
      BY <1>a, <2>2, <2>5 DEF ItemOK, RowOK
    <2> QED
      BY <2>2, <2>5, <2>6 DEF e
  <1>8. batch' \in Seq(Held) /\ DOMAIN batch' = 1..n /\ batch' # << >>
    <2>1. n \in Nat /\ n > 0
      BY <1>3, <1>5
    <2>2. DOMAIN batch' = 1..n /\ batch' = [i \in 1..n |-> batch'[i]]
      BY <1>6
    <2>3. batch' \in Seq(Held) /\ Len(batch') = n
      BY <1>7, <2>1, <2>2
    <2> QED
      BY <2>1, <2>2, <2>3
  <1>9. \A i, j \in 1..n : batch'[i].id = batch'[j].id => i = j
    BY <1>3, <1>4, <1>5, <1>7
  <1>10. BatchOK' /\ FirstOK'
    BY <1>a, <1>7, <1>8, <1>9 DEF BatchOK, FirstOK
  <1>11. MailOK'
    BY <1>a DEF EInv, MailOK, RowOK, DuplicatesExplained
  <1>12. StrandedByFaults'
    <2>1. faults' = faults /\ faults \in Nat
      BY <1>a DEF EInv, MailOK
    <2>2. \A e \in Emails : Stranded(e)' => Stranded(e)
      BY <1>a DEF Stranded
    <2> QED
      BY <2>1, <2>2, StrandedStep
  <1> QED
    BY <1>10, <1>11, <1>12 DEF EInv

\* The types of the queue's state, and the row at work.
LEMMA QueueTypes ==
    ASSUME EInv
    PROVE  /\ sent \in [Emails -> Nat] /\ excuse \in [Emails -> Nat]
           /\ refused \in [Emails -> Nat] /\ faults \in Nat
           /\ mail = [e \in DOMAIN mail |-> mail[e]] /\ DOMAIN mail \subseteq Emails
           /\ \A e \in DOMAIN mail : RowOK(e)
           /\ \A e \in Emails : sent[e] <= 1 + excuse[e]
  BY DEF EInv, MailOK, DuplicatesExplained

\* Steps of the worker at one row that it stays at.
LEMMA WorkStep ==
    ASSUME EInv, Grows, step # "idle", UNCHANGED batch, NEW row,
           mail' = [mail EXCEPT ![Row] = row], step' \in {"send", "complete", "fail"},
           RowOK(Row)', sent'[Row] <= 1 + excuse'[Row],
           \A e \in Emails : e # Row => sent'[e] = sent[e], FirstOK'
    PROVE  EInv'
  <1>1. PICK r : r = Row
    OBVIOUS
  <1>2. r \in DOMAIN mail /\ Row' = Row /\ batch # << >> /\ faults' \in Nat /\ faults <= faults'
    BY <1>1, AtRow DEF Row, Grows
  <1>3. RowOK(r)' /\ mail' = [mail EXCEPT ![r] = row] /\ sent'[r] <= 1 + excuse'[r]
        /\ \A e \in Emails : e # r => sent'[e] = sent[e]
    BY <1>1, <1>2 DEF RowOK
  <1>4. /\ MailOK' /\ DOMAIN mail' = DOMAIN mail
        /\ \A e \in DOMAIN mail : e # r => mail'[e] = mail[e]
    BY <1>2, <1>3, MailStep
  <1>5. \A e \in DOMAIN mail : e # Row => mail'[e] = mail[e] /\ sent'[e] = sent[e]
    BY <1>1, <1>3, <1>4, QueueTypes
  <1>6. BatchOK'
    BY <1>4, <1>5, SameRowStep
  <1>7. \A e \in Emails : Stranded(e)' => Stranded(e)
    BY <1>1, <1>2, <1>4 DEF Stranded
  <1>8. StrandedByFaults'
    BY <1>2, <1>7, StrandedStep
  <1> QED
    BY <1>4, <1>6, <1>8 DEF EInv

LEMMA MarkStep ==
    ASSUME EInv, NEW ok \in BOOLEAN, markProcessing(ok)
    PROVE  EInv'
  <1>a. /\ step = "mark" /\ step' = (IF ok THEN "send" ELSE "fail")
        /\ UNCHANGED <<batch, sent, excuse, refused, replays>> /\ step # "idle"
    BY DEF markProcessing
  <1>b. /\ Row \in DOMAIN mail /\ Row \in Emails /\ ItemOK(1) /\ RowOK(Row) /\ Row = batch[1].id
        /\ Row' = Row /\ mail[Row] \in EmailRow /\ batch[1].retryCount \in Nat
    BY <1>a, AtRow DEF Row, RowOK, Held
  <1>c. sent[Row] \in Nat /\ excuse[Row] \in Nat /\ refused[Row] \in Nat /\ faults \in Nat
    BY <1>b, QueueTypes
  <1> DEFINE row == [mail[Row] EXCEPT !.status = "processing"]
  <1>1. CASE ok
    <2>1. mail' = [mail EXCEPT ![Row] = row] /\ faults' = faults
      BY <1>1, <1>b DEF markProcessing
    <2>2. row \in EmailRow /\ row.status = "processing" /\ row.retryCount = mail[Row].retryCount
      BY <1>b DEF EmailRow, EmailStatus
    <2>3. Grows
      BY <1>a, <2>1, QueueTypes DEF Grows
    <2>4. mail'[Row] = row
      BY <1>b, <2>1
    <2> HIDE DEF row
    <2>5. RowOK(Row)'
      BY <1>a, <1>b, <2>1, <2>2, <2>4 DEF RowOK
    <2>6. FirstOK'
      BY <1>a, <1>b, <1>1, <2>2, <2>4 DEF FirstOK, ItemOK
    <2> QED
      BY <1>1, <1>a, <1>b, <2>1, <2>3, <2>5, <2>6, QueueTypes, WorkStep
  <1>2. CASE ~ok
    <2>1. mail' = [mail EXCEPT ![Row] = mail[Row]] /\ mail' = mail /\ faults' = faults + 1
      BY <1>2, <1>b, QueueTypes DEF markProcessing, Fault
    <2>3. Grows
      BY <1>a, <1>c, <2>1, QueueTypes DEF Grows
    <2>4. mail[Row].retryCount \in Nat
      BY <1>b DEF EmailRow
    <2>5. RowOK(Row)'
      BY <1>a, <1>b, <1>c, <2>1, <2>4, EmailAssumption DEF RowOK
    <2>6. FirstOK'
      BY <1>a, <1>b, <1>c, <1>2, <2>1 DEF FirstOK, ItemOK
    <2> QED
      BY <1>2, <1>a, <1>b, <2>1, <2>3, <2>5, <2>6, QueueTypes, WorkStep
  <1> QED
    BY <1>1, <1>2

LEMMA ProviderStep ==
    ASSUME EInv, NEW ok \in BOOLEAN, sendEmailDirectly(ok)
    PROVE  EInv'
  <1>a. /\ step = "send" /\ step' = (IF ok THEN "complete" ELSE "fail") /\ step # "idle"
        /\ UNCHANGED <<mail, batch, excuse, faults, replays>>
        /\ sent' = [sent EXCEPT ![Row] = @ + IF ok THEN 1 ELSE 0]
        /\ refused' = [refused EXCEPT ![Row] = @ + IF ok THEN 0 ELSE 1]
    BY DEF sendEmailDirectly, afterSend
  <1>b. /\ Row \in DOMAIN mail /\ Row \in Emails /\ ItemOK(1) /\ RowOK(Row) /\ Row = batch[1].id
        /\ Row' = Row /\ mail[Row] \in EmailRow /\ batch[1].retryCount \in Nat
    BY <1>a, AtRow DEF Row, RowOK, Held
  <1>c. /\ sent[Row] \in Nat /\ excuse[Row] \in Nat /\ refused[Row] \in Nat /\ faults \in Nat
        /\ mail[Row].retryCount \in Nat
    BY <1>b, QueueTypes DEF EmailRow
  <1>1. /\ sent'[Row] = sent[Row] + (IF ok THEN 1 ELSE 0)
        /\ refused'[Row] = refused[Row] + (IF ok THEN 0 ELSE 1)
        /\ \A e \in Emails : e # Row => sent'[e] = sent[e] /\ refused'[e] = refused[e]
        /\ sent' \in [Emails -> Nat] /\ refused' \in [Emails -> Nat]
    BY <1>a, <1>b, <1>c, QueueTypes
  <1>2. Grows
    BY <1>a, <1>b, <1>c, <1>1, QueueTypes DEF Grows
  <1>3. mail' = [mail EXCEPT ![Row] = mail[Row]]
    BY <1>a, QueueTypes
  <1>4. /\ sent[Row] <= excuse[Row]
        /\ mail[Row].status = "processing" \/ sent[Row] < excuse[Row]
    BY <1>a DEF EInv, FirstOK
  <1>5. RowOK(Row)'
    BY <1>a, <1>b, <1>c, <1>1, <1>4, EmailAssumption DEF RowOK
  <1>6. FirstOK'
    BY <1>a, <1>b, <1>c, <1>1, <1>4 DEF FirstOK, ItemOK
  <1>7. sent'[Row] <= 1 + excuse'[Row]
    BY <1>a, <1>b, <1>c, <1>1, <1>4
  <1> QED
    BY <1>a, <1>1, <1>2, <1>3, <1>5, <1>6, <1>7, WorkStep

\* The worker writes the row it is at, which is no longer in processing, and
\* turns to the next.
LEMMA DoneStep ==
    ASSUME EInv, step # "idle", NextRow, NEW row, mail' = [mail EXCEPT ![Row] = row],
           row \in EmailRow, row.status # "processing",
           row.retryCount <= refused[Row] + faults,
           row.status \in {"pending", "failed"}
             => row.retryCount < EmailMaxRetries /\ sent[Row] <= excuse[Row],
           row.status = "dead-letter" => refused[Row] + faults >= EmailMaxRetries,
           row.status = "completed" => sent[Row] > 0,
           UNCHANGED <<sent, excuse, refused, faults>>
    PROVE  EInv'
  <1>1. PICK r : r = Row
    OBVIOUS
  <1>a. Grows
    BY QueueTypes DEF Grows
  <1>2. /\ r \in DOMAIN mail /\ r \in Emails /\ batch # << >> /\ mail' = [mail EXCEPT ![r] = row]
        /\ mail'[r] = row /\ sent'[r] <= 1 + excuse'[r]
    BY <1>1, AtRow, QueueTypes
  <1>3. RowOK(r)'
    BY <1>1, <1>2 DEF RowOK
  <1>4. /\ MailOK' /\ DOMAIN mail' = DOMAIN mail
        /\ \A e \in DOMAIN mail : e # r => mail'[e] = mail[e]
    BY <1>a, <1>2, <1>3, MailStep
  <1>5. /\ BatchOK' /\ FirstOK'
        /\ batch' # << >> => mail[Row'].status # "processing" /\ Row' \in DOMAIN mail
    BY <1>a, <1>1, <1>4, NextRowStep
  <1>6. \A e \in Emails : Stranded(e)' => Stranded(e)
    <2> SUFFICES ASSUME NEW e \in Emails, e \in DOMAIN mail', mail'[e].status = "processing"
                 PROVE  Stranded(e)
      BY DEF Stranded
    <2>1. e # r /\ e \in DOMAIN mail /\ mail'[e] = mail[e]
      BY <1>2, <1>4
    <2> QED
      BY <1>1, <2>1 DEF Stranded
  <1>7. faults' = faults /\ faults \in Nat
    BY QueueTypes
  <1>8. StrandedByFaults'
    BY <1>6, <1>7, StrandedStep
  <1> QED
    BY <1>4, <1>5, <1>8 DEF EInv

\* The worker loses its batch to a fault.
LEMMA LostStep ==
    ASSUME EInv, step # "idle", batch' = << >>, step' = "idle", faults' = faults + 1,
           UNCHANGED <<mail, sent, refused>>, excuse' \in [Emails -> Nat],
           \A e \in Emails : excuse[e] <= excuse'[e]
    PROVE  EInv'
  <1>1. PICK r : r = Row
    OBVIOUS
  <1>2. /\ r \in DOMAIN mail /\ RowOK(r) /\ mail' = [mail EXCEPT ![r] = mail[r]] /\ r \in Emails
        /\ mail[r] \in EmailRow /\ mail[r].retryCount \in Nat /\ faults \in Nat
        /\ sent[r] \in Nat /\ excuse[r] \in Nat /\ excuse'[r] \in Nat /\ refused[r] \in Nat
        /\ sent[r] <= 1 + excuse[r] /\ excuse[r] <= excuse'[r]
    BY <1>1, AtRow, QueueTypes DEF RowOK, EmailRow
  <1>3. Grows
    BY <1>2, QueueTypes DEF Grows
  <1>4. RowOK(r)' /\ sent'[r] <= 1 + excuse'[r]
    <2> DEFINE m == mail[r]
    <2>1. mail'[r] = m /\ sent'[r] = sent[r] /\ refused'[r] = refused[r]
      OBVIOUS
    <2>2. /\ m \in EmailRow /\ m.retryCount \in Nat /\ m.retryCount <= refused[r] + faults
          /\ m.status \in {"pending", "failed"}
               => m.retryCount < EmailMaxRetries /\ sent[r] <= excuse[r]
          /\ m.status = "dead-letter" => refused[r] + faults >= EmailMaxRetries
          /\ m.status = "completed" => sent[r] > 0
      BY <1>2 DEF RowOK
    <2> HIDE DEF m
    <2>3. /\ m.retryCount <= refused[r] + faults'
          /\ m.status = "dead-letter" => refused[r] + faults' >= EmailMaxRetries
          /\ m.status \in {"pending", "failed"}
               => m.retryCount < EmailMaxRetries /\ sent[r] <= excuse'[r]
          /\ sent[r] <= 1 + excuse'[r]
      <3>1. refused[r] + faults' = (refused[r] + faults) + 1 /\ refused[r] + faults \in Nat
        BY <1>2
      <3>2. EmailMaxRetries \in Nat
        BY EmailAssumption
      <3>3. sent[r] <= excuse[r] => sent[r] <= excuse'[r]
        BY <1>2
      <3>4. sent[r] <= 1 + excuse'[r]
        BY <1>2
      <3> QED
        BY <2>2, <3>1, <3>2, <3>3, <3>4
    <2> QED
      BY <2>1, <2>2, <2>3 DEF RowOK
  <1>5. MailOK'
    BY <1>2, <1>3, <1>4, MailStep
  <1>6. << >> \in Seq(Held) /\ DOMAIN << >> = {}
    OBVIOUS
  <1>7. BatchOK' /\ FirstOK'
    BY <1>6 DEF BatchOK, FirstOK
  <1>8. \A e \in Emails : Stranded(e)' => Stranded(e) \/ e = r
    BY <1>1 DEF Stranded
  <1>9. StrandedByFaults'
    <2>1. faults' \in Nat
      BY <1>2
    <2> QED
      BY <1>8, <2>1, StrandedStep
  <1> QED
    BY <1>5, <1>7, <1>9 DEF EInv

LEMMA RecordStep ==
    ASSUME EInv, NEW ok \in BOOLEAN, recordSent(ok)
    PROVE  EInv'
  <1>a. step = "complete" /\ step # "idle" /\ UNCHANGED <<sent, replays>>
    BY DEF recordSent
  <1>b. /\ Row \in DOMAIN mail /\ Row \in Emails /\ ItemOK(1) /\ RowOK(Row) /\ Row = batch[1].id
        /\ mail[Row] \in EmailRow /\ batch[1].retryCount \in Nat /\ sent[Row] > 0
    BY <1>a, AtRow DEF RowOK, Held, EInv, FirstOK
  <1>c. /\ sent[Row] \in Nat /\ excuse[Row] \in Nat /\ refused[Row] \in Nat /\ faults \in Nat
        /\ mail[Row].retryCount \in Nat /\ sent[Row] <= 1 + excuse[Row]
    BY <1>b, QueueTypes DEF EmailRow
  <1>1. CASE ok
    <2> DEFINE row == [mail[Row] EXCEPT !.status = "completed"]
    <2>1. /\ mail' = [mail EXCEPT ![Row] = row] /\ NextRow
          /\ UNCHANGED <<sent, excuse, refused, faults>>
      BY <1>1, <1>a, <1>b DEF recordSent
    <2>2. row \in EmailRow /\ row.status = "completed" /\ row.retryCount = mail[Row].retryCount
      BY <1>b DEF EmailRow, EmailStatus
    <2> HIDE DEF row
    <2>3. row.retryCount <= refused[Row] + faults
      BY <1>b, <2>2 DEF RowOK
    <2> QED
      BY <1>a, <1>b, <2>1, <2>2, <2>3, DoneStep
  <1>2. CASE ~ok
    <2>1. /\ faults' = faults + 1 /\ step' = "fail" /\ UNCHANGED <<mail, batch>>
          /\ excuse' = [excuse EXCEPT ![Row] = @ + 1]
          /\ refused' = [refused EXCEPT ![Row] = @ + 1]
      BY <1>2 DEF recordSent, Fault
    <2>2. /\ excuse'[Row] = excuse[Row] + 1 /\ refused'[Row] = refused[Row] + 1
          /\ \A e \in Emails : e # Row => excuse'[e] = excuse[e] /\ refused'[e] = refused[e]
          /\ excuse' \in [Emails -> Nat] /\ refused' \in [Emails -> Nat]
      BY <1>b, <1>c, <2>1, QueueTypes
    <2>3. Grows
      BY <1>a, <1>b, <1>c, <2>1, <2>2, QueueTypes DEF Grows
    <2>4. mail' = [mail EXCEPT ![Row] = mail[Row]] /\ Row' = Row
      BY <2>1, QueueTypes DEF Row
    <2>5. RowOK(Row)'
      BY <1>a, <1>b, <1>c, <2>1, <2>2, <2>4, EmailAssumption DEF RowOK
    <2>6. FirstOK'
      BY <1>a, <1>b, <1>c, <2>1, <2>2, <2>4 DEF FirstOK, ItemOK
    <2>7. sent'[Row] <= 1 + excuse'[Row] /\ \A e \in Emails : e # Row => sent'[e] = sent[e]
      BY <1>a, <1>b, <1>c, <2>2
    <2> QED
      BY <1>a, <2>1, <2>3, <2>4, <2>5, <2>6, <2>7, WorkStep
  <1> QED
    BY <1>1, <1>2

LEMMA FailureStep ==
    ASSUME EInv, NEW ok \in BOOLEAN, handleFailure(ok)
    PROVE  EInv'
  <1>a. step = "fail" /\ step # "idle" /\ UNCHANGED <<sent, excuse, refused, replays>>
    BY DEF handleFailure
  <1>b. /\ Row \in DOMAIN mail /\ Row \in Emails /\ batch[1].retryCount \in Nat
        /\ batch[1].retryCount < EmailMaxRetries /\ sent[Row] <= excuse[Row]
        /\ batch[1].retryCount < refused[Row] + faults
    BY <1>a, AtRow DEF ItemOK, Held, EInv, FirstOK
  <1>c. refused[Row] \in Nat /\ faults \in Nat
    BY <1>b, QueueTypes
  <1>1. CASE ok
    <2> DEFINE n   == batch[1].retryCount
               row == afterFailure(n)
    <2>1. /\ mail' = [mail EXCEPT ![Row] = row] /\ NextRow
          /\ UNCHANGED <<sent, excuse, refused, faults>>
      BY <1>1, <1>a DEF handleFailure
    <2>2. n \in Nat /\ n < EmailMaxRetries /\ n < refused[Row] + faults
      BY <1>b
    <2> HIDE DEF n
    <2>3. /\ row.retryCount = n + 1 /\ n + 1 \in 0..EmailMaxRetries
          /\ row.status = IF n + 1 >= EmailMaxRetries THEN "dead-letter" ELSE "failed"
      BY <2>2, EmailAssumption DEF afterFailure
    <2>4. row \in EmailRow
      BY <2>3 DEF afterFailure, EmailRow, EmailStatus
    <2> HIDE DEF row
    <2>5. /\ row.status # "processing" /\ row.status # "completed"
          /\ row.status \in {"pending", "failed"} => row.retryCount < EmailMaxRetries
          /\ row.status = "dead-letter" => refused[Row] + faults >= EmailMaxRetries
          /\ row.retryCount <= refused[Row] + faults
      BY <1>c, <2>2, <2>3, EmailAssumption
    <2> QED
      BY <1>a, <1>b, <2>1, <2>4, <2>5, DoneStep
  <1>2. CASE ~ok
    <2>1. /\ batch' = << >> /\ step' = "idle" /\ faults' = faults + 1
          /\ UNCHANGED <<mail, sent, refused>>
          /\ excuse' \in [Emails -> Nat] /\ \A e \in Emails : excuse[e] <= excuse'[e]
      BY <1>2, <1>a, QueueTypes DEF handleFailure, Fault
    <2> QED
      BY <1>a, <2>1, LostStep
  <1> QED
    BY <1>1, <1>2

LEMMA EmailCrashStep ==
    ASSUME EInv, emailCrash
    PROVE  EInv'
  <1>1. /\ step # "idle" /\ batch' = << >> /\ step' = "idle" /\ faults' = faults + 1
        /\ UNCHANGED <<mail, sent, refused>>
        /\ excuse' = [excuse EXCEPT ![Row] = @ + IF step = "complete" THEN 1 ELSE 0]
    BY DEF emailCrash, Fault
  <1>2. excuse' \in [Emails -> Nat] /\ \A e \in Emails : excuse[e] <= excuse'[e]
    BY <1>1, AtRow, QueueTypes
  <1> QED
    BY <1>1, <1>2, LostStep

\* A row other than by the worker: it waits again, or comes due.
LEMMA OtherStep ==
    ASSUME EInv, NEW r \in DOMAIN mail, NEW row, mail' = [mail EXCEPT ![r] = row],
           row \in EmailRow, row.status \in {"pending", "failed"},
           row.retryCount < EmailMaxRetries, row.retryCount <= refused[r] + faults,
           UNCHANGED <<batch, step, sent, refused, faults>>, excuse' \in [Emails -> Nat],
           \A e \in Emails : excuse[e] <= excuse'[e],
           sent[r] <= excuse'[r],
           excuse'[r] = excuse[r] + 1 \/ mail[r].status = "failed"
    PROVE  EInv'
  <1>a. Grows
    BY QueueTypes DEF Grows
  <1>b. /\ r \in Emails /\ mail'[r] = row /\ sent[r] \in Nat /\ excuse'[r] \in Nat
        /\ excuse[r] \in Nat /\ sent[r] <= 1 + excuse[r]
    BY QueueTypes
  <1>1. RowOK(r)' /\ sent'[r] <= 1 + excuse'[r]
    BY <1>b DEF RowOK
  <1>2. /\ MailOK' /\ DOMAIN mail' = DOMAIN mail
        /\ \A e \in DOMAIN mail : e # r => mail'[e] = mail[e]
    BY <1>a, <1>1, MailStep
  <1>3. ASSUME NEW i \in DOMAIN batch PROVE ItemOK(i)'
    <2>0. batch' = batch /\ step' = step /\ ItemOK(i) /\ sent' = sent /\ batch[i].id \in DOMAIN mail
          /\ refused' = refused /\ faults' = faults
      BY DEF EInv, BatchOK, ItemOK
    <2>1. CASE i > 1 \/ step = "mark"
      <3>1. \/ /\ mail'[batch[i].id].status = mail[batch[i].id].status
               /\ sent'[batch[i].id] = sent[batch[i].id]
            \/ /\ mail'[batch[i].id].status # "processing"
               /\ sent'[batch[i].id] <= excuse'[batch[i].id]
        BY <1>b, <1>2, <2>0
      <3>2. /\ batch[i].id \in DOMAIN mail' /\ batch[i].retryCount < EmailMaxRetries
            /\ batch[i].retryCount <= refused'[batch[i].id] + faults'
            /\ mail'[batch[i].id].status # "processing"
            /\ sent'[batch[i].id] <= excuse'[batch[i].id]
        BY <1>a, <1>2, <2>1, <3>1, ItemStep
      <3> QED
        BY <2>0, <3>2 DEF ItemOK
    <2>2. CASE ~(i > 1 \/ step = "mark")
      BY <1>2, <2>0, <2>2 DEF ItemOK
    <2> QED
      BY <2>1, <2>2
  <1>4. BatchOK'
    BY <1>3 DEF EInv, BatchOK
  <1>5. FirstOK'
    <2>1. CASE step = "idle" \/ step = "mark"
      BY <2>1 DEF FirstOK
    <2>2. CASE step # "idle" /\ step # "mark"
      <3>1. /\ Row' = Row /\ Row \in DOMAIN mail /\ Row \in Emails
            /\ Row # r => mail'[Row] = mail[Row]
            /\ batch' = batch /\ step' = step /\ sent' = sent /\ refused' = refused
            /\ faults' = faults
        BY <1>2, <2>2, AtRow DEF Row
      <3>2. sent[Row] \in Nat /\ excuse[Row] \in Nat /\ excuse'[Row] \in Nat
            /\ excuse[Row] <= excuse'[Row]
        BY <3>1, QueueTypes
      <3>3. CASE step = "send"
        <4>1. /\ sent[Row] <= excuse[Row]
              /\ mail[Row].status = "processing" \/ sent[Row] < excuse[Row]
          BY <3>3 DEF EInv, FirstOK
        <4>2. mail'[Row].status = "processing" \/ sent[Row] < excuse'[Row]
          <5>1. CASE Row # r
            BY <3>1, <3>2, <4>1, <5>1
          <5>2. CASE Row = r /\ excuse'[r] = excuse[r] + 1
            BY <3>2, <4>1, <5>2
          <5>3. CASE Row = r /\ mail[r].status = "failed"
            BY <3>2, <4>1, <5>3
          <5> QED
            BY <5>1, <5>2, <5>3
        <4>3. sent[Row] <= excuse'[Row]
          BY <3>2, <4>1
        <4> QED
          BY <3>1, <3>3, <4>2, <4>3 DEF FirstOK
      <3>4. CASE step # "send"
        BY <3>1, <3>2, <3>4 DEF EInv, FirstOK
      <3> QED
        BY <3>3, <3>4
    <2> QED
      BY <2>1, <2>2
  <1>6. \A e \in Emails : Stranded(e)' => Stranded(e)
    <2> SUFFICES ASSUME NEW e \in Emails, Stranded(e)' PROVE Stranded(e)
      OBVIOUS
    <2>1. e # r /\ e \in DOMAIN mail /\ mail'[e] = mail[e] /\ batch' = batch
      BY <1>b, <1>2 DEF Stranded
    <2> QED
      BY <2>1 DEF Stranded, Row
  <1>7. StrandedByFaults'
    <2>1. faults' = faults /\ faults \in Nat
      BY QueueTypes
    <2> QED
      BY <1>6, <2>1, StrandedStep
  <1> QED
    BY <1>2, <1>4, <1>5, <1>7 DEF EInv

LEMMA DueStep ==
    ASSUME EInv, NEW e \in Emails, retryDue(e) \/ postEmailReplay(e)
    PROVE  EInv'
  <1>a. /\ e \in DOMAIN mail /\ RowOK(e) /\ mail[e] \in EmailRow /\ sent[e] \in Nat
        /\ excuse[e] \in Nat /\ refused[e] \in Nat /\ faults \in Nat /\ sent[e] <= 1 + excuse[e]
    BY QueueTypes DEF retryDue, postEmailReplay, RowOK
  <1>1. CASE retryDue(e)
    <2> DEFINE row == [mail[e] EXCEPT !.due = TRUE]
    <2>1. /\ mail[e].status = "failed" /\ mail' = [mail EXCEPT ![e] = row]
          /\ UNCHANGED <<batch, step, sent, refused, faults>> /\ excuse' = excuse
      BY <1>1, <1>a DEF retryDue
    <2>2. /\ row \in EmailRow /\ row.status = mail[e].status
          /\ row.retryCount = mail[e].retryCount
      BY <1>a DEF EmailRow
    <2> HIDE DEF row
    <2>3. /\ row.status \in {"pending", "failed"} /\ row.retryCount < EmailMaxRetries
          /\ row.retryCount <= refused[e] + faults /\ sent[e] <= excuse'[e]
          /\ excuse' \in [Emails -> Nat] /\ \A f \in Emails : excuse[f] <= excuse'[f]
      BY <1>a, <2>1, <2>2, QueueTypes DEF RowOK
    <2> QED
      BY <1>a, <2>1, <2>2, <2>3, OtherStep
  <1>2. CASE postEmailReplay(e)
    <2>1. /\ mail' = [mail EXCEPT ![e] = NewMail] /\ excuse' = [excuse EXCEPT ![e] = @ + 1]
          /\ UNCHANGED <<batch, step, sent, refused, faults>>
      BY <1>2 DEF postEmailReplay, replayEmail
    <2>2. /\ NewMail \in EmailRow /\ NewMail.status \in {"pending", "failed"}
          /\ NewMail.retryCount = 0 /\ 0 < EmailMaxRetries
      BY EmailAssumption DEF NewMail, EmailRow, EmailStatus
    <2>3. /\ excuse' \in [Emails -> Nat] /\ \A f \in Emails : excuse[f] <= excuse'[f]
          /\ excuse'[e] = excuse[e] + 1
      BY <1>a, <2>1, QueueTypes
    <2>4. NewMail.retryCount <= refused[e] + faults /\ sent[e] <= excuse'[e]
      BY <1>a, <2>2, <2>3
    <2> QED
      BY <1>a, <2>1, <2>2, <2>3, <2>4, OtherStep
  <1> QED
    BY <1>1, <1>2

LEMMA EInvStep == EInv /\ [EmailNext]_emailVars => EInv'
  <1> SUFFICES ASSUME EInv, [EmailNext]_emailVars PROVE EInv'
    OBVIOUS
  <1>1. CASE UNCHANGED emailVars
    BY <1>1 DEF emailVars, EInv, MailOK, RowOK, BatchOK, ItemOK, FirstOK, Row,
       DuplicatesExplained, StrandedByFaults, Stranded
  <1>2. CASE emailWork
    BY <1>2, QueueStep, MarkStep, ProviderStep, RecordStep, FailureStep DEF emailWork
  <1>3. CASE emailCrash
    BY <1>3, EmailCrashStep
  <1>4. CASE \E e \in Emails : enqueueEmail(e) \/ retryDue(e) \/ postEmailReplay(e)
    BY <1>4, EnqueueStep, DueStep
  <1> QED
    BY <1>1, <1>2, <1>3, <1>4 DEF EmailNext

LEMMA EmailsRun == [Next]_vars => [EmailNext]_emailVars
  BY DEF Next, vars, workVars, OnWebhooks, OnEmails, OnJobs, OnApy, OnBreaker, OnLatency

(* processEmail, handleFailure, replayEmail: through failed writes,        *)
(* crashes and replays at any moment, an email is sent twice only after a  *)
(* replay or a lost record, is given up only after its tries, says         *)
(* completed only if the provider took it, and is stranded only by a       *)
(* fault of its own.                                                       *)
THEOREM EmailsAreAccounted == Spec => []EmailsAccounted
  <1>1. Init => EInv
    BY EInvInit DEF Init
  <1>2. EInv /\ [Next]_vars => EInv'
    BY EmailsRun, EInvStep
  <1>3. EInv => EmailsAccounted
    BY DEF EInv, MailOK, RowOK, EmailsAccounted, GivenUpWasTried
  <1> QED
    BY <1>1, <1>2, <1>3, PTL DEF Spec

-----------------------------------------------------------------------------
(* The circuit breaker *)

\* The failures before the ones of the current window are no younger than the
\* window, and those not older than windowMs are all of the window before it:
\* there are fewer than the threshold of them, or they opened the breaker.  If
\* the current window has reached the threshold, its last failure opened it.
WindowsOK ==
    LET n == Len(streak)
        before == n - failures
    IN /\ n <= Memory /\ (failures > 0 => n > 0)
       /\ \A i, j \in 1..n : i < j => streak[j] <= streak[i]
       /\ \A i \in 1..n : i <= before =>
            /\ windowAge <= streak[i]
            /\ \/ streak[i] > windowMs
               \/ before - i + 1 < failureThreshold
               \/ openedAge # Never /\ openedAge <= streak[i]
       /\ failures >= failureThreshold => openedAge # Never /\ openedAge <= streak[n]

BInv == BreakerTypeOK /\ streak \in Seq(0..Horizon) /\ WindowsOK

LEMMA BInvInit == BreakerInit => BInv
  <1> SUFFICES ASSUME BreakerInit PROVE BInv
    OBVIOUS
  <1>1. BreakerTypeOK
    <2>1. 0 \in 0..Horizon
      BY BreakerAssumption DEF Horizon
    <2> QED
      BY <2>1 DEF BreakerInit, BreakerTypeOK
  <1>2. Len(streak) = 0 /\ streak \in Seq(0..Horizon) /\ failures = 0 /\ 0 <= Memory
    BY BreakerAssumption DEF BreakerInit, Memory
  <1>3. WindowsOK
    BY <1>2, BreakerAssumption DEF WindowsOK
  <1> QED
    BY <1>1, <1>2, <1>3 DEF BInv

\* Everything grows older alike.
LEMMA OlderKeeps ==
    ASSUME NEW a \in {Never} \cup 0..Horizon
    PROVE  /\ older(a) \in {Never} \cup 0..Horizon /\ (older(a) = Never <=> a = Never)
           /\ a # Never => older(a) \in 0..Horizon /\ a <= older(a)
           /\ \A b \in 0..Horizon : a # Never /\ a <= b => older(a) <= older(b)
  BY BreakerAssumption DEF older, Never, Horizon

LEMMA TickStep ==
    ASSUME BInv, tick
    PROVE  BInv'
  <1>a. /\ windowAge' = older(windowAge) /\ openedAge' = older(openedAge)
        /\ streak' = [i \in DOMAIN streak |-> older(streak[i])]
        /\ UNCHANGED <<state, failures, running, healthy>>
    BY DEF tick
  <1>b. /\ streak \in Seq(0..Horizon) /\ windowAge \in 0..Horizon /\ failures \in Nat
        /\ openedAge \in {Never} \cup 0..Horizon /\ Len(streak) \in Nat
        /\ \A i \in 1..Len(streak) : streak[i] \in 0..Horizon /\ streak[i] # Never
        /\ windowAge # Never /\ Horizon \in Nat /\ windowMs \in Nat
    BY BreakerAssumption DEF BInv, BreakerTypeOK, Never, Horizon
  <1>1. /\ Len(streak') = Len(streak) /\ streak' \in Seq(0..Horizon)
        /\ \A i \in 1..Len(streak) : streak'[i] = older(streak[i])
    BY <1>a, <1>b, OlderKeeps
  <1>2. BreakerTypeOK'
    BY <1>a, <1>b, OlderKeeps DEF BInv, BreakerTypeOK
  <1>3. \A i, j \in 1..Len(streak) : i < j => streak'[j] <= streak'[i]
    BY <1>b, <1>1, OlderKeeps DEF BInv, WindowsOK
  <1>4. ASSUME NEW i \in 1..Len(streak), i <= Len(streak) - failures
        PROVE  /\ windowAge' <= streak'[i]
               /\ \/ streak'[i] > windowMs
                  \/ Len(streak) - failures - i + 1 < failureThreshold
                  \/ openedAge' # Never /\ openedAge' <= streak'[i]
    <2>1. /\ windowAge <= streak[i]
          /\ \/ streak[i] > windowMs
             \/ Len(streak) - failures - i + 1 < failureThreshold
             \/ openedAge # Never /\ openedAge <= streak[i]
      BY <1>4 DEF BInv, WindowsOK
    <2>2. streak'[i] = older(streak[i]) /\ streak[i] \in 0..Horizon /\ streak[i] # Never
      BY <1>b, <1>1
    <2>3. windowAge' <= streak'[i]
      <3>1. windowAge \in {Never} \cup 0..Horizon
        BY <1>b
      <3>2. older(windowAge) <= older(streak[i])
        BY <1>b, <2>1, <2>2, <3>1, OlderKeeps
      <3> QED
        BY <1>a, <2>2, <3>2
    <2>4. streak[i] > windowMs => streak'[i] > windowMs
      <3>1. streak[i] <= older(streak[i]) /\ older(streak[i]) \in 0..Horizon
        BY <2>2, OlderKeeps
      <3> QED
        BY <1>b, <2>2, <3>1
    <2>5. openedAge # Never /\ openedAge <= streak[i]
            => openedAge' # Never /\ openedAge' <= streak'[i]
      BY <1>a, <1>b, <2>2, OlderKeeps
    <2> QED
      BY <2>1, <2>3, <2>4, <2>5
  <1>5. ASSUME failures >= failureThreshold
        PROVE  openedAge' # Never /\ openedAge' <= streak'[Len(streak)]
    <2>1. /\ openedAge # Never /\ openedAge <= streak[Len(streak)]
          /\ Len(streak) \in 1..Len(streak)
      BY <1>b, <1>5, BreakerAssumption DEF BInv, WindowsOK
    <2> QED
      BY <1>a, <1>b, <1>1, <2>1, OlderKeeps
  <1>6. WindowsOK'
    BY <1>a, <1>b, <1>1, <1>3, <1>4, <1>5 DEF BInv, WindowsOK
  <1> QED
    BY <1>1, <1>2, <1>6 DEF BInv

\* A failure: counted in the window, or the first of a new one.
LEMMA FailStep ==
    ASSUME BInv, NEW c \in Calls, onFailure(c)
    PROVE  BInv'
  <1> DEFINE n   == Len(streak)
             all == Append(streak, 0)
             off == IF n + 1 > Memory THEN 1 ELSE 0
             m   == n + 1 - off
             T   == failureThreshold
  <1>a. /\ failures' = counted /\ openedAge' = opened(counted)
        /\ windowAge' = (IF windowAge > windowMs THEN 0 ELSE windowAge)
        /\ state' = (IF trips(counted) THEN "OPEN" ELSE state)
        /\ running' = running \ {c} /\ UNCHANGED healthy
        /\ streak' = SubSeq(all, IF Len(all) > Memory THEN 2 ELSE 1, Len(all))
    BY DEF onFailure
  <1>b. /\ streak \in Seq(0..Horizon) /\ windowAge \in 0..Horizon /\ failures \in Nat
        /\ openedAge \in {Never} \cup 0..Horizon /\ n \in Nat /\ n <= Memory
        /\ \A i \in 1..n : streak[i] \in 0..Horizon
        /\ Horizon \in Nat /\ windowMs \in Nat /\ T \in Nat \ {0} /\ Memory \in Nat \ {0}
        /\ Never = -1 /\ 0 \in 0..Horizon /\ 0 # Never
    BY BreakerAssumption DEF BInv, BreakerTypeOK, WindowsOK, Horizon, Memory, Never
  <1>c. /\ (failures > 0 => n > 0)
        /\ \A i, j \in 1..n : i < j => streak[j] <= streak[i]
        /\ \A i \in 1..n : i <= n - failures =>
             /\ windowAge <= streak[i]
             /\ \/ streak[i] > windowMs
                \/ n - failures - i + 1 < T
                \/ openedAge # Never /\ openedAge <= streak[i]
        /\ failures >= T => openedAge # Never /\ openedAge <= streak[n]
    BY DEF BInv, WindowsOK
  <1>1. /\ streak' \in Seq(0..Horizon) /\ Len(streak') = m /\ m \in 1..Memory
        /\ \A i \in 1..(m - 1) : i + off \in 1..n /\ streak'[i] = streak[i + off]
        /\ streak'[m] = 0
    <2>1. /\ all \in Seq(0..Horizon) /\ Len(all) = n + 1
          /\ \A i \in 1..n : all[i] = streak[i]
          /\ all[n + 1] = 0
      BY <1>b
    <2> HIDE DEF all
    <2>2. streak' = SubSeq(all, 1 + off, n + 1) /\ off \in {0, 1}
      BY <1>a, <2>1
    <2>3. off = 1 => n >= 1
      BY <1>b
    <2>o. off \in Nat /\ m \in 1..Memory
      BY <1>b
    <2>m. m = n + 1 - off
      OBVIOUS
    <2> HIDE DEF off, m, n
    <2>4. /\ streak' \in Seq(0..Horizon) /\ Len(streak') = m
          /\ \A i \in 1..m : streak'[i] = all[i + off]
      BY <1>b, <2>1, <2>2, <2>3, <2>o, <2>m
    <2>5. \A i \in 1..(m - 1) : i + off \in 1..n
      BY <1>b, <2>2, <2>3, <2>o, <2>m
    <2>6. m + off = n + 1 /\ m \in 1..m /\ \A i \in 1..(m - 1) : i \in 1..m
      BY <1>b, <2>2, <2>o, <2>m
    <2> QED
      BY <2>1, <2>4, <2>5, <2>6, <2>o
  <1>2. counted \in Nat \ {0}
    BY <1>b DEF counted
  <1>3. BreakerTypeOK'
    BY <1>a, <1>b, <1>2 DEF BInv, BreakerTypeOK, opened, trips
  <1>o. off \in {0, 1} /\ m = n + 1 - off
    OBVIOUS
  <1> HIDE DEF off, m, n, T
  <1>4. \A i, j \in 1..m : i < j => streak'[j] <= streak'[i]
    <2> SUFFICES ASSUME NEW i \in 1..m, NEW j \in 1..m, i < j PROVE streak'[j] <= streak'[i]
      OBVIOUS
    <2>1. i \in 1..(m - 1) /\ streak'[i] = streak[i + off] /\ i + off \in 1..n
          /\ streak[i + off] \in 0..Horizon
      BY <1>b, <1>1
    <2>2. CASE j = m
      BY <1>1, <2>1, <2>2
    <2>3. CASE j # m
      <3>1. j \in 1..(m - 1) /\ j + off \in 1..n /\ streak'[j] = streak[j + off]
        BY <1>1, <2>3
      <3>2. i + off < j + off
        BY <1>o, <1>1
      <3> QED
        BY <1>c, <2>1, <3>1, <3>2
    <2> QED
      BY <2>2, <2>3
  <1>5. counted >= T => openedAge' # Never /\ openedAge' <= streak'[m]
    BY <1>a, <1>b, <1>1 DEF opened, trips, T
  <1>6. ASSUME NEW i \in 1..m, i <= m - counted
        PROVE  /\ windowAge' <= streak'[i]
               /\ \/ streak'[i] > windowMs
                  \/ m - counted - i + 1 < T
                  \/ openedAge' # Never /\ openedAge' <= streak'[i]
    <2> DEFINE k == i + off
    <2>1. /\ i \in 1..(m - 1) /\ streak'[i] = streak[k] /\ k \in 1..n
          /\ streak[k] \in 0..Horizon
      BY <1>b, <1>1, <1>2, <1>6
    <2>2. m - counted - i + 1 = n + 1 - counted - k + 1 /\ k <= n + 1 - counted
      BY <1>b, <1>o, <1>1, <1>2, <1>6
    <2> HIDE DEF k
    <2>3. CASE counted >= T
      <3>1. openedAge' = 0
        BY <1>a, <2>3 DEF opened, trips, T
      <3>2. CASE windowAge <= windowMs
        <4>1. counted = failures + 1 /\ windowAge' = windowAge
          BY <1>a, <1>b, <3>2 DEF counted
        <4>2. k <= n - failures
          BY <1>b, <2>1, <2>2, <4>1
        <4>3. windowAge <= streak[k]
          BY <1>c, <2>1, <4>2
        <4> QED
          BY <1>b, <2>1, <3>1, <4>1, <4>3
      <3>3. CASE windowAge > windowMs
        <4>1. windowAge' = 0 /\ 0 <= streak[k]
          BY <1>a, <2>1, <3>3
        <4> QED
          BY <1>b, <2>1, <3>1, <4>1
      <3> QED
        BY <1>b, <3>2, <3>3
    <2>4. CASE counted < T
      <3>1. openedAge' = openedAge
        BY <1>a, <1>b, <1>2, <2>4 DEF opened, trips, T
      <3>2. CASE windowAge <= windowMs
        <4>1. counted = failures + 1 /\ windowAge' = windowAge
          BY <1>a, <1>b, <3>2 DEF counted
        <4>2. k <= n - failures /\ n + 1 - counted - k + 1 = n - failures - k + 1
          BY <1>b, <2>1, <2>2, <4>1
        <4> QED
          BY <1>c, <2>1, <2>2, <3>1, <4>1, <4>2
      <3>3. CASE windowAge > windowMs
        <4>1. counted = 1 /\ windowAge' = 0
          BY <1>a, <3>3 DEF counted
        <4>2. n + 1 - counted - k + 1 = n - k + 1
          BY <1>b, <2>1, <4>1
        <4>3. windowAge' <= streak[k]
          BY <1>b, <2>1, <4>1
        <4>4. CASE k <= n - failures
          <5>1. streak[k] > windowMs
            BY <1>b, <1>c, <2>1, <3>3, <4>4
          <5> QED
            BY <2>1, <4>3, <5>1
        <4>5. CASE k > n - failures /\ failures < T
          <5>1. n - k + 1 < T
            BY <1>b, <2>1, <4>5
          <5> QED
            BY <2>1, <2>2, <4>2, <4>3, <5>1
        <4>6. CASE failures >= T
          <5>1. openedAge # Never /\ openedAge <= streak[n] /\ n \in 1..n
            BY <1>b, <1>c, <2>1, <4>6
          <5>2. streak[n] <= streak[k] /\ streak[n] \in 0..Horizon
            BY <1>b, <1>c, <2>1, <5>1
          <5>3. openedAge <= streak[k]
            BY <1>b, <2>1, <5>1, <5>2
          <5> QED
            BY <2>1, <3>1, <4>3, <5>1, <5>3
        <4> QED
          BY <1>b, <2>1, <4>4, <4>5, <4>6
      <3> QED
        BY <1>b, <3>2, <3>3
    <2> QED
      BY <1>b, <1>2, <2>3, <2>4
  <1>7. WindowsOK'
    <2>1. /\ Len(streak') = m /\ failures' = counted /\ m <= Memory /\ m > 0
      BY <1>a, <1>b, <1>1
    <2>2. \A i \in 1..m : i <= m - counted =>
             /\ windowAge' <= streak'[i]
             /\ \/ streak'[i] > windowMs
                \/ m - counted - i + 1 < failureThreshold
                \/ openedAge' # Never /\ openedAge' <= streak'[i]
      BY <1>6 DEF T
    <2>3. counted >= failureThreshold => openedAge' # Never /\ openedAge' <= streak'[m]
      BY <1>5 DEF T
    <2> QED
      BY <1>4, <2>1, <2>2, <2>3 DEF WindowsOK, Memory, Never
  <1> QED
    BY <1>1, <1>3, <1>7 DEF BInv

LEMMA BInvStep == BInv /\ [BreakerNext]_breakerVars => BInv'
  <1> SUFFICES ASSUME BInv, [BreakerNext]_breakerVars PROVE BInv'
    OBVIOUS
  <1>1. CASE UNCHANGED <<failures, windowAge, openedAge, streak>>
             /\ state' \in {"CLOSED", "OPEN", "HALF_OPEN"}
             /\ (state' # "CLOSED" => state # "CLOSED")
             /\ running' \subseteq Calls /\ healthy' \in BOOLEAN
    BY <1>1 DEF BInv, BreakerTypeOK, WindowsOK
  <1>2. CASE UNCHANGED breakerVars
    BY <1>1, <1>2 DEF breakerVars, BInv, BreakerTypeOK
  <1>3. ASSUME NEW c \in Calls, execute(c) PROVE BInv'
    BY <1>1, <1>3 DEF execute, maybeTransitionToHalfOpen, cooled, BInv, BreakerTypeOK
  <1>4. ASSUME NEW c \in Calls, onSuccess(c) PROVE BInv'
    <2>1. /\ state' = "CLOSED" /\ failures' = 0 /\ windowAge' = 0 /\ openedAge' = Never
          /\ streak' = << >> /\ running' = running \ {c} /\ UNCHANGED healthy
      BY <1>4 DEF onSuccess
    <2>2. 0 \in 0..Horizon /\ Memory \in Nat
      BY BreakerAssumption DEF Horizon, Memory
    <2>3. BreakerTypeOK'
      BY <2>1, <2>2 DEF BInv, BreakerTypeOK
    <2>4. streak' \in Seq(0..Horizon) /\ Len(streak') = 0
      BY <2>1
    <2>5. WindowsOK'
      BY <2>1, <2>2, <2>4, BreakerAssumption DEF WindowsOK
    <2> QED
      BY <2>3, <2>4, <2>5 DEF BInv
  <1>5. ASSUME NEW c \in Calls, onFailure(c) PROVE BInv'
    BY <1>5, FailStep
  <1>6. CASE currentState
    BY <1>1, <1>6 DEF currentState, maybeTransitionToHalfOpen, cooled, BInv, BreakerTypeOK
  <1>7. CASE tick
    BY <1>7, TickStep
  <1>8. CASE recover
    BY <1>1, <1>8 DEF recover, BInv, BreakerTypeOK
  <1> QED
    BY <1>2, <1>3, <1>4, <1>5, <1>6, <1>7, <1>8 DEF BreakerNext

LEMMA StreakType == BInv => Len(streak) \in Nat
                           /\ \A i \in 1..Len(streak) : streak[i] \in 0..Horizon
  <1> DEFINE S == 0..Horizon
  <1>1. BInv => streak \in Seq(S)
    BY DEF BInv
  <1> HIDE DEF S
  <1>2. BInv => Len(streak) \in Nat /\ \A i \in 1..Len(streak) : streak[i] \in S
    BY <1>1
  <1> QED
    BY <1>2 DEF S

LEMMA BInvOpens == BInv => OpensWithinTwoWindows
  <1> SUFFICES ASSUME BInv, Len(streak) = Memory, streak[1] <= windowMs
               PROVE  openedAge # Never /\ openedAge <= streak[1]
    BY DEF OpensWithinTwoWindows
  <1>a. /\ streak \in Seq(0..Horizon) /\ failures \in Nat /\ openedAge \in {Never} \cup 0..Horizon
        /\ windowMs \in Nat /\ failureThreshold \in Nat \ {0} /\ Memory = 2 * failureThreshold - 1
        /\ Len(streak) = Memory
    BY BreakerAssumption DEF BInv, BreakerTypeOK, Memory
  <1>b. /\ 1 \in 1..Len(streak) /\ streak[1] \in 0..Horizon /\ Len(streak) \in 1..Len(streak)
        /\ streak[Len(streak)] \in 0..Horizon
    <2> DEFINE n == Len(streak)
    <2>0. n \in Nat /\ \A i \in 1..n : streak[i] \in 0..Horizon
      BY StreakType
    <2>1. n >= 1
      BY <1>a
    <2> HIDE DEF n
    <2>2. 1 \in 1..n /\ n \in 1..n
      BY <2>0, <2>1
    <2> QED
      BY <2>0, <2>2 DEF n
  <1>1. CASE failures >= failureThreshold
    <2>1. openedAge # Never /\ openedAge <= streak[Len(streak)]
      BY <1>1 DEF BInv, WindowsOK
    <2>2. Len(streak) # 1 => streak[Len(streak)] <= streak[1]
      BY <1>a, <1>b DEF BInv, WindowsOK
    <2> QED
      BY <1>a, <1>b, <2>1, <2>2 DEF Never
  <1>2. CASE failures < failureThreshold
    <2>1. 1 <= Len(streak) - failures /\ ~(Len(streak) - failures - 1 + 1 < failureThreshold)
      BY <1>a, <1>2
    <2>2. \/ streak[1] > windowMs
          \/ Len(streak) - failures - 1 + 1 < failureThreshold
          \/ openedAge # Never /\ openedAge <= streak[1]
      BY <1>b, <2>1 DEF BInv, WindowsOK
    <2> QED
      BY <1>a, <1>b, <2>1, <2>2
  <1> QED
    BY <1>a, <1>1, <1>2

-----------------------------------------------------------------------------
(* The latency alerts *)

\* A tracker knows the time of its endpoint's last alert, or that there was none.
LastKnown(e) ==
    LET log == alertLog[e]
    IN /\ log \in Seq(1..latNow)
       /\ e \notin DOMAIN trackers => log = << >>
       /\ e \in DOMAIN trackers =>
            /\ trackers[e] = [points |-> trackers[e].points, lastAlert |-> trackers[e].lastAlert]
            /\ trackers[e].lastAlert = IF log = << >> THEN 0 ELSE log[Len(log)]

Spaced(log) == \A i \in 1..(Len(log) - 1) : log[i + 1] > log[i] + AlertCooldown

LInv ==
    /\ latNow \in Nat \ {0} /\ DOMAIN trackers \subseteq LatEndpoints
    /\ \A e \in LatEndpoints : LastKnown(e) /\ Spaced(alertLog[e])

LEMMA LInvInit == LatInit => LInv
  <1> SUFFICES ASSUME LatInit PROVE LInv
    OBVIOUS
  <1>1. /\ latNow = 1 /\ trackers = [e \in MappedEndpoints |-> NewTracker]
        /\ alertLog = [e \in LatEndpoints |-> << >>]
    BY DEF LatInit
  <1>2. ASSUME NEW e \in LatEndpoints PROVE LastKnown(e) /\ Spaced(alertLog[e])
    <2>1. alertLog[e] = << >> /\ << >> \in Seq(1..latNow) /\ Len(<< >>) = 0
      BY <1>1
    <2>2. e \in DOMAIN trackers => trackers[e] = NewTracker
      BY <1>1
    <2>3. NewTracker = [points |-> NewTracker.points, lastAlert |-> NewTracker.lastAlert]
          /\ NewTracker.lastAlert = 0
      BY DEF NewTracker
    <2> QED
      BY <2>1, <2>2, <2>3 DEF LastKnown, Spaced
  <1> QED
    BY <1>1, <1>2 DEF LInv, LatEndpoints

\* An alert that is due is more than a cooldown after the last.
LEMMA AlertDue ==
    ASSUME LInv, NEW e \in LatEndpoints, e \in DOMAIN trackers,
           \/ latNow > trackers[e].lastAlert + AlertCooldown
           \/ trackers[e].lastAlert = 0
    PROVE  LET log == Append(alertLog[e], latNow)
           IN Spaced(log) /\ log \in Seq(1..latNow) /\ log # << >> /\ log[Len(log)] = latNow
  <1> DEFINE old == alertLog[e]
             log == Append(old, latNow)
             n   == Len(old)
             N   == 1..latNow
  <1>a. /\ old \in Seq(N) /\ latNow \in Nat \ {0} /\ Spaced(old) /\ AlertCooldown \in Nat
        /\ trackers[e].lastAlert = IF old = << >> THEN 0 ELSE old[n]
    BY LatAssumption DEF LInv, LastKnown
  <1>b. latNow \in N /\ \A x \in N : x > 0 /\ x \in Nat
    BY <1>a
  <1> HIDE DEF old, N
  <1>1. /\ log \in Seq(N) /\ Len(log) = n + 1 /\ n \in Nat /\ log[n + 1] = latNow
        /\ \A i \in 1..n : log[i] = old[i]
        /\ old # << >> => n \in 1..n /\ old[n] \in N
    BY <1>a, <1>b
  <1>2. ASSUME NEW i \in 1..n PROVE log[i + 1] > log[i] + AlertCooldown
    <2>1. CASE i = n
      <3>1. old # << >> /\ old[n] \in N
        BY <1>1, <2>1
      <3>2. latNow > old[n] + AlertCooldown
        BY <1>a, <1>b, <3>1
      <3> QED
        BY <1>1, <2>1, <3>2
    <2>2. CASE i # n
      <3>1. i \in 1..(n - 1) /\ i + 1 \in 1..n
        BY <1>1, <2>2
      <3>2. old[i + 1] > old[i] + AlertCooldown
        BY <1>a, <3>1 DEF Spaced
      <3> QED
        BY <1>1, <3>1, <3>2
    <2> QED
      BY <2>1, <2>2
  <1>3. Spaced(log)
    <2>1. Len(log) - 1 = n
      BY <1>1
    <2> HIDE DEF log
    <2> QED
      BY <1>2, <2>1 DEF Spaced
  <1>4. log # << >>
    BY <1>1
  <1> QED
    BY <1>1, <1>3, <1>4 DEF old, N

LEMMA LInvStep == LInv /\ [LatNext]_latVars => LInv'
  <1> SUFFICES ASSUME LInv, [LatNext]_latVars PROVE LInv'
    OBVIOUS
  <1>a. latNow \in Nat \ {0} /\ DOMAIN trackers \subseteq LatEndpoints
    BY DEF LInv
  <1>k. ASSUME NEW e \in LatEndpoints, UNCHANGED latNow, alertLog'[e] = alertLog[e],
               e \in DOMAIN trackers' <=> e \in DOMAIN trackers,
               e \in DOMAIN trackers => trackers'[e] = trackers[e]
        PROVE  LastKnown(e)' /\ Spaced(alertLog'[e])
    <2>1. LastKnown(e) /\ Spaced(alertLog[e])
      BY DEF LInv
    <2> QED
      BY <1>k, <2>1 DEF LastKnown
  <1>l. ASSUME NEW e \in LatEndpoints, UNCHANGED latNow, e \in DOMAIN trackers',
               e \in DOMAIN trackers, shouldAlert(trackers[e])
                 \/ \E t : shouldAlert(t) /\ t.lastAlert = trackers[e].lastAlert,
               alertLog'[e] = Append(alertLog[e], latNow),
               NEW p, trackers'[e] = [points |-> p, lastAlert |-> latNow]
        PROVE  LastKnown(e)' /\ Spaced(alertLog'[e])
    <2>1. \/ latNow > trackers[e].lastAlert + AlertCooldown
          \/ trackers[e].lastAlert = 0
      BY <1>l DEF shouldAlert
    <2>2. /\ Spaced(alertLog'[e]) /\ alertLog'[e] \in Seq(1..latNow)
          /\ alertLog'[e] # << >> /\ alertLog'[e][Len(alertLog'[e])] = latNow
      BY <1>l, <2>1, AlertDue
    <2>3. trackers'[e].points = p /\ trackers'[e].lastAlert = latNow
      BY <1>l
    <2> QED
      BY <1>l, <2>2, <2>3 DEF LastKnown
  <1>1. CASE UNCHANGED latVars \/ startMonitoring \/ stopMonitoring
    <2>1. UNCHANGED <<latNow, trackers, alertLog>>
      BY <1>1 DEF latVars, startMonitoring, stopMonitoring
    <2> QED
      BY <2>1 DEF LInv, LastKnown
  <1>2. CASE latTick
    <2>1. latNow' = latNow + 1 /\ UNCHANGED <<trackers, alertLog>>
      BY <1>2 DEF latTick
    <2>2. ASSUME NEW e \in LatEndpoints PROVE LastKnown(e)' /\ Spaced(alertLog'[e])
      <3>1. LastKnown(e) /\ Spaced(alertLog[e])
        BY DEF LInv
      <3>2. 1..latNow \subseteq 1..latNow'
        BY <1>a, <2>1
      <3>3. alertLog[e] \in Seq(1..latNow')
        BY <3>1, <3>2, SeqWider DEF LastKnown
      <3> QED
        BY <2>1, <3>1, <3>3 DEF LastKnown
    <2> QED
      BY <1>a, <2>1, <2>2 DEF LInv
  <1>3. CASE checkSLOViolations
    <2> DEFINE es == {e \in DOMAIN trackers : shouldAlert(trackers[e])}
    <2>1. /\ UNCHANGED latNow
          /\ trackers' = [e \in DOMAIN trackers |->
                            IF e \in es THEN recordAlert(trackers[e]) ELSE trackers[e]]
          /\ alertLog' = [e \in LatEndpoints |->
                            IF e \in es THEN Append(alertLog[e], latNow) ELSE alertLog[e]]
      BY <1>3 DEF checkSLOViolations, sendAlerts
    <2>2. ASSUME NEW e \in LatEndpoints PROVE LastKnown(e)' /\ Spaced(alertLog'[e])
      <3>1. CASE e \in es
        <4>1. /\ e \in DOMAIN trackers /\ e \in DOMAIN trackers' /\ shouldAlert(trackers[e])
              /\ trackers'[e] = recordAlert(trackers[e])
              /\ alertLog'[e] = Append(alertLog[e], latNow)
          BY <2>1, <3>1
        <4>2. trackers[e] = [points |-> trackers[e].points, lastAlert |-> trackers[e].lastAlert]
          BY <4>1 DEF LInv, LastKnown
        <4>3. recordAlert(trackers[e]) = [points |-> trackers[e].points, lastAlert |-> latNow]
          BY <4>2 DEF recordAlert
        <4> QED
          BY <1>l, <2>1, <4>1, <4>3
      <3>2. CASE e \notin es
        <4>1. /\ alertLog'[e] = alertLog[e] /\ e \in DOMAIN trackers' <=> e \in DOMAIN trackers
              /\ e \in DOMAIN trackers => trackers'[e] = trackers[e]
          BY <2>1, <3>2
        <4> QED
          BY <1>k, <2>1, <4>1
      <3> QED
        BY <3>1, <3>2
    <2> QED
      BY <1>a, <2>1, <2>2 DEF LInv
  <1>4. ASSUME NEW e \in LatEndpoints, NEW slow \in BOOLEAN, recordLatency(e, slow)
        PROVE  LInv'
    <2> DEFINE known == e \in DOMAIN trackers
               was == IF known THEN trackers[e] ELSE NewTracker
               t   == addLatencyMeasurement(was, slow)
               es  == IF known /\ shouldAlert(t) THEN {e} ELSE {}
    <2>1. /\ UNCHANGED latNow
          /\ trackers' = [f \in DOMAIN trackers \cup {e} |->
                            IF f # e THEN trackers[f] ELSE IF es = {} THEN t ELSE recordAlert(t)]
          /\ IF es = {} THEN UNCHANGED alertLog ELSE sendAlerts(es)
      BY <1>4 DEF recordLatency
    <2>2. was = [points |-> was.points, lastAlert |-> was.lastAlert]
      BY DEF LInv, LastKnown, NewTracker
    <2> DEFINE pts == pruneStaleData(Append(was.points, [at |-> latNow, slow |-> slow]))
    <2>3. t = [points |-> pts, lastAlert |-> was.lastAlert]
      BY <2>2 DEF addLatencyMeasurement
    <2> HIDE DEF pts, was
    <2>4. t.lastAlert = was.lastAlert /\ t = [points |-> t.points, lastAlert |-> t.lastAlert]
          /\ recordAlert(t) = [points |-> pts, lastAlert |-> latNow]
      BY <2>3 DEF recordAlert
    <2> HIDE DEF t
    <2>5. ASSUME NEW f \in LatEndpoints, f # e PROVE LastKnown(f)' /\ Spaced(alertLog'[f])
      <3>1. alertLog'[f] = alertLog[f]
        BY <2>1, <2>5 DEF sendAlerts
      <3>2. /\ f \in DOMAIN trackers' <=> f \in DOMAIN trackers
            /\ f \in DOMAIN trackers => trackers'[f] = trackers[f]
        BY <2>1, <2>5
      <3> QED
        BY <1>k, <2>1, <3>1, <3>2
    <2>6. CASE es = {}
      <3>1. trackers'[e] = t /\ e \in DOMAIN trackers' /\ alertLog' = alertLog
        BY <2>1, <2>6
      <3>2. LastKnown(e) /\ Spaced(alertLog[e])
        BY DEF LInv
      <3>3. was.lastAlert = IF alertLog[e] = << >> THEN 0 ELSE alertLog[e][Len(alertLog[e])]
        BY <3>2 DEF was, LastKnown, NewTracker
      <3>4. LastKnown(e)'
        BY <2>1, <2>4, <3>1, <3>2, <3>3 DEF LastKnown
      <3> QED
        BY <1>a, <2>1, <2>5, <3>1, <3>2, <3>4 DEF LInv
    <2>7. CASE es # {}
      <3>1. /\ known /\ shouldAlert(t) /\ e \in DOMAIN trackers' /\ trackers'[e] = recordAlert(t)
            /\ alertLog'[e] = Append(alertLog[e], latNow) /\ was = trackers[e]
        BY <2>1, <2>7 DEF sendAlerts, was
      <3>2. LastKnown(e)' /\ Spaced(alertLog'[e])
        BY <1>l, <2>1, <2>4, <3>1
      <3> QED
        BY <1>a, <2>1, <2>5, <3>2 DEF LInv
    <2> QED
      BY <2>6, <2>7
  <1> QED
    BY <1>1, <1>2, <1>3, <1>4 DEF LatNext

LEMMA GuardsRun == [Next]_vars => [BreakerNext]_breakerVars /\ [LatNext]_latVars
  BY DEF Next, vars, guardVars, OnWebhooks, OnEmails, OnJobs, OnApy, OnBreaker, OnLatency

(* CircuitBreaker.execute: 2 * threshold - 1 failures within one window,   *)
(* with no success among them, have opened the breaker, wherever the       *)
(* windows begin; recordLatency and the timer: the alerts of an endpoint   *)
(* are more than a cooldown apart.                                         *)
THEOREM GuardsAlwaysHold == Spec => []GuardsHold
  <1>1. Init => BInv /\ LInv
    BY BInvInit, LInvInit DEF Init
  <1>2. BInv /\ LInv /\ [Next]_vars => BInv' /\ LInv'
    BY GuardsRun, BInvStep, LInvStep
  <1>3. BInv /\ LInv => GuardsHold
    BY BInvOpens DEF LInv, Spaced, AlertsSpaced, GuardsHold
  <1> QED
    BY <1>1, <1>2, <1>3, PTL DEF Spec

-----------------------------------------------------------------------------
(* The scheduled jobs *)

Backup ==
    [step : {"none", "dump", "upload", "prune", "failed", "alert"},
     attempt : 0..BackupAttempts, whole : BOOLEAN]
Metrics == [total : Nat, ok : Nat, failed : Nat, inFlight : Nat]

\* A run is counted as long as it is under way, and none is when the process is
\* down.
RunsOK ==
    /\ proc \in {"up", "cleaning", "closing", "down"}
    /\ timers \in [Schedulers -> {"off", "armed", "running"}]
    /\ backup \in Backup /\ runtime \in Metrics
    /\ timers["backup"] = "running" <=> backup.step # "none"
    /\ proc = "down" => timers["backup"] # "running"
    /\ runtime.inFlight = IF backup.step \in {"none", "alert"} THEN 0 ELSE 1
    /\ runtime.total = runtime.ok + runtime.failed + runtime.inFlight
    /\ day \in 0..MaxDays /\ conns \in 0..MaxConns /\ jobFaults \in 0..MaxJobFaults

\* What a run prunes after, it has stored today; what it took for whole is.
WholeOK ==
    /\ backup.step \in {"upload", "prune"} => backup.whole \/ truncated
    /\ backup.step = "prune" => [day |-> day, whole |-> backup.whole] \in stored

JInv == RunsOK /\ WholeOK

LEMMA JInvInit == JobInit => JInv
  <1> SUFFICES ASSUME JobInit PROVE JInv
    OBVIOUS
  <1>1. NoBackup \in Backup /\ NoBackup.step = "none"
    BY JobAssumption DEF NoBackup, Backup
  <1>2. NoRuns \in Metrics /\ NoRuns.inFlight = 0 /\ NoRuns.total = 0 /\ NoRuns.ok = 0
        /\ NoRuns.failed = 0
    BY DEF NoRuns, Metrics
  <1>3. Armed \in [Schedulers -> {"off", "armed", "running"}] /\ Armed["backup"] = "armed"
    BY DEF Armed, Schedulers
  <1> QED
    BY <1>1, <1>2, <1>3, JobAssumption DEF JobInit, JInv, RunsOK, WholeOK

LEMMA ExitStep ==
    ASSUME JInv, Exit, jobFaults' \in 0..MaxJobFaults
    PROVE  JInv'
  <1>1. NoBackup \in Backup /\ NoBackup.step = "none"
    BY JobAssumption DEF NoBackup, Backup
  <1>2. NoRuns \in Metrics /\ NoRuns.inFlight = 0 /\ NoRuns.total = 0 /\ NoRuns.ok = 0
        /\ NoRuns.failed = 0
    BY DEF NoRuns, Metrics
  <1>3. timers' \in [Schedulers -> {"off", "armed", "running"}] /\ timers'["backup"] = "off"
    BY DEF Exit, Schedulers
  <1> QED
    BY <1>1, <1>2, <1>3, JobAssumption DEF Exit, JInv, RunsOK, WholeOK

\* Steps on the process, the clock, the connections and the other scheduler.
LEMMA AroundStep ==
    ASSUME JInv, UNCHANGED <<backup, runtime, stored, truncated>>,
           proc' \in {"up", "cleaning", "closing", "down"},
           timers' \in [Schedulers -> {"off", "armed", "running"}],
           timers'["backup"] = "running" <=> timers["backup"] = "running",
           proc' = "down" => timers["backup"] # "running",
           day' \in 0..MaxDays, conns' \in 0..MaxConns, jobFaults' \in 0..MaxJobFaults,
           day' = day \/ backup.step # "prune"
    PROVE  JInv'
  BY DEF JInv, RunsOK, WholeOK

\* Steps of a backup that is under way.
LEMMA RunningStep ==
    ASSUME JInv, Alive, backup.step # "none", backup' \in Backup, backup'.step # "none",
           runtime' \in Metrics,
           runtime'.inFlight = IF backup'.step = "alert" THEN 0 ELSE 1,
           runtime'.total = runtime'.ok + runtime'.failed + runtime'.inFlight,
           jobFaults' \in 0..MaxJobFaults, UNCHANGED <<proc, timers, day, conns>>, WholeOK'
    PROVE  JInv'
  BY DEF JInv, RunsOK, Alive

LEMMA JobSteps ==
    ASSUME JInv, jobStep
    PROVE  JInv'
  <1>a. /\ backup \in Backup /\ runtime \in Metrics
        /\ (timers["backup"] = "running" <=> backup.step # "none")
        /\ timers \in [Schedulers -> {"off", "armed", "running"}]
        /\ runtime.inFlight = (IF backup.step \in {"none", "alert"} THEN 0 ELSE 1)
        /\ runtime.total = runtime.ok + runtime.failed + runtime.inFlight
        /\ jobFaults \in 0..MaxJobFaults /\ conns \in 0..MaxConns /\ day \in 0..MaxDays
        /\ proc \in {"up", "cleaning", "closing", "down"} /\ MaxJobFaults \in Nat
    BY JobAssumption DEF JInv, RunsOK
  <1>f. JobFault => jobFaults' \in 0..MaxJobFaults
    BY <1>a DEF JobFault
  <1>t. /\ runtime.total \in Nat /\ runtime.ok \in Nat /\ runtime.failed \in Nat
        /\ runtime.inFlight \in Nat
    BY <1>a DEF Metrics
  <1>1. ASSUME NEW ok \in BOOLEAN, startApySnapshotScheduler(ok) PROVE JInv'
    <2>1. CASE ok
      <3>1. /\ timers' = [timers EXCEPT !["apy"] = "armed"] /\ Alive
            /\ UNCHANGED <<proc, backup, runtime, stored, day, conns, truncated, jobFaults>>
        BY <1>1, <2>1 DEF startApySnapshotScheduler
      <3>2. timers' \in [Schedulers -> {"off", "armed", "running"}]
            /\ timers'["backup"] = timers["backup"]
        BY <1>a, <3>1 DEF Schedulers
      <3> QED
        BY <1>a, <3>1, <3>2, AroundStep DEF Alive
    <2>2. CASE ~ok
      BY <1>1, <1>f, <2>2, ExitStep DEF startApySnapshotScheduler
    <2> QED
      BY <2>1, <2>2
  <1>2. ASSUME NEW o \in {"whole", "failed", "truncated"}, dumpDatabase(o) PROVE JInv'
    <2> DEFINE b == [backup EXCEPT !.step = IF o = "failed" THEN "failed" ELSE "upload",
                                   !.whole = o = "whole"]
    <2>1. /\ Alive /\ backup.step = "dump" /\ backup' = b
          /\ truncated' = (truncated \/ o = "truncated")
          /\ UNCHANGED <<proc, timers, runtime, day, conns, stored>>
      BY <1>2 DEF dumpDatabase, BackupStep, BackupOnly
    <2>2. jobFaults' \in 0..MaxJobFaults
      BY <1>2, <1>a, <1>f DEF dumpDatabase
    <2>3. /\ b \in Backup /\ b.step = (IF o = "failed" THEN "failed" ELSE "upload")
          /\ (b.whole <=> o = "whole")
      BY <1>a DEF Backup
    <2> HIDE DEF b
    <2>4. WholeOK'
      BY <2>1, <2>3 DEF WholeOK
    <2> QED
      BY <1>a, <2>1, <2>2, <2>3, <2>4, RunningStep
  <1>3. ASSUME NEW ok \in BOOLEAN, uploadBackup(ok) PROVE JInv'
    <2> DEFINE b == [backup EXCEPT !.step = IF ok THEN "prune" ELSE "failed"]
    <2>1. /\ Alive /\ backup.step = "upload" /\ backup' = b
          /\ stored' = (IF ok THEN stored \cup {[day |-> day, whole |-> backup.whole]} ELSE stored)
          /\ UNCHANGED <<proc, timers, runtime, day, conns, truncated>>
      BY <1>3 DEF uploadBackup, BackupStep, BackupOnly
    <2>2. jobFaults' \in 0..MaxJobFaults
      BY <1>3, <1>a, <1>f DEF uploadBackup
    <2>3. /\ b \in Backup /\ b.step = (IF ok THEN "prune" ELSE "failed")
          /\ b.whole = backup.whole
      BY <1>a DEF Backup
    <2> HIDE DEF b
    <2>4. WholeOK'
      BY <2>1, <2>3 DEF JInv, WholeOK
    <2> QED
      BY <1>a, <2>1, <2>2, <2>3, <2>4, RunningStep
  <1>4. ASSUME markCompleted(TRUE) \/ markCompleted(FALSE),
               backup.step \notin {"none", "alert"}
        PROVE  /\ runtime' \in Metrics /\ runtime'.inFlight = 0
               /\ runtime'.total = runtime'.ok + runtime'.failed + runtime'.inFlight
    <2>1. ASSUME NEW a \in {0, 1}, NEW c \in {0, 1}, a + c = 1,
                 runtime' = [runtime EXCEPT !.inFlight = @ - 1, !.ok = @ + a, !.failed = @ + c]
          PROVE  /\ runtime' \in Metrics /\ runtime'.inFlight = 0
                 /\ runtime'.total = runtime'.ok + runtime'.failed + runtime'.inFlight
      <3>1. runtime' = [total |-> runtime.total, ok |-> runtime.ok + a,
                        failed |-> runtime.failed + c, inFlight |-> runtime.inFlight - 1]
        BY <1>a, <2>1 DEF Metrics
      <3>2. /\ runtime'.total = runtime.total /\ runtime'.ok = runtime.ok + a
            /\ runtime'.failed = runtime.failed + c /\ runtime'.inFlight = runtime.inFlight - 1
        BY <3>1
      <3>3. runtime.inFlight = 1
        BY <1>a, <1>4
      <3>4. runtime.ok + a \in Nat /\ runtime.failed + c \in Nat /\ runtime.inFlight - 1 \in Nat
        BY <1>t, <2>1, <3>3
      <3>5. runtime' \in Metrics
        BY <1>t, <3>1, <3>4 DEF Metrics
      <3> QED
        BY <1>a, <1>t, <2>1, <3>2, <3>3, <3>5
    <2>2. CASE markCompleted(TRUE)
      BY <2>1, <2>2 DEF markCompleted
    <2>3. CASE markCompleted(FALSE)
      BY <2>1, <2>3 DEF markCompleted
    <2> QED
      BY <1>4, <2>2, <2>3
  <1>5. ASSUME ReArm, Alive, runtime' \in Metrics, runtime'.inFlight = 0,
               runtime'.total = runtime'.ok + runtime'.failed + runtime'.inFlight,
               UNCHANGED <<proc, day, conns, jobFaults>>
        PROVE  JInv'
    <2>1. NoBackup \in Backup /\ NoBackup.step = "none"
      BY JobAssumption DEF NoBackup, Backup
    <2>2. /\ backup' = NoBackup /\ timers' \in [Schedulers -> {"off", "armed", "running"}]
          /\ timers'["backup"] = "armed"
      BY <1>a, <1>5 DEF ReArm, Schedulers
    <2> QED
      BY <1>a, <1>5, <2>1, <2>2 DEF JInv, RunsOK, WholeOK, Alive
  <1>6. ASSUME NEW ok \in BOOLEAN, pruneOldBackups(ok) PROVE JInv'
    <2>1. Alive /\ backup.step = "prune" /\ UNCHANGED <<proc, day, conns, truncated>>
      BY <1>6 DEF pruneOldBackups, BackupStep
    <2>2. CASE ok
      <3>1. markCompleted(TRUE) /\ ReArm /\ UNCHANGED jobFaults
        BY <1>6, <2>2 DEF pruneOldBackups
      <3> QED
        BY <1>4, <1>5, <2>1, <3>1
    <2>3. CASE ~ok
      <3> DEFINE b == [backup EXCEPT !.step = "failed"]
      <3>1. backup' = b /\ JobFault /\ UNCHANGED <<runtime, timers>>
        BY <1>6, <2>3 DEF pruneOldBackups
      <3>2. b \in Backup /\ b.step = "failed"
        BY <1>a DEF Backup
      <3> HIDE DEF b
      <3>3. WholeOK'
        BY <3>1, <3>2 DEF WholeOK
      <3> QED
        BY <1>a, <1>f, <2>1, <3>1, <3>2, <3>3, RunningStep
    <2> QED
      BY <2>2, <2>3
  <1>7. ASSUME runJobWithRetry PROVE JInv'
    <2>1. /\ Alive /\ backup.step = "failed"
          /\ UNCHANGED <<proc, timers, stored, day, conns, truncated, jobFaults>>
      BY <1>7 DEF runJobWithRetry, BackupStep
    <2>2. CASE retries(backup.attempt)
      <3> DEFINE b == [step |-> "dump", attempt |-> backup.attempt + 1, whole |-> TRUE]
      <3>1. backup' = b /\ UNCHANGED runtime
        BY <1>7, <2>2 DEF runJobWithRetry
      <3>2. backup.attempt + 1 \in 0..BackupAttempts
        <4>1. backup.attempt \in 0..BackupAttempts
          BY <1>a DEF Backup
        <4> QED
          BY <2>2, <4>1, JobAssumption DEF retries
      <3>3. b \in Backup /\ b.step = "dump"
        BY <3>2 DEF Backup
      <3> HIDE DEF b
      <3>4. WholeOK'
        BY <3>1, <3>3 DEF WholeOK
      <3> QED
        BY <1>a, <2>1, <3>1, <3>3, <3>4, RunningStep
    <2>3. CASE ~retries(backup.attempt)
      <3> DEFINE b == [backup EXCEPT !.step = "alert"]
      <3>1. backup' = b /\ markCompleted(FALSE)
        BY <1>7, <2>3 DEF runJobWithRetry
      <3>2. b \in Backup /\ b.step = "alert"
        BY <1>a DEF Backup
      <3> HIDE DEF b
      <3>3. WholeOK'
        BY <3>1, <3>2 DEF WholeOK
      <3>4. /\ runtime' \in Metrics /\ runtime'.inFlight = 0
            /\ runtime'.total = runtime'.ok + runtime'.failed + runtime'.inFlight
        BY <1>4, <2>1, <3>1
      <3> QED
        BY <1>a, <2>1, <3>1, <3>2, <3>3, <3>4, RunningStep
    <2> QED
      BY <2>2, <2>3
  <1>8. ASSUME NEW ok \in BOOLEAN, sendBackupFailureAlert(ok) PROVE JInv'
    <2>1. Alive /\ backup.step = "alert"
      BY <1>8 DEF sendBackupFailureAlert, BackupStep
    <2>2. CASE ok
      BY <1>8, <1>a, <1>5, <2>1, <2>2 DEF sendBackupFailureAlert
    <2>3. CASE ~ok
      BY <1>8, <1>f, <2>3, ExitStep DEF sendBackupFailureAlert
    <2> QED
      BY <2>2, <2>3
  <1> QED
    BY <1>1, <1>2, <1>3, <1>6, <1>7, <1>8 DEF jobStep

LEMMA JInvStep == JInv /\ [JobNext]_jobVars => JInv'
  <1> SUFFICES ASSUME JInv, [JobNext]_jobVars PROVE JInv'
    OBVIOUS
  <1>a. /\ timers \in [Schedulers -> {"off", "armed", "running"}] /\ backup \in Backup
        /\ runtime \in Metrics /\ day \in 0..MaxDays /\ conns \in 0..MaxConns
        /\ jobFaults \in 0..MaxJobFaults /\ MaxDays \in Nat /\ MaxConns \in Nat
        /\ proc \in {"up", "cleaning", "closing", "down"}
        /\ timers["backup"] = "running" <=> backup.step # "none"
        /\ proc = "down" => timers["backup"] # "running"
    BY JobAssumption DEF JInv, RunsOK
  <1>1. CASE UNCHANGED jobVars
    BY <1>1 DEF jobVars, JInv, RunsOK, WholeOK
  <1>2. CASE fireApy
    <2>1. /\ timers' = [timers EXCEPT !["apy"] = "running"] /\ Alive
          /\ UNCHANGED <<proc, backup, runtime, stored, day, conns, truncated, jobFaults>>
      BY <1>2 DEF fireApy
    <2>2. timers' \in [Schedulers -> {"off", "armed", "running"}]
          /\ timers'["backup"] = timers["backup"]
      BY <1>a, <2>1 DEF Schedulers
    <2> QED
      BY <1>a, <2>1, <2>2, AroundStep DEF Alive
  <1>3. CASE fireBackup
    <2> DEFINE b == [step |-> "dump", attempt |-> 1, whole |-> TRUE]
    <2>1. /\ Alive /\ timers["backup"] = "armed" /\ backup' = b
          /\ timers' = [timers EXCEPT !["backup"] = "running"]
          /\ runtime' = [runtime EXCEPT !.total = @ + 1, !.inFlight = @ + 1]
          /\ UNCHANGED <<proc, stored, day, conns, truncated, jobFaults>>
      BY <1>3 DEF fireBackup
    <2>2. b \in Backup /\ b.step = "dump"
      BY JobAssumption DEF Backup
    <2>3. /\ runtime.inFlight = 0 /\ runtime.total \in Nat /\ runtime.ok \in Nat
          /\ runtime.failed \in Nat
          /\ runtime.total = runtime.ok + runtime.failed + runtime.inFlight
      BY <1>a, <2>1 DEF JInv, RunsOK, Metrics
    <2>4. /\ runtime' \in Metrics /\ runtime'.inFlight = 1 /\ runtime'.total = runtime.total + 1
          /\ runtime'.ok = runtime.ok /\ runtime'.failed = runtime.failed
      <3>1. runtime' = [total |-> runtime.total + 1, ok |-> runtime.ok,
                        failed |-> runtime.failed, inFlight |-> runtime.inFlight + 1]
        BY <1>a, <2>1 DEF Metrics
      <3> QED
        BY <2>3, <3>1 DEF Metrics
    <2>5. timers' \in [Schedulers -> {"off", "armed", "running"}] /\ timers'["backup"] = "running"
      BY <1>a, <2>1 DEF Schedulers
    <2> HIDE DEF b
    <2>6. WholeOK'
      BY <2>1, <2>2 DEF WholeOK
    <2>7. runtime'.total = runtime'.ok + runtime'.failed + runtime'.inFlight
      BY <2>3, <2>4
    <2> QED
      BY <1>a, <2>1, <2>2, <2>4, <2>5, <2>6, <2>7 DEF JInv, RunsOK, Alive
  <1>4. CASE jobStep
    BY <1>4, JobSteps
  <1>5. CASE shutdown
    <2>1. /\ proc' = "cleaning" /\ timers' = stopSchedulers
          /\ UNCHANGED <<backup, runtime, stored, day, conns, truncated, jobFaults>>
      BY <1>5 DEF shutdown
    <2>2. timers' \in [Schedulers -> {"off", "armed", "running"}]
          /\ (timers'["backup"] = "running" <=> timers["backup"] = "running")
      BY <1>a, <2>1 DEF stopSchedulers, Schedulers
    <2> QED
      BY <1>a, <2>1, <2>2, AroundStep
  <1>6. CASE cleanupDone \/ connection \/ connectionClosed \/ newDay
    <2>1. /\ UNCHANGED <<backup, runtime, stored, truncated, timers, jobFaults>>
          /\ proc' = proc \/ proc' = "closing"
          /\ day' \in 0..MaxDays /\ conns' \in 0..MaxConns /\ (day' = day \/ backup.step # "prune")
      BY <1>6, <1>a DEF cleanupDone, connection, connectionClosed, newDay
    <2> QED
      BY <1>a, <2>1, AroundStep
  <1>7. CASE serverClosed \/ drainTimeout \/ shutdownAgain
    BY <1>7, <1>a, ExitStep DEF serverClosed, drainTimeout, shutdownAgain
  <1>8. CASE restart
    <2>1. /\ proc = "down" /\ proc' = "up" /\ timers' = Armed
          /\ UNCHANGED <<backup, runtime, stored, day, conns, truncated, jobFaults>>
      BY <1>8 DEF restart
    <2>2. timers' \in [Schedulers -> {"off", "armed", "running"}] /\ timers'["backup"] = "armed"
      BY <2>1 DEF Armed, Schedulers
    <2> QED
      BY <1>a, <2>1, <2>2, AroundStep
  <1> QED
    BY <1>1, <1>2, <1>3, <1>4, <1>5, <1>6, <1>7, <1>8 DEF JobNext

\* No step of a job takes the last whole backup away.
LEMMA BackupsKept ==
    ASSUME JInv, [JobNext]_jobVars, NEW b \in stored, b.whole
    PROVE  truncated' \/ \E c \in stored' : c.whole
  <1>1. CASE stored \subseteq stored'
    BY <1>1
  <1>2. ASSUME NEW ok \in BOOLEAN, pruneOldBackups(ok)
        PROVE  truncated' \/ \E c \in stored' : c.whole
    <2> DEFINE c == [day |-> day, whole |-> backup.whole]
    <2>1. backup.step = "prune" /\ truncated' = truncated
      BY <1>2 DEF pruneOldBackups, BackupStep
    <2>2. c \in stored /\ (backup.whole \/ truncated) /\ c.day = day /\ c.whole = backup.whole
          /\ day \in Nat
      BY <2>1, JobAssumption DEF JInv, WholeOK, RunsOK
    <2> HIDE DEF c
    <2>3. c \notin pastRetention
      BY <2>2, JobAssumption DEF pastRetention
    <2>4. c \in stored'
      BY <1>2, <2>2, <2>3 DEF pruneOldBackups, pruned
    <2> QED
      BY <2>1, <2>2, <2>4
  <1>3. ASSUME jobStep, \A ok \in BOOLEAN : ~pruneOldBackups(ok) PROVE stored \subseteq stored'
    BY <1>3 DEF jobStep, startApySnapshotScheduler, uploadBackup, sendBackupFailureAlert,
       dumpDatabase, runJobWithRetry, Exit
  <1>4. CASE [JobNext]_jobVars /\ ~jobStep
    <2>1. stored' = stored
      BY <1>4 DEF JobNext, jobVars, fireApy, fireBackup, shutdown, cleanupDone, serverClosed,
         drainTimeout, shutdownAgain, connection, connectionClosed, restart, newDay, Exit
    <2> QED
      BY <2>1, <1>1
  <1> QED
    BY <1>1, <1>2, <1>3, <1>4

-----------------------------------------------------------------------------
(* The APY snapshots *)

\* A set of numbers has a least one.
LEMMA LeastOf ==
    ASSUME NEW T, T \subseteq Nat, T # {}
    PROVE  First(T) \in T
  <1> DEFINE R == {ss \in Nat \X Nat : ss[1] < ss[2]}
  <1>1. IsWellFoundedOn(R, Nat)
    BY NatLessThanWellFounded DEF OpToRel
  <1>2. \A x, y \in Nat : y < x => <<y, x>> \in R
    OBVIOUS
  <1> HIDE DEF R
  <1>3. PICK x \in T : \A y \in T : ~(<<y, x>> \in R)
    BY <1>1, WFMin
  <1>4. ASSUME NEW y \in T PROVE x <= y
    <2>1. x \in Nat /\ y \in Nat /\ ~(<<y, x>> \in R)
      BY <1>3
    <2>2. ~(y < x)
      BY <1>2, <2>1
    <2> QED
      BY <2>1, <2>2
  <1> QED
    BY <1>4 DEF First

ATask == [at : {"idle", "scan", "upsert", "store", "delete", "forget"}, date : Nat, last : Nat,
          existing : SUBSET ApyDates, value : Nat, since : Nat]

\* A backfill knows every date of the table whose value is not younger than
\* its scan, and goes to one that it does not know.
TaskOK(t, r) ==
    /\ r.at \in {"upsert", "store"} => r.date \in ApyDates
    /\ t \in Backfills /\ r.at \in {"scan", "upsert", "store"} =>
         /\ r.since <= apyWrites
         /\ \A d \in DOMAIN apyTable : d \in r.existing \/ apyTable[d] > r.since
    /\ t \in Backfills /\ r.at = "upsert" => r.date \notin r.existing

\* What a task is about to copy is in the table.
CopyOK == \A t \in ApyTasks : apyTasks[t].at = "store" =>
            \/ apyTasks[t].date \in apyRaced
            \/ /\ apyTasks[t].date \in DOMAIN apyTable
               /\ apyTable[apyTasks[t].date] = apyTasks[t].value

\* The table, and what is shown of it: a date that a state does not have was
\* written after the last write in it.
Rows == UNION {[D -> Nat] : D \in SUBSET ApyDates}
Shown == [rows : Rows, seen : Nat]

RowsOK(s) ==
    /\ s.seen <= apyWrites
    /\ \A d \in DOMAIN apyTable : d \in DOMAIN s.rows \/ apyTable[d] > s.seen

ReplicaOK ==
    /\ apyTable \in Rows /\ apyReads \in [ApyReaders -> Rows]
    /\ apyReplica \in Seq(Shown) /\ apyReplica # << >>
    /\ \A i \in DOMAIN apyReplica : RowsOK(apyReplica[i])

AInv ==
    /\ ReplicaOK
    /\ apyTasks \in [ApyTasks -> ATask] /\ apyTasks["nightly"].at # "scan"
    /\ DOMAIN apyTable \subseteq ApyDates /\ DOMAIN apyLocal \subseteq ApyDates
    /\ today \in ApyDates /\ apyWrites \in 0..MaxApyWrites
    /\ \A d \in DOMAIN apyTable : apyTable[d] \in Nat /\ apyTable[d] <= apyWrites
    /\ \A t \in ApyTasks : TaskOK(t, apyTasks[t])
    /\ CopyOK /\ CopyFollowsTable

LEMMA ApyDatesNat == ApyDates \subseteq Nat
  BY ApyAssumption, FS_CardinalityType

LEMMA NoTaskOK == NoTask \in ATask /\ NoTask.at = "idle"
  BY DEF NoTask, ATask

LEMMA NoRows == << >> \in Rows /\ DOMAIN << >> = {}
  <1>1. << >> \in [{} -> Nat]
    OBVIOUS
  <1> QED
    BY <1>1 DEF Rows

LEMMA RowsAre ==
    ASSUME NEW f \in Rows
    PROVE  /\ DOMAIN f \subseteq ApyDates /\ f = [d \in DOMAIN f |-> f[d]]
           /\ \A d \in DOMAIN f : f[d] \in Nat
  <1>1. PICK D \in SUBSET ApyDates : f \in [D -> Nat]
    BY DEF Rows
  <1> QED
    BY <1>1

\* What makes rows.
LEMMA RowsMade ==
    ASSUME NEW D \in SUBSET ApyDates, NEW g, \A d \in D : g[d] \in Nat
    PROVE  [d \in D |-> g[d]] \in Rows
  <1>1. [d \in D |-> g[d]] \in [D -> Nat]
    OBVIOUS
  <1> QED
    BY <1>1 DEF Rows

LEMMA UpsertedRows ==
    ASSUME NEW f \in Rows, NEW d \in ApyDates, NEW v \in Nat
    PROVE  Upserted(f, d, v) \in Rows
  <1>1. DOMAIN f \cup {d} \in SUBSET ApyDates /\ \A e \in DOMAIN f : f[e] \in Nat
    BY RowsAre
  <1>2. Upserted(f, d, v) \in [DOMAIN f \cup {d} -> Nat]
    BY <1>1 DEF Upserted
  <1> QED
    BY <1>1, <1>2 DEF Rows

LEMMA WithoutRows ==
    ASSUME NEW f \in Rows, NEW ds
    PROVE  Without(f, ds) \in Rows
  <1>1. DOMAIN f \ ds \in SUBSET ApyDates /\ \A e \in DOMAIN f : f[e] \in Nat
    BY RowsAre
  <1>2. Without(f, ds) \in [DOMAIN f \ ds -> Nat]
    BY <1>1 DEF Without
  <1> QED
    BY <1>1, <1>2 DEF Rows

\* A change of the table is put behind the states the replica has to go through.
LEMMA TableWritten ==
    ASSUME ReplicaOK, NEW rows \in Rows, NEW seen \in Nat, writesTable(rows, seen)
    PROVE  /\ apyReplica' \in Seq(Shown) /\ apyReplica' # << >> /\ apyTable' = rows
           /\ \A i \in DOMAIN apyReplica' :
                \/ apyReplica'[i] = [rows |-> rows, seen |-> seen]
                \/ \E j \in DOMAIN apyReplica : apyReplica'[i] = apyReplica[j]
  <1> DEFINE p == [rows |-> rows, seen |-> seen]
  <1>1. p \in Shown /\ apyReplica \in Seq(Shown) /\ apyTable' = rows
    BY DEF Shown, ReplicaOK, writesTable
  <1>2. apyReplica' = Append(apyReplica, p)
    BY DEF writesTable
  <1> HIDE DEF p
  <1>3. \A i \in DOMAIN apyReplica' : apyReplica'[i] = p \/ \E j \in DOMAIN apyReplica : apyReplica'[i] = apyReplica[j]
    BY <1>1, <1>2
  <1> QED
    BY <1>1, <1>2, <1>3 DEF p

\* What a SELECT is answered with.
LEMMA AnswerOK ==
    ASSUME AInv, NEW s \in {Head(apyReplica), Present}
    PROVE  s \in Shown /\ RowsOK(s)
  <1>1. CASE s = Head(apyReplica)
    <2>1. apyReplica \in Seq(Shown) /\ 1 \in DOMAIN apyReplica /\ s = apyReplica[1]
      BY <1>1 DEF AInv, ReplicaOK
    <2> QED
      BY <2>1 DEF AInv, ReplicaOK
  <1>2. CASE s = Present
    <2>1. s \in Shown /\ s.seen = apyWrites /\ s.rows = apyTable /\ apyWrites \in Nat
      BY <1>2, ApyAssumption DEF AInv, ReplicaOK, Present, Shown
    <2> QED
      BY <2>1 DEF RowsOK
  <1> QED
    BY <1>1, <1>2

LEMMA AInvInit == ApyInit => AInv
  <1> SUFFICES ASSUME ApyInit PROVE AInv
    OBVIOUS
  <1>1. apyTasks = [t \in ApyTasks |-> NoTask] /\ apyTable = << >> /\ apyLocal = << >>
        /\ today \in ApyDates /\ apyWrites \in 0..MaxApyWrites
    BY ApyAssumption DEF ApyInit
  <1>2. \A t \in ApyTasks : apyTasks[t] = NoTask
    BY <1>1
  <1>3. apyTasks \in [ApyTasks -> ATask] /\ "nightly" \in ApyTasks
    BY <1>1, NoTaskOK DEF ApyTasks
  <1>4. DOMAIN apyTable = {} /\ DOMAIN apyLocal = {}
    BY <1>1
  <1>7. ReplicaOK
    <2>1. /\ apyReplica = << [rows |-> << >>, seen |-> 0] >> /\ apyWrites = 0
          /\ apyReads = [r \in ApyReaders |-> << >>]
      BY DEF ApyInit
    <2>2. apyReads \in [ApyReaders -> Rows] /\ apyTable \in Rows
      BY <1>1, <2>1, NoRows
    <2>3. [rows |-> << >>, seen |-> 0] \in Shown
      BY NoRows DEF Shown
    <2>4. apyReplica \in Seq(Shown) /\ apyReplica # << >> /\ DOMAIN apyReplica = {1}
      BY <2>1, <2>3
    <2>5. apyReplica[1].seen = 0
      BY <2>1
    <2>6. RowsOK(apyReplica[1])
      BY <1>4, <2>1, <2>5 DEF RowsOK
    <2> QED
      BY <2>2, <2>4, <2>6 DEF ReplicaOK
  <1>5. \A t \in ApyTasks : TaskOK(t, apyTasks[t])
    BY <1>2, NoTaskOK DEF TaskOK
  <1>6. CopyOK /\ CopyFollowsTable
    BY <1>2, <1>4, NoTaskOK DEF CopyOK, CopyFollowsTable
  <1> QED
    BY <1>1, <1>2, <1>3, <1>4, <1>5, <1>6, <1>7, NoTaskOK DEF AInv

\* A task moves between steps that leave the table and the copy alone.
LEMMA TaskStep ==
    ASSUME AInv, NEW t \in ApyTasks, NEW r \in ATask, SetTask(t, r),
           UNCHANGED <<apyTable, apyReplica, apyLocal, today, apyReads, apyWrites, apyRaced>>,
           apyTasks[t].at \notin {"store", "forget"}, r.at \notin {"store", "forget"},
           t = "nightly" => r.at # "scan", TaskOK(t, r)
    PROVE  AInv'
  <1>1. /\ apyTasks' \in [ApyTasks -> ATask] /\ apyTasks'[t] = r
        /\ \A u \in ApyTasks : u # t => apyTasks'[u] = apyTasks[u]
    BY DEF AInv, SetTask
  <1>2. apyTasks'["nightly"].at # "scan" /\ "nightly" \in ApyTasks
    BY <1>1 DEF AInv, ApyTasks
  <1>3. \A u \in ApyTasks : TaskOK(u, apyTasks'[u])
    BY <1>1 DEF AInv
  <1>4. \A u \in ApyTasks : TaskOK(u, apyTasks[u])'
    BY <1>3 DEF TaskOK
  <1>5. CopyOK'
    BY <1>1 DEF AInv, CopyOK
  <1>6. \A d : Storing(d)' = Storing(d)
    BY <1>1 DEF Storing
  <1>7. apyTasks["nightly"].at = "forget" => apyTasks'["nightly"] = apyTasks["nightly"]
    BY <1>1, <1>2
  <1>8. CopyFollowsTable'
    BY <1>6, <1>7 DEF AInv, CopyFollowsTable, Pruned
  <1>9. ReplicaOK'
    BY DEF AInv, ReplicaOK, RowsOK
  <1> QED
    BY <1>1, <1>2, <1>4, <1>5, <1>8, <1>9 DEF AInv

LEMMA FailsStep ==
    ASSUME AInv, NEW t \in ApyTasks, queryFails(t)
    PROVE  AInv'
  <1>1. /\ SetTask(t, NoTask) /\ apyTasks[t].at \notin {"store", "forget"}
        /\ UNCHANGED <<apyTable, apyReplica, apyLocal, today, apyReads, apyWrites, apyRaced>>
    BY DEF queryFails
  <1>2. TaskOK(t, NoTask)
    BY NoTaskOK DEF TaskOK
  <1>3. NoTask \in ATask /\ NoTask.at \notin {"store", "forget"} /\ NoTask.at # "scan"
    BY NoTaskOK
  <1> QED
    BY <1>1, <1>2, <1>3, TaskStep

LEMMA NightlyStep == AInv /\ runApySnapshotJob => AInv'
  <1> SUFFICES ASSUME AInv, runApySnapshotJob PROVE AInv'
    OBVIOUS
  <1> DEFINE r == [NoTask EXCEPT !.at = "upsert", !.date = today, !.last = today]
  <1>1. /\ SetTask("nightly", r) /\ apyTasks["nightly"].at = "idle" /\ "nightly" \in ApyTasks
        /\ UNCHANGED <<apyTable, apyReplica, apyLocal, today, apyReads, apyWrites, apyRaced>>
    BY DEF runApySnapshotJob, ApyTasks
  <1>2. today \in ApyDates /\ today \in Nat
    BY ApyDatesNat DEF AInv
  <1>3. r \in ATask /\ r.at = "upsert" /\ r.date = today
    BY <1>2 DEF ATask, NoTask
  <1> HIDE DEF r
  <1>4. TaskOK("nightly", r)
    BY <1>2, <1>3, ApyAssumption DEF TaskOK
  <1> QED
    BY <1>1, <1>3, <1>4, TaskStep

LEMMA BackfillStep ==
    ASSUME AInv, NEW t \in ApyTasks, NEW from \in ApyDates, NEW to \in ApyDates,
           backfillApySnapshots(t, from, to)
    PROVE  AInv'
  <1>1. PICK s \in {Head(apyReplica), Present} :
           SetTask(t, [NoTask EXCEPT !.at = "scan", !.date = from, !.last = to,
                                     !.existing = DOMAIN s.rows, !.since = s.seen])
    BY DEF backfillApySnapshots
  <1> DEFINE r == [NoTask EXCEPT !.at = "scan", !.date = from, !.last = to,
                                 !.existing = DOMAIN s.rows, !.since = s.seen]
  <1>2. /\ SetTask(t, r) /\ apyTasks[t].at = "idle" /\ t \in Backfills
        /\ UNCHANGED <<apyTable, apyReplica, apyLocal, today, apyReads, apyWrites, apyRaced>>
    BY <1>1 DEF backfillApySnapshots
  <1>3. s \in Shown /\ RowsOK(s)
    BY AnswerOK
  <1>4. DOMAIN s.rows \in SUBSET ApyDates /\ s.seen \in Nat /\ from \in Nat /\ to \in Nat
    BY <1>3, RowsAre, ApyDatesNat DEF Shown
  <1>5. r \in ATask /\ r.at = "scan" /\ r.existing = DOMAIN s.rows /\ r.since = s.seen
    BY <1>4 DEF ATask, NoTask
  <1> HIDE DEF r
  <1>6. TaskOK(t, r) /\ t # "nightly"
    BY <1>2, <1>3, <1>5, ApyAssumption DEF TaskOK, RowsOK
  <1> QED
    BY <1>2, <1>5, <1>6, TaskStep

LEMMA MissingDate ==
    ASSUME NEW from, NEW to, NEW known, missing(from, to, known) # {}
    PROVE  /\ First(missing(from, to, known)) \in ApyDates
           /\ First(missing(from, to, known)) \notin known
  <1> DEFINE left == missing(from, to, known)
  <1>1. left \subseteq ApyDates /\ left \subseteq Nat
    BY ApyDatesNat DEF missing
  <1>2. First(left) \in left
    <2>1. left \subseteq Nat /\ left # {}
      BY <1>1
    <2> HIDE DEF left
    <2> QED
      BY <2>1, LeastOf
  <1> QED
    BY <1>1, <1>2 DEF missing

LEMMA ScannedStep ==
    ASSUME AInv, NEW t \in ApyTasks, backfillScanned(t)
    PROVE  AInv'
  <1> DEFINE q == apyTasks[t]
             known == q.existing \cup DOMAIN apyLocal
             left == missing(q.date, q.last, known)
             r == [q EXCEPT !.at = "upsert", !.existing = known, !.date = First(left)]
  <1>1. /\ SetTask(t, IF left = {} THEN NoTask ELSE r) /\ q.at = "scan"
        /\ UNCHANGED <<apyTable, apyReplica, apyLocal, today, apyReads, apyWrites, apyRaced>>
    BY DEF backfillScanned
  <1>2. q \in ATask /\ TaskOK(t, q) /\ t # "nightly"
    BY <1>1 DEF AInv
  <1>3. t \in Backfills
    BY <1>2 DEF ApyTasks
  <1>4. CASE left = {}
    <2>1. SetTask(t, NoTask)
      BY <1>1, <1>4
    <2>2. TaskOK(t, NoTask)
      BY NoTaskOK DEF TaskOK
    <2>3. NoTask \in ATask /\ NoTask.at \notin {"store", "forget"} /\ NoTask.at # "scan"
      BY NoTaskOK
    <2> QED
      BY <1>1, <2>1, <2>2, <2>3, TaskStep
  <1>5. CASE left # {}
    <2>1. First(left) \in ApyDates /\ First(left) \notin known
      BY <1>5, MissingDate
    <2>2. known \in SUBSET ApyDates /\ q.existing \subseteq known
      BY <1>2 DEF AInv, ATask
    <2> DEFINE f == First(left)
    <2>3. f \in ApyDates /\ f \in Nat /\ f \notin known
      BY <2>1, ApyDatesNat
    <2>4. SetTask(t, r)
      BY <1>1, <1>5
    <2> HIDE DEF f, known, left, q
    <2>5. r = [q EXCEPT !.at = "upsert", !.existing = known, !.date = f]
      BY DEF f
    <2> HIDE DEF r
    <2>6. /\ r \in ATask /\ r.at = "upsert" /\ r.existing = known /\ r.date = f
          /\ r.since = q.since
      BY <1>2, <2>2, <2>3, <2>5 DEF ATask
    <2>7. TaskOK(t, r)
      BY <1>1, <1>2, <1>3, <2>2, <2>3, <2>6 DEF TaskOK
    <2>8. apyTasks[t].at \notin {"store", "forget"} /\ r.at \notin {"store", "forget"}
      BY <1>1, <2>6 DEF q
    <2> QED
      BY <1>1, <1>2, <2>4, <2>6, <2>7, <2>8, TaskStep
  <1> QED
    BY <1>4, <1>5

LEMMA PersistStep ==
    ASSUME AInv, NEW t \in ApyTasks, persistSnapshot(t)
    PROVE  AInv'
  <1> DEFINE q == apyTasks[t]
             w == apyWrites + 1
             r == [q EXCEPT !.at = "store", !.value = w]
             k == q.date
  <1>1. /\ SetTask(t, r) /\ q.at = "upsert" /\ apyTable' = Upserted(apyTable, k, w)
        /\ writesTable(Upserted(apyTable, k, w), w) /\ apyReads' = apyReads
        /\ apyWrites' = w /\ apyWrites < MaxApyWrites
        /\ apyRaced' = (IF Storing(k) = {} THEN apyRaced ELSE apyRaced \cup {k})
        /\ UNCHANGED <<apyLocal, today>>
    BY DEF persistSnapshot, writesTable
  <1>2. q \in ATask /\ TaskOK(t, q) /\ apyTasks \in [ApyTasks -> ATask]
    BY DEF AInv
  <1>3. /\ apyWrites \in Nat /\ w \in Nat /\ w > apyWrites /\ MaxApyWrites \in Nat
        /\ w \in 0..MaxApyWrites
    BY <1>1, ApyAssumption DEF AInv
  <1>4. k \in ApyDates
    BY <1>1, <1>2 DEF TaskOK
  <1> HIDE DEF w
  <1>5. /\ r \in ATask /\ r.at = "store" /\ r.date = k /\ r.value = w
        /\ r.since = q.since /\ r.existing = q.existing
    BY <1>2, <1>3 DEF ATask
  <1> HIDE DEF r, q, k
  <1>6. /\ apyTasks' \in [ApyTasks -> ATask] /\ apyTasks'[t] = r /\ apyTasks[t] = q
        /\ \A u \in ApyTasks : u # t => apyTasks'[u] = apyTasks[u]
    BY <1>1, <1>2, <1>5 DEF SetTask, q
  <1>7. /\ DOMAIN apyTable' = DOMAIN apyTable \cup {k} /\ apyTable'[k] = w
        /\ \A d \in DOMAIN apyTable : d # k => apyTable'[d] = apyTable[d]
    BY <1>1 DEF Upserted
  <1>8. /\ DOMAIN apyTable' \subseteq ApyDates
        /\ \A d \in DOMAIN apyTable' : apyTable'[d] \in Nat /\ apyTable'[d] <= apyWrites'
    <2>1. ASSUME NEW d \in DOMAIN apyTable' PROVE apyTable'[d] \in Nat /\ apyTable'[d] <= w
      <3>1. CASE d = k
        BY <3>1, <1>3, <1>7
      <3>2. CASE d # k
        <4>1. d \in DOMAIN apyTable /\ apyTable'[d] = apyTable[d]
          BY <3>2, <1>7
        <4>2. apyTable[d] \in Nat /\ apyTable[d] <= apyWrites
          BY <4>1 DEF AInv
        <4> QED
          BY <4>1, <4>2, <1>3
      <3> QED
        BY <3>1, <3>2
    <2> QED
      BY <2>1, <1>1, <1>4, <1>7 DEF AInv
  <1>9. \A u \in ApyTasks : TaskOK(u, apyTasks[u])'
    <2> SUFFICES ASSUME NEW u \in ApyTasks PROVE TaskOK(u, apyTasks[u])'
      OBVIOUS
    <2>1. TaskOK(u, apyTasks[u]) /\ apyTasks[u] \in ATask
      BY <1>2 DEF AInv
    <2>2. /\ apyTasks'[u].since = apyTasks[u].since /\ apyTasks'[u].date = apyTasks[u].date
          /\ apyTasks'[u].existing = apyTasks[u].existing /\ apyTasks[u].since \in Nat
          /\ apyTasks'[u].at = apyTasks[u].at
             \/ (apyTasks'[u].at = "store" /\ apyTasks[u].at = "upsert")
      <3>1. CASE u = t
        BY <3>1, <1>1, <1>2, <1>5, <1>6 DEF ATask, k
      <3>2. CASE u # t
        BY <3>2, <2>1, <1>6 DEF ATask
      <3> QED
        BY <3>1, <3>2
    <2>3. ASSUME u \in Backfills, apyTasks[u].at \in {"scan", "upsert", "store"}
          PROVE  /\ apyTasks[u].since <= w
                 /\ \A d \in DOMAIN apyTable' :
                      d \in apyTasks[u].existing \/ apyTable'[d] > apyTasks[u].since
      <3>1. /\ apyTasks[u].since <= apyWrites
            /\ \A d \in DOMAIN apyTable :
                 d \in apyTasks[u].existing \/ apyTable[d] > apyTasks[u].since
        BY <2>1, <2>3 DEF TaskOK
      <3>2. apyTasks[u].since < w
        BY <3>1, <2>2, <1>3
      <3>3. ASSUME NEW d \in DOMAIN apyTable'
            PROVE  d \in apyTasks[u].existing \/ apyTable'[d] > apyTasks[u].since
        <4>1. CASE d = k
          BY <4>1, <3>2, <1>3, <2>2, <1>7
        <4>2. CASE d # k
          BY <4>2, <3>1, <1>7
        <4> QED
          BY <4>1, <4>2
      <3> QED
        BY <3>2, <3>3, <2>2, <1>3
    <2> QED
      BY <1>1, <2>1, <2>2, <2>3 DEF TaskOK
  <1>10. ASSUME NEW u \in ApyTasks, u # t, apyTasks[u].at = "store", apyTasks[u].date = k
         PROVE  k \in apyRaced'
    <2>1. u \in Storing(k)
      BY <1>10 DEF Storing
    <2> QED
      BY <1>1, <2>1
  <1>11. CopyOK'
    <2> SUFFICES ASSUME NEW u \in ApyTasks, apyTasks'[u].at = "store"
                 PROVE  \/ apyTasks'[u].date \in apyRaced'
                        \/ /\ apyTasks'[u].date \in DOMAIN apyTable'
                           /\ apyTable'[apyTasks'[u].date] = apyTasks'[u].value
      BY DEF CopyOK
    <2>1. CASE u = t
      BY <2>1, <1>5, <1>6, <1>7
    <2>2. CASE u # t
      <3>1. apyTasks'[u] = apyTasks[u]
        BY <2>2, <1>6
      <3>2. CASE apyTasks[u].date = k
        BY <1>10, <2>2, <3>1, <3>2
      <3>3. CASE apyTasks[u].date # k
        <4>1. \/ apyTasks[u].date \in apyRaced
              \/ /\ apyTasks[u].date \in DOMAIN apyTable
                 /\ apyTable[apyTasks[u].date] = apyTasks[u].value
          BY <3>1 DEF AInv, CopyOK
        <4>2. apyRaced \subseteq apyRaced'
          BY <1>1
        <4> QED
          BY <4>1, <4>2, <3>1, <3>3, <1>7
      <3> QED
        BY <3>2, <3>3
    <2> QED
      BY <2>1, <2>2
  <1>12. \A d : Storing(d) \subseteq Storing(d)' /\ (d = k => t \in Storing(d)')
    BY <1>1, <1>5, <1>6 DEF Storing
  <1>13. apyTasks["nightly"].at = "forget" => apyTasks'["nightly"] = apyTasks["nightly"]
    BY <1>1, <1>6 DEF ApyTasks
  <1>14. CopyFollowsTable'
    <2> SUFFICES ASSUME NEW d \in DOMAIN apyLocal', d \notin apyRaced'
                 PROVE  \/ Storing(d)' # {}
                        \/ apyTasks'["nightly"].at = "forget" /\ d \in Pruned'
                        \/ d \in DOMAIN apyTable' /\ apyTable'[d] = apyLocal'[d]
      BY DEF CopyFollowsTable
    <2>1. d \in DOMAIN apyLocal /\ d \notin apyRaced /\ apyLocal' = apyLocal
      BY <1>1
    <2>2. \/ Storing(d) # {} \/ (apyTasks["nightly"].at = "forget" /\ d \in Pruned)
          \/ d \in DOMAIN apyTable /\ apyTable[d] = apyLocal[d]
      BY <2>1 DEF AInv, CopyFollowsTable
    <2>3. CASE d = k
      BY <2>3, <1>12
    <2>4. CASE d # k
      BY <2>1, <2>2, <2>4, <1>7, <1>12, <1>13 DEF Pruned
    <2> QED
      BY <2>3, <2>4
  <1>15. apyTasks'["nightly"].at # "scan"
    BY <1>5, <1>6 DEF AInv, ApyTasks
  <1>16. ReplicaOK'
    <2> DEFINE rows == Upserted(apyTable, k, w)
    <2>1. rows \in Rows /\ apyTable' = rows
      BY <1>1, <1>3, <1>4, UpsertedRows DEF AInv, ReplicaOK
    <2>2. /\ apyReplica' \in Seq(Shown) /\ apyReplica' # << >>
          /\ \A i \in DOMAIN apyReplica' :
               \/ apyReplica'[i] = [rows |-> rows, seen |-> w]
               \/ \E j \in DOMAIN apyReplica : apyReplica'[i] = apyReplica[j]
      <3>1. ReplicaOK /\ writesTable(rows, w)
        BY <1>1 DEF AInv
      <3> HIDE DEF rows
      <3> QED
        BY <2>1, <3>1, <1>3, TableWritten
    <2> HIDE DEF rows
    <2>3. ASSUME NEW i \in DOMAIN apyReplica' PROVE RowsOK(apyReplica[i])'
      <3> DEFINE p == apyReplica'[i]
      <3>1. CASE p = [rows |-> rows, seen |-> w]
        <4>1. p.seen = w /\ p.rows = apyTable'
          BY <3>1, <2>1
        <4> QED
          BY <4>1, <1>1, <1>3 DEF RowsOK
      <3>2. CASE \E j \in DOMAIN apyReplica : p = apyReplica[j]
        <4>1. p \in Shown /\ RowsOK(p)
          BY <3>2 DEF AInv, ReplicaOK
        <4>2. /\ p.seen \in Nat /\ p.seen < w
              /\ \A d \in DOMAIN apyTable : d \in DOMAIN p.rows \/ apyTable[d] > p.seen
          BY <4>1, <1>3 DEF Shown, RowsOK
        <4>3. ASSUME NEW d \in DOMAIN apyTable' PROVE d \in DOMAIN p.rows \/ apyTable'[d] > p.seen
          BY <4>2, <1>3, <1>7
        <4> HIDE DEF p
        <4>4. p.seen <= apyWrites' /\ \A d \in DOMAIN apyTable' : d \in DOMAIN p.rows \/ apyTable'[d] > p.seen
          BY <4>2, <4>3, <1>1, <1>3
        <4> QED
          BY <4>4 DEF RowsOK, p
      <3> QED
        BY <3>1, <3>2, <2>2
    <2> QED
      BY <2>1, <2>2, <2>3, <1>1 DEF ReplicaOK, AInv
  <1> QED
    BY <1>1, <1>3, <1>6, <1>8, <1>9, <1>11, <1>14, <1>15, <1>16 DEF AInv

\* Where a task goes after a date.
LEMMA AdvanceTask ==
    ASSUME AInv, NEW t \in ApyTasks, NEW from, apyTasks[t].at = "store"
    PROVE  /\ advance(t, from) \in ATask /\ advance(t, from).at \in {"idle", "upsert"}
           /\ TaskOK(t, advance(t, from))
  <1> DEFINE q == apyTasks[t]
             left == missing(from, q.last, q.existing)
             f == First(left)
             r == [q EXCEPT !.at = "upsert", !.date = f]
  <1>1. advance(t, from) = IF left = {} THEN NoTask ELSE r
    BY DEF advance
  <1>2. q \in ATask /\ TaskOK(t, q) /\ q.at = "store"
    BY DEF AInv
  <1>3. CASE left = {}
    <2>1. TaskOK(t, NoTask)
      BY NoTaskOK DEF TaskOK
    <2> QED
      BY <1>1, <1>3, <2>1, NoTaskOK
  <1>4. CASE left # {}
    <2>1. f \in ApyDates /\ f \in Nat /\ f \notin q.existing
      BY <1>4, MissingDate, ApyDatesNat
    <2>2. advance(t, from) = r
      BY <1>1, <1>4
    <2> HIDE DEF f, left, q
    <2>3. r \in ATask /\ r.at = "upsert" /\ r.date = f /\ r.existing = q.existing
          /\ r.since = q.since
      BY <1>2, <2>1 DEF ATask
    <2> HIDE DEF r
    <2>4. TaskOK(t, r)
      BY <1>2, <2>1, <2>3 DEF TaskOK
    <2> QED
      BY <2>2, <2>3, <2>4
  <1> QED
    BY <1>3, <1>4

LEMMA StoreStep ==
    ASSUME AInv, NEW t \in ApyTasks, storeLocal(t)
    PROVE  AInv'
  <1> DEFINE q == apyTasks[t]
             k == q.date
             n == [q EXCEPT !.at = "delete", !.existing = Old]
  <1>1. /\ q.at = "store" /\ apyLocal' = Upserted(apyLocal, k, q.value)
        /\ UNCHANGED <<apyTable, apyReplica, today, apyReads, apyWrites, apyRaced>>
        /\ SetTask(t, IF t = "nightly" THEN n ELSE advance(t, k + 1))
    BY DEF storeLocal
  <1>2. q \in ATask /\ TaskOK(t, q) /\ apyTasks \in [ApyTasks -> ATask] /\ k \in ApyDates
    BY <1>1 DEF AInv, TaskOK
  <1>3. PICK r : /\ SetTask(t, r) /\ r \in ATask /\ r.at \in {"idle", "upsert", "delete"}
                 /\ TaskOK(t, r)
    <2>1. CASE t = "nightly"
      <3>1. Old \subseteq ApyDates
        BY DEF Old
      <3>2. n \in ATask /\ n.at = "delete"
        BY <1>2, <3>1 DEF ATask
      <3>3. TaskOK(t, n)
        <4> HIDE DEF n
        <4> QED
          BY <3>2 DEF TaskOK
      <3> QED
        BY <1>1, <2>1, <3>2, <3>3
    <2>2. CASE t # "nightly"
      BY <1>1, <2>2, AdvanceTask
    <2> QED
      BY <2>1, <2>2
  <1> HIDE DEF n
  <1>4. /\ apyTasks' \in [ApyTasks -> ATask] /\ apyTasks'[t] = r
        /\ \A u \in ApyTasks : u # t => apyTasks'[u] = apyTasks[u]
    BY <1>2, <1>3 DEF SetTask
  <1>5. \A u \in ApyTasks : TaskOK(u, apyTasks'[u])
    BY <1>3, <1>4 DEF AInv
  <1>6. \A u \in ApyTasks : TaskOK(u, apyTasks[u])'
    BY <1>1, <1>5 DEF TaskOK
  <1>7. CopyOK'
    BY <1>1, <1>3, <1>4 DEF AInv, CopyOK
  <1>8. /\ DOMAIN apyLocal' = DOMAIN apyLocal \cup {k} /\ apyLocal'[k] = q.value
        /\ \A d \in DOMAIN apyLocal : d # k => apyLocal'[d] = apyLocal[d]
    BY <1>1 DEF Upserted
  <1>9. \A d : d # k => Storing(d) \subseteq Storing(d)'
    BY <1>4 DEF Storing
  <1>10. /\ apyTasks["nightly"].at = "forget" => apyTasks'["nightly"] = apyTasks["nightly"]
         /\ apyTasks'["nightly"].at # "scan"
    BY <1>1, <1>3, <1>4 DEF AInv, ApyTasks
  <1>11. k \in apyRaced \/ (k \in DOMAIN apyTable /\ apyTable[k] = q.value)
    BY <1>1 DEF AInv, CopyOK
  <1> HIDE DEF q, k
  <1>12. CopyFollowsTable'
    <2> SUFFICES ASSUME NEW d \in DOMAIN apyLocal', d \notin apyRaced'
                 PROVE  \/ Storing(d)' # {}
                        \/ apyTasks'["nightly"].at = "forget" /\ d \in Pruned'
                        \/ d \in DOMAIN apyTable' /\ apyTable'[d] = apyLocal'[d]
      BY DEF CopyFollowsTable
    <2>1. CASE d = k
      BY <2>1, <1>1, <1>8, <1>11
    <2>2. CASE d # k
      <3>1. d \in DOMAIN apyLocal /\ d \notin apyRaced /\ apyLocal'[d] = apyLocal[d]
        BY <2>2, <1>1, <1>8
      <3>2. \/ Storing(d) # {} \/ (apyTasks["nightly"].at = "forget" /\ d \in Pruned)
            \/ d \in DOMAIN apyTable /\ apyTable[d] = apyLocal[d]
        BY <3>1 DEF AInv, CopyFollowsTable
      <3> QED
        BY <2>2, <3>1, <3>2, <1>1, <1>9, <1>10 DEF Pruned
    <2> QED
      BY <2>1, <2>2
  <1>13. ReplicaOK'
    BY <1>1 DEF AInv, ReplicaOK, RowsOK
  <1> QED
    BY <1>1, <1>2, <1>4, <1>6, <1>7, <1>8, <1>10, <1>12, <1>13 DEF AInv

LEMMA PruneTableStep == AInv /\ pruneTable => AInv'
  <1> SUFFICES ASSUME AInv, pruneTable PROVE AInv'
    OBVIOUS
  <1> DEFINE q == apyTasks["nightly"]
             r == [q EXCEPT !.at = "forget"]
  <1>1. /\ q.at = "delete" /\ apyTable' = Without(apyTable, Pruned) /\ SetTask("nightly", r)
        /\ apyRaced' = apyRaced \cup {d \in Pruned : Storing(d) # {}}
        /\ UNCHANGED <<apyLocal, today, apyReads, apyWrites>>
        /\ writesTable(Without(apyTable, Pruned), apyWrites)
    BY DEF pruneTable, writesTable
  <1>2. /\ q \in ATask /\ apyTasks \in [ApyTasks -> ATask] /\ "nightly" \in ApyTasks
        /\ "nightly" \notin Backfills
    BY ApyAssumption DEF AInv, ApyTasks
  <1>3. r \in ATask /\ r.at = "forget" /\ r.existing = q.existing
    BY <1>2 DEF ATask
  <1> HIDE DEF r, q
  <1>4. /\ apyTasks' \in [ApyTasks -> ATask] /\ apyTasks'["nightly"] = r
        /\ apyTasks["nightly"] = q
        /\ \A u \in ApyTasks : u # "nightly" => apyTasks'[u] = apyTasks[u]
    BY <1>1, <1>2, <1>3 DEF SetTask, q
  <1>5. /\ DOMAIN apyTable' = DOMAIN apyTable \ Pruned
        /\ \A d \in DOMAIN apyTable' : apyTable'[d] = apyTable[d]
    BY <1>1 DEF Without
  <1>6. \A u \in ApyTasks : TaskOK(u, apyTasks[u])'
    <2> SUFFICES ASSUME NEW u \in ApyTasks PROVE TaskOK(u, apyTasks[u])'
      OBVIOUS
    <2>1. CASE u = "nightly"
      BY <2>1, <1>2, <1>3, <1>4 DEF TaskOK
    <2>2. CASE u # "nightly"
      <3>1. apyTasks'[u] = apyTasks[u] /\ TaskOK(u, apyTasks[u])
        BY <2>2, <1>4 DEF AInv
      <3> QED
        BY <3>1, <1>1, <1>5 DEF TaskOK
    <2> QED
      BY <2>1, <2>2
  <1>7. CopyOK'
    <2> SUFFICES ASSUME NEW u \in ApyTasks, apyTasks'[u].at = "store"
                 PROVE  \/ apyTasks'[u].date \in apyRaced'
                        \/ /\ apyTasks'[u].date \in DOMAIN apyTable'
                           /\ apyTable'[apyTasks'[u].date] = apyTasks'[u].value
      BY DEF CopyOK
    <2> DEFINE d == apyTasks[u].date
    <2>1. apyTasks'[u] = apyTasks[u]
      BY <1>3, <1>4
    <2>2. \/ d \in apyRaced
          \/ d \in DOMAIN apyTable /\ apyTable[d] = apyTasks[u].value
      BY <2>1 DEF AInv, CopyOK
    <2>3. u \in Storing(d)
      BY <2>1 DEF Storing
    <2> HIDE DEF d
    <2>4. CASE d \in Pruned
      <3>1. d \in apyRaced'
        BY <2>3, <2>4, <1>1
      <3> QED
        BY <2>1, <3>1 DEF d
    <2>5. CASE d \notin Pruned
      <3>1. d \in apyRaced' \/ (d \in DOMAIN apyTable' /\ apyTable'[d] = apyTasks[u].value)
        BY <1>1, <1>5, <2>2, <2>5
      <3> QED
        BY <2>1, <3>1 DEF d
    <2> QED
      BY <2>4, <2>5
  <1>8. \A d : Storing(d)' = Storing(d)
    BY <1>1, <1>3, <1>4 DEF Storing
  <1>9. Pruned' = Pruned
    BY <1>3, <1>4 DEF Pruned
  <1>10. CopyFollowsTable'
    <2> SUFFICES ASSUME NEW d \in DOMAIN apyLocal', d \notin apyRaced'
                 PROVE  \/ Storing(d)' # {}
                        \/ apyTasks'["nightly"].at = "forget" /\ d \in Pruned'
                        \/ d \in DOMAIN apyTable' /\ apyTable'[d] = apyLocal'[d]
      BY DEF CopyFollowsTable
    <2>1. d \in DOMAIN apyLocal /\ d \notin apyRaced /\ apyLocal' = apyLocal
      BY <1>1
    <2>2. \/ Storing(d) # {} \/ (apyTasks["nightly"].at = "forget" /\ d \in Pruned)
          \/ d \in DOMAIN apyTable /\ apyTable[d] = apyLocal[d]
      BY <2>1 DEF AInv, CopyFollowsTable
    <2> QED
      BY <2>1, <2>2, <1>3, <1>4, <1>5, <1>8, <1>9
  <1>11. /\ apyTasks'["nightly"].at # "scan" /\ DOMAIN apyTable' \subseteq ApyDates
         /\ \A d \in DOMAIN apyTable' : apyTable'[d] \in Nat /\ apyTable'[d] <= apyWrites
    BY <1>3, <1>4, <1>5 DEF AInv
  <1>12. ReplicaOK'
    <2> DEFINE rows == Without(apyTable, Pruned)
    <2>1. rows \in Rows /\ apyTable' = rows /\ apyWrites \in Nat /\ apyWrites' = apyWrites
      BY <1>1, WithoutRows, ApyAssumption DEF AInv, ReplicaOK
    <2>2. /\ apyReplica' \in Seq(Shown) /\ apyReplica' # << >>
          /\ \A i \in DOMAIN apyReplica' :
               \/ apyReplica'[i] = [rows |-> rows, seen |-> apyWrites]
               \/ \E j \in DOMAIN apyReplica : apyReplica'[i] = apyReplica[j]
      <3>1. ReplicaOK /\ writesTable(rows, apyWrites)
        BY <1>1 DEF AInv
      <3> HIDE DEF rows
      <3> QED
        BY <2>1, <3>1, TableWritten
    <2> HIDE DEF rows
    <2>3. ASSUME NEW i \in DOMAIN apyReplica' PROVE RowsOK(apyReplica[i])'
      <3> DEFINE p == apyReplica'[i]
      <3>1. CASE p = [rows |-> rows, seen |-> apyWrites]
        <4>1. p.seen = apyWrites /\ p.rows = apyTable'
          BY <3>1, <2>1
        <4> QED
          BY <4>1, <2>1 DEF RowsOK
      <3>2. CASE \E j \in DOMAIN apyReplica : p = apyReplica[j]
        <4>1. RowsOK(p)
          BY <3>2 DEF AInv, ReplicaOK
        <4> HIDE DEF p
        <4>2. p.seen <= apyWrites' /\ \A d \in DOMAIN apyTable' : d \in DOMAIN p.rows \/ apyTable'[d] > p.seen
          BY <4>1, <2>1, <1>5 DEF RowsOK
        <4> QED
          BY <4>2 DEF RowsOK, p
      <3> QED
        BY <3>1, <3>2, <2>2
    <2> QED
      BY <2>1, <2>2, <2>3, <1>1 DEF ReplicaOK, AInv
  <1> QED
    BY <1>1, <1>4, <1>6, <1>7, <1>10, <1>11, <1>12 DEF AInv

LEMMA PruneLocalStep == AInv /\ pruneLocal => AInv'
  <1> SUFFICES ASSUME AInv, pruneLocal PROVE AInv'
    OBVIOUS
  <1>1. /\ apyTasks["nightly"].at = "forget" /\ apyLocal' = Without(apyLocal, Pruned)
        /\ SetTask("nightly", NoTask) /\ apyRaced \subseteq apyRaced'
        /\ UNCHANGED <<apyTable, apyReplica, today, apyReads, apyWrites>>
    BY DEF pruneLocal, keptCopy
  <1>2. apyTasks \in [ApyTasks -> ATask] /\ "nightly" \in ApyTasks
    BY DEF AInv, ApyTasks
  <1>3. /\ apyTasks' \in [ApyTasks -> ATask] /\ apyTasks'["nightly"] = NoTask
        /\ \A u \in ApyTasks : u # "nightly" => apyTasks'[u] = apyTasks[u]
    BY <1>1, <1>2, NoTaskOK DEF SetTask
  <1>4. /\ DOMAIN apyLocal' = DOMAIN apyLocal \ Pruned
        /\ \A d \in DOMAIN apyLocal' : apyLocal'[d] = apyLocal[d]
    BY <1>1 DEF Without
  <1>5. \A u \in ApyTasks : TaskOK(u, apyTasks'[u])
    <2>1. TaskOK("nightly", NoTask)
      BY NoTaskOK DEF TaskOK
    <2> QED
      BY <2>1, <1>3 DEF AInv
  <1>6. \A u \in ApyTasks : TaskOK(u, apyTasks[u])'
    BY <1>1, <1>5 DEF TaskOK
  <1>7. CopyOK'
    BY <1>1, <1>3, NoTaskOK DEF AInv, CopyOK
  <1>8. \A d : Storing(d)' = Storing(d)
    BY <1>1, <1>3, NoTaskOK DEF Storing
  <1>9. CopyFollowsTable'
    <2> SUFFICES ASSUME NEW d \in DOMAIN apyLocal', d \notin apyRaced'
                 PROVE  \/ Storing(d)' # {}
                        \/ d \in DOMAIN apyTable' /\ apyTable'[d] = apyLocal'[d]
      BY DEF CopyFollowsTable
    <2>1. d \in DOMAIN apyLocal /\ d \notin apyRaced /\ d \notin Pruned /\ apyLocal'[d] = apyLocal[d]
      BY <1>1, <1>4
    <2>2. Storing(d) # {} \/ (d \in DOMAIN apyTable /\ apyTable[d] = apyLocal[d])
      BY <2>1 DEF AInv, CopyFollowsTable
    <2> QED
      BY <2>1, <2>2, <1>1, <1>8
  <1>10. ReplicaOK'
    BY <1>1 DEF AInv, ReplicaOK, RowsOK
  <1> QED
    BY <1>1, <1>3, <1>4, <1>6, <1>7, <1>9, <1>10, NoTaskOK DEF AInv

LEMMA ReadStep ==
    ASSUME AInv, NEW r \in ApyReaders, NEW days, getApyHistory(r, days)
    PROVE  AInv'
  <1>1. PICK s \in {Head(apyReplica), Present} :
           apyReads' = [apyReads EXCEPT ![r] =
              [d \in {e \in DOMAIN s.rows : e + days > today /\ e <= today} |-> s.rows[d]]]
    BY DEF getApyHistory
  <1>2. UNCHANGED <<apyTable, apyReplica, apyLocal, today, apyTasks, apyWrites, apyRaced>>
    BY DEF getApyHistory
  <1> DEFINE D == {e \in DOMAIN s.rows : e + days > today /\ e <= today}
  <1>3. s.rows \in Rows
    BY AnswerOK DEF Shown
  <1>4. D \in SUBSET ApyDates /\ \A d \in D : s.rows[d] \in Nat
    BY <1>3, RowsAre
  <1>5. [d \in D |-> s.rows[d]] \in Rows
    <2> HIDE DEF D
    <2> QED
      BY <1>4, RowsMade
  <1>6. apyReads' = [apyReads EXCEPT ![r] = [d \in D |-> s.rows[d]]]
    BY <1>1
  <1> HIDE DEF D
  <1>7. apyReads' \in [ApyReaders -> Rows]
    BY <1>5, <1>6 DEF AInv, ReplicaOK
  <1>8. ReplicaOK'
    BY <1>2, <1>7 DEF AInv, ReplicaOK, RowsOK
  <1>9. \A u \in ApyTasks : TaskOK(u, apyTasks[u])'
    BY <1>2 DEF AInv, TaskOK
  <1> QED
    BY <1>2, <1>8, <1>9 DEF AInv, CopyOK, CopyFollowsTable, Storing, Pruned

LEMMA MergeStep ==
    ASSUME AInv, NEW r \in ApyReaders, mergeRows(r)
    PROVE  AInv'
  <1> DEFINE rows == apyReads[r]
  <1>1. /\ apyLocal' = Merged(rows) /\ apyRaced' = apyRaced \cup Outdated(rows)
        /\ apyReads' = [apyReads EXCEPT ![r] = << >>]
        /\ UNCHANGED <<apyTable, apyReplica, today, apyTasks, apyWrites>>
    BY DEF mergeRows
  <1>2. rows \in Rows /\ apyReads' \in [ApyReaders -> Rows]
    BY <1>1, NoRows DEF AInv, ReplicaOK
  <1> HIDE DEF rows
  <1>3. DOMAIN rows \subseteq ApyDates
    BY <1>2, RowsAre
  <1>4. /\ DOMAIN apyLocal' = DOMAIN apyLocal \cup DOMAIN rows
        /\ \A d \in DOMAIN rows : apyLocal'[d] = rows[d]
        /\ \A d \in DOMAIN apyLocal : d \notin DOMAIN rows => apyLocal'[d] = apyLocal[d]
    BY <1>1 DEF Merged
  <1>5. \A d \in DOMAIN rows : d \notin apyRaced' => d \in DOMAIN apyTable /\ apyTable[d] = rows[d]
    BY <1>1 DEF Outdated
  <1>6. \A u \in ApyTasks : TaskOK(u, apyTasks[u])'
    BY <1>1 DEF AInv, TaskOK
  <1>7. CopyOK'
    BY <1>1 DEF AInv, CopyOK
  <1>8. CopyFollowsTable'
    <2> SUFFICES ASSUME NEW d \in DOMAIN apyLocal', d \notin apyRaced'
                 PROVE  \/ Storing(d) # {}
                        \/ apyTasks["nightly"].at = "forget" /\ d \in Pruned
                        \/ d \in DOMAIN apyTable /\ apyTable[d] = apyLocal'[d]
      BY <1>1 DEF CopyFollowsTable, Storing, Pruned
    <2>1. CASE d \in DOMAIN rows
      BY <2>1, <1>4, <1>5
    <2>2. CASE d \notin DOMAIN rows
      <3>1. d \in DOMAIN apyLocal /\ d \notin apyRaced /\ apyLocal'[d] = apyLocal[d]
        BY <2>2, <1>1, <1>4
      <3> QED
        BY <3>1 DEF AInv, CopyFollowsTable
    <2> QED
      BY <2>1, <2>2
  <1>9. ReplicaOK'
    BY <1>1, <1>2 DEF AInv, ReplicaOK, RowsOK
  <1> QED
    BY <1>1, <1>3, <1>4, <1>6, <1>7, <1>8, <1>9 DEF AInv

LEMMA ReplicateStep == AInv /\ replicate => AInv'
  <1> SUFFICES ASSUME AInv, replicate PROVE AInv'
    OBVIOUS
  <1>1. /\ Len(apyReplica) > 1 /\ apyReplica' = Tail(apyReplica)
        /\ UNCHANGED <<apyTable, apyLocal, today, apyTasks, apyReads, apyWrites, apyRaced>>
    BY DEF replicate
  <1>2. /\ apyReplica' \in Seq(Shown) /\ apyReplica' # << >>
        /\ \A i \in DOMAIN apyReplica' : i + 1 \in DOMAIN apyReplica /\ apyReplica'[i] = apyReplica[i + 1]
    <2> DEFINE q == apyReplica
               n == Len(apyReplica)
    <2>1. q \in Seq(Shown) /\ n = Len(q) /\ n \in Nat /\ n > 1
      BY <1>1 DEF AInv, ReplicaOK
    <2>2. apyReplica' = Tail(q)
      BY <1>1
    <2> HIDE DEF q, n
    <2>3. Tail(q) \in Seq(Shown) /\ Len(Tail(q)) = n - 1
      BY <2>1
    <2>4. DOMAIN Tail(q) = 1..(n - 1) /\ DOMAIN q = 1..n
      BY <2>1, <2>3
    <2>5. \A i \in 1..(n - 1) : i + 1 \in 1..n /\ Tail(q)[i] = q[i + 1]
      BY <2>1
    <2>6. Tail(q) # << >>
      <3>1. 1 \in DOMAIN Tail(q)
        BY <2>1, <2>4
      <3> QED
        BY <3>1, NoRows
    <2>7. \A i \in DOMAIN Tail(q) : i + 1 \in DOMAIN q /\ Tail(q)[i] = q[i + 1]
      BY <2>4, <2>5
    <2>8. q = apyReplica
      BY DEF q
    <2> QED
      BY <2>2, <2>3, <2>6, <2>7, <2>8
  <1>3. \A i \in DOMAIN apyReplica' : RowsOK(apyReplica'[i])
    BY <1>2 DEF AInv, ReplicaOK
  <1>4. ReplicaOK'
    BY <1>1, <1>2, <1>3 DEF AInv, ReplicaOK, RowsOK
  <1>5. \A u \in ApyTasks : TaskOK(u, apyTasks[u])'
    BY <1>1 DEF AInv, TaskOK
  <1> QED
    BY <1>1, <1>4, <1>5 DEF AInv, CopyOK, CopyFollowsTable, Storing, Pruned

LEMMA ApyRestartStep == AInv /\ apyRestart => AInv'
  <1> SUFFICES ASSUME AInv, apyRestart PROVE AInv'
    OBVIOUS
  <1>1. /\ apyLocal' = << >> /\ apyTasks' = [t \in ApyTasks |-> NoTask]
        /\ apyReads' = [r \in ApyReaders |-> << >>]
        /\ UNCHANGED <<apyTable, apyReplica, today, apyWrites, apyRaced>>
    BY DEF apyRestart
  <1>2. apyTasks' \in [ApyTasks -> ATask] /\ \A t \in ApyTasks : apyTasks'[t] = NoTask
    BY <1>1, NoTaskOK
  <1>3. DOMAIN apyLocal' = {} /\ apyReads' \in [ApyReaders -> Rows]
    BY <1>1, NoRows
  <1>4. \A t \in ApyTasks : TaskOK(t, apyTasks[t])'
    BY <1>2, NoTaskOK DEF TaskOK
  <1>5. CopyOK' /\ CopyFollowsTable'
    BY <1>2, <1>3, NoTaskOK DEF CopyOK, CopyFollowsTable
  <1>6. ReplicaOK'
    BY <1>1, <1>3 DEF AInv, ReplicaOK, RowsOK
  <1>7. apyTasks'["nightly"].at # "scan"
    BY <1>2, NoTaskOK DEF ApyTasks
  <1> QED
    BY <1>1, <1>2, <1>3, <1>4, <1>5, <1>6, <1>7 DEF AInv

LEMMA AInvStep == AInv /\ [ApyNext]_apyVars => AInv'
  <1> SUFFICES ASSUME AInv, [ApyNext]_apyVars PROVE AInv'
    OBVIOUS
  <1>1. ASSUME UNCHANGED <<apyTable, apyReplica, apyLocal, apyTasks, apyReads, apyWrites, apyRaced>>,
               today' \in ApyDates
        PROVE  AInv'
    <2>1. \A u \in ApyTasks : TaskOK(u, apyTasks[u])'
      BY <1>1 DEF AInv, TaskOK
    <2>2. ReplicaOK'
      BY <1>1 DEF AInv, ReplicaOK, RowsOK
    <2> QED
      BY <1>1, <2>1, <2>2 DEF AInv, CopyOK, CopyFollowsTable, Storing, Pruned
  <1>2. CASE UNCHANGED apyVars
    BY <1>1, <1>2 DEF apyVars, AInv
  <1>3. CASE midnight
    BY <1>1, <1>3 DEF midnight
  <1>4. CASE ApyNext /\ ~midnight
    BY <1>4, NightlyStep, PruneTableStep, PruneLocalStep, ReplicateStep, ApyRestartStep, ReadStep,
       MergeStep, PersistStep, StoreStep, FailsStep, BackfillStep, ScannedStep DEF ApyNext
  <1> QED
    BY <1>2, <1>3, <1>4

\* A backfill replaces only what is younger than its scan.
LEMMA OlderKept ==
    ASSUME AInv, NEW t \in Backfills, persistSnapshot(t)
    PROVE  LET d == apyTasks[t].date
           IN d \in DOMAIN apyTable => apyTable[d] > apyTasks[t].since
  <1>1. apyTasks[t].at = "upsert" /\ t \in ApyTasks
    BY DEF persistSnapshot, ApyTasks
  <1> QED
    BY <1>1 DEF AInv, TaskOK

LEMMA JobsRun == [Next]_vars => [JobNext]_jobVars /\ [ApyNext]_apyVars
  BY DEF Next, vars, workVars, OnWebhooks, OnEmails, OnJobs, OnApy, OnBreaker, OnLatency

(* runDbBackupJob, backfillApySnapshots, persistSnapshot and               *)
(* pruneOldSnapshots: whatever fails, crashes or runs meanwhile, a whole   *)
(* backup stays in the bucket once there is one (unless a truncated dump   *)
(* passed for whole), a backfill replaces no value that the database it    *)
(* asked had seen, however far the replica is behind, and the copy in      *)
(* memory differs from the table only on a date that is being worked on,   *)
(* that two tasks worked on at a time, or that a reader merged from a row  *)
(* the table no longer had.                                                *)
THEOREM JobsKeepWhatIsStored == Spec => StoredIsKept
  <1>1. Init => JInv /\ AInv
    BY JInvInit, AInvInit DEF Init
  <1>2. JInv /\ [Next]_vars => JInv'
    BY JobsRun, JInvStep
  <1>3. AInv /\ [Next]_vars => AInv'
    BY JobsRun, AInvStep
  <1>4. JInv /\ [Next]_vars =>
          [(\E b \in stored : b.whole) => truncated' \/ \E b \in stored' : b.whole]_jobVars
    BY JobsRun, BackupsKept
  <1>5. AInv /\ [Next]_vars =>
          [\A t \in Backfills : persistSnapshot(t) =>
             LET d == apyTasks[t].date
             IN d \in DOMAIN apyTable => apyTable[d] > apyTasks[t].since]_apyVars
    BY OlderKept
  <1>6. AInv => CopyFollowsTable
    BY DEF AInv
  <1> QED
    BY <1>1, <1>2, <1>3, <1>4, <1>5, <1>6, PTL
       DEF Spec, StoredIsKept, WholeBackupKept, BackfillKeepsOlder

-----------------------------------------------------------------------------
(* Types *)

BatchFits == batch = << >> \/ Len(batch) <= EmailBatch

LEMMA BatchFitsStep == EInv /\ BatchFits /\ [EmailNext]_emailVars => BatchFits'
  <1> SUFFICES ASSUME EInv, BatchFits, [EmailNext]_emailVars PROVE BatchFits'
    OBVIOUS
  <1>1. CASE processQueue
    <2>1. PICK old \in SetToSeqs(dueRows) :
            batch' = [i \in 1..(IF Len(old) < EmailBatch THEN Len(old) ELSE EmailBatch)
                        |-> [id |-> old[i], retryCount |-> mail[old[i]].retryCount]]
      BY <1>1 DEF processQueue
    <2>2. IsFiniteSet(dueRows)
      BY FS_Subset DEF EInv, MailOK, dueRows
    <2> DEFINE c == Cardinality(dueRows)
    <2>3. c \in Nat
      BY <2>2, FS_CardinalityType
    <2> HIDE DEF c
    <2>4. old \in [1..c -> dueRows]
      BY <2>1 DEF SetToSeqs, c
    <2>5. Len(old) = c
      BY <2>3, <2>4
    <2> DEFINE n == IF c < EmailBatch THEN c ELSE EmailBatch
    <2>6. n \in Nat /\ n <= EmailBatch
      BY <2>3, EmailAssumption
    <2>7. batch' = [i \in 1..n |-> [id |-> old[i], retryCount |-> mail[old[i]].retryCount]]
      BY <2>1, <2>5
    <2> HIDE DEF n
    <2>8. DOMAIN batch' = 1..n /\ batch' \in Seq(Held)
      BY <1>1, <2>7, QueueStep DEF EInv, BatchOK
    <2>9. Len(batch') = n
      BY <2>6, <2>8
    <2> QED
      BY <2>6, <2>9 DEF BatchFits
  <1>2. CASE batch' = batch \/ batch' = << >>
    BY <1>2 DEF BatchFits
  <1>3. ASSUME NextRow, step # "idle" PROVE BatchFits'
    <2>1. batch' = Tail(batch) /\ batch \in Seq(Held) /\ batch # << >>
      BY <1>3 DEF NextRow, EInv, BatchOK
    <2>2. Len(batch') = Len(batch) - 1 /\ Len(batch) \in Nat
      BY <2>1
    <2> QED
      BY <2>1, <2>2, EmailAssumption DEF BatchFits
  <1> QED
    BY <1>1, <1>2, <1>3 DEF EmailNext, emailVars, emailWork, markProcessing, sendEmailDirectly,
       afterSend, recordSent, handleFailure, emailCrash, enqueueEmail, retryDue, postEmailReplay

\* The trackers there are from the start stay, and none grows past its bound.
TrackersFit ==
    /\ latNow \in 1..LatMaxTime /\ monitoring \in BOOLEAN
    /\ MappedEndpoints \subseteq DOMAIN trackers
    /\ \A e \in DOMAIN trackers : Len(trackers[e].points) <= MaxPoints

LEMMA TrackersFitInit == LatInit => TrackersFit
  <1> SUFFICES ASSUME LatInit PROVE TrackersFit
    OBVIOUS
  <1>1. Len(NewTracker.points) = 0
    BY DEF NewTracker
  <1>2. DOMAIN trackers = MappedEndpoints /\ \A e \in DOMAIN trackers : trackers[e] = NewTracker
    BY DEF LatInit
  <1>3. latNow \in 1..LatMaxTime /\ MaxPoints \in Nat
    BY LatAssumption DEF LatInit
  <1>4. monitoring \in BOOLEAN
    BY Zenon DEF LatInit
  <1>5. \A e \in DOMAIN trackers : Len(trackers[e].points) <= MaxPoints
    BY <1>1, <1>2, <1>3
  <1> QED
    BY <1>2, <1>3, <1>4, <1>5, Zenon DEF TrackersFit

LEMMA TrackersFitStep == LInv /\ TrackersFit /\ [LatNext]_latVars => TrackersFit'
  <1> SUFFICES ASSUME LInv, TrackersFit, [LatNext]_latVars PROVE TrackersFit'
    OBVIOUS
  <1>1. CASE UNCHANGED latVars \/ startMonitoring \/ stopMonitoring \/ latTick
    <2>1. UNCHANGED trackers
      BY <1>1 DEF latVars, startMonitoring, stopMonitoring, latTick
    <2>2. latNow' = latNow \/ (latNow' = latNow + 1 /\ latNow < LatMaxTime)
      BY <1>1 DEF latVars, startMonitoring, stopMonitoring, latTick
    <2>3. latNow' \in 1..LatMaxTime
      BY <2>2, LatAssumption DEF TrackersFit
    <2>4. monitoring' \in BOOLEAN
      BY <1>1, Zenon DEF TrackersFit, latVars, startMonitoring, stopMonitoring, latTick
    <2> QED
      BY <2>1, <2>3, <2>4, Zenon DEF TrackersFit
  <1>2. ASSUME NEW e, NEW p, NEW a, NEW t, t = [points |-> p, lastAlert |-> a]
        PROVE  recordAlert(t).points = p /\ t.points = p
    BY <1>2 DEF recordAlert
  <1>3. \A e \in DOMAIN trackers :
          trackers[e] = [points |-> trackers[e].points, lastAlert |-> trackers[e].lastAlert]
    BY DEF LInv, LastKnown
  <1>4. CASE checkSLOViolations
    <2> DEFINE es == {e \in DOMAIN trackers : shouldAlert(trackers[e])}
    <2>1. /\ UNCHANGED <<latNow, monitoring>>
          /\ trackers' = [e \in DOMAIN trackers |->
                            IF e \in es THEN recordAlert(trackers[e]) ELSE trackers[e]]
      BY <1>4 DEF checkSLOViolations
    <2> HIDE DEF es
    <2>2. /\ DOMAIN trackers' = DOMAIN trackers
          /\ \A e \in DOMAIN trackers : trackers'[e].points = trackers[e].points
      BY <1>2, <1>3, <2>1
    <2> QED
      BY <2>1, <2>2 DEF TrackersFit
  <1>5. ASSUME NEW e \in LatEndpoints, NEW slow \in BOOLEAN, recordLatency(e, slow)
        PROVE  TrackersFit'
    <2> DEFINE known == e \in DOMAIN trackers
               was == IF known THEN trackers[e] ELSE NewTracker
               t   == addLatencyMeasurement(was, slow)
               es  == IF known /\ shouldAlert(t) THEN {e} ELSE {}
    <2>1. /\ UNCHANGED <<latNow, monitoring>> /\ Len(t.points) <= MaxPoints
          /\ trackers' = [f \in DOMAIN trackers \cup {e} |->
                            IF f # e THEN trackers[f] ELSE IF es = {} THEN t ELSE recordAlert(t)]
      BY <1>5 DEF recordLatency
    <2>2. was = [points |-> was.points, lastAlert |-> was.lastAlert]
      BY <1>3 DEF NewTracker
    <2> DEFINE pts == pruneStaleData(Append(was.points, [at |-> latNow, slow |-> slow]))
    <2>3. t = [points |-> pts, lastAlert |-> was.lastAlert]
      BY <2>2 DEF addLatencyMeasurement
    <2> HIDE DEF pts, was
    <2>4. recordAlert(t).points = t.points
      BY <1>2, <2>3
    <2> HIDE DEF t
    <2>5. /\ DOMAIN trackers' = DOMAIN trackers \cup {e} /\ trackers'[e].points = t.points
          /\ \A f \in DOMAIN trackers : f # e => trackers'[f] = trackers[f]
      BY <2>1, <2>4
    <2>6. \A f \in DOMAIN trackers' : Len(trackers'[f].points) <= MaxPoints
      BY <2>1, <2>5 DEF TrackersFit
    <2> QED
      BY <2>1, <2>5, <2>6 DEF TrackersFit
  <1> QED
    BY <1>1, <1>4, <1>5 DEF LatNext

LEMMA WebhookTypes == WInv => WhTypeOK
  <1> SUFFICES ASSUME WInv PROVE WhTypeOK
    OBVIOUS
  <1>1. /\ DOMAIN hooks \subseteq WhIds /\ expired \subseteq WhIds /\ answered \subseteq WhIds
        /\ \A h \in DOMAIN hooks : hooks[h] \in WebhookEndpoint
    BY DEF WInv, EndpointsOK
  <1>2. \A p \in DOMAIN probes : probes[p] \in Probe
    BY DEF WInv, EndpointsOK
  <1>3. \A d \in DOMAIN sends : sends[d] \in WebhookDelivery
    BY DEF WInv, SendsOK
  <1>4. \A i \in DOMAIN deadLetters : deadLetters[i] \in WebhookDeadLetter
    BY DEF WInv, LettersOK
  <1>5. ToSet(deliveries) \subseteq DOMAIN sends
    BY DEF WInv, DeliveriesOK, ToSet
  <1> QED
    BY <1>1, <1>2, <1>3, <1>4, <1>5 DEF WhTypeOK, Probe

LEMMA EmailTypes == EInv /\ BatchFits => EmailTypeOK
  <1> SUFFICES ASSUME EInv, BatchFits PROVE EmailTypeOK
    OBVIOUS
  <1>1. Len(batch) <= EmailBatch
    BY EmailAssumption DEF BatchFits
  <1>2. (step = "idle") = (batch = << >>)
    BY DEF EInv, BatchOK
  <1> QED
    BY <1>1, <1>2 DEF EInv, MailOK, RowOK, EmailRow, BatchOK, ItemOK, EmailTypeOK

LEMMA JobTypes == JInv => JobTypeOK
  <1> SUFFICES ASSUME JInv PROVE JobTypeOK
    OBVIOUS
  <1>1. (timers["backup"] = "running") = (backup.step # "none")
    BY DEF JInv, RunsOK
  <1> QED
    BY <1>1 DEF JInv, RunsOK, Backup, JobTypeOK

LEMMA ApyTypes == AInv => ApyTypeOK
  <1> SUFFICES ASSUME AInv PROVE ApyTypeOK
    OBVIOUS
  <1>1. ASSUME NEW i \in DOMAIN apyReplica PROVE DOMAIN apyReplica[i].rows \subseteq ApyDates
    <2>1. apyReplica \in Seq(Shown) /\ apyReplica[i] \in Shown
      BY DEF AInv, ReplicaOK
    <2>2. apyReplica[i].rows \in Rows
      BY <2>1 DEF Shown
    <2> QED
      BY <2>2, RowsAre
  <1>2. \A r \in ApyReaders : DOMAIN apyReads[r] \subseteq ApyDates
    BY RowsAre DEF AInv, ReplicaOK
  <1> QED
    BY <1>1, <1>2 DEF AInv, ATask, ApyTypeOK

LEMMA LatencyTypes == LInv /\ TrackersFit => LatTypeOK
  <1> SUFFICES ASSUME LInv, TrackersFit, NEW e \in DOMAIN trackers
               PROVE  trackers[e].lastAlert \in 0..latNow
    BY DEF LInv, TrackersFit, LatTypeOK
  <1> DEFINE log == alertLog[e]
  <1>1. /\ log \in Seq(1..latNow) /\ latNow \in Nat
        /\ trackers[e].lastAlert = IF log = << >> THEN 0 ELSE log[Len(log)]
    BY DEF LInv, LastKnown
  <1> HIDE DEF log
  <1>2. CASE log = << >>
    BY <1>1, <1>2
  <1>3. CASE log # << >>
    <2>1. log[Len(log)] \in 1..latNow
      BY <1>1, <1>3
    <2> QED
      BY <1>1, <1>3, <2>1
  <1> QED
    BY <1>2, <1>3

(* The state of every worker keeps its type: the batch of the email worker *)
(* and the points of a tracker within their bounds, the metrics of the     *)
(* backup summing up, a job in flight exactly while its scheduler runs.    *)
THEOREM WorkersTyped == Spec => []WorkersTypeOK
  <1> DEFINE All == /\ WInv /\ EInv /\ BatchFits /\ JInv /\ AInv /\ BInv /\ LInv /\ TrackersFit
  <1>1. Init => All
    <2>1. EmailInit => BatchFits
      BY DEF EmailInit, BatchFits
    <2> QED
      BY <2>1, WInvInit, EInvInit, JInvInit, AInvInit, BInvInit, LInvInit, TrackersFitInit DEF Init
  <1>2. All /\ [Next]_vars => All'
    <2> SUFFICES ASSUME All, [Next]_vars PROVE All'
      OBVIOUS
    <2>1. /\ [WhNext]_whVars /\ [EmailNext]_emailVars /\ [JobNext]_jobVars
          /\ [ApyNext]_apyVars /\ [BreakerNext]_breakerVars /\ [LatNext]_latVars
      BY WebhooksRun, EmailsRun, JobsRun, GuardsRun
    <2> QED
      BY <2>1, WInvStep, EInvStep, BatchFitsStep, JInvStep, AInvStep, BInvStep, LInvStep,
         TrackersFitStep
  <1>3. All => WorkersTypeOK
    BY WebhookTypes, EmailTypes, JobTypes, ApyTypes, LatencyTypes DEF BInv, WorkersTypeOK
  <1> HIDE DEF All
  <1> QED
    BY <1>1, <1>2, <1>3, PTL DEF Spec

-----------------------------------------------------------------------------
(* The event poller *)

\* The ledgers a task works on are numbers; its page holds events.
TaskType == [at : {"lock", "cursor", "head", "fetch", "events"},
             from : Int, to : Int, end : Int, todo : SUBSET Events]

\* Processed, or one of the known losses.
Known == processed \cup dropped

\* An activity that has a range has left nothing behind it.
BehindIsKnown ==
    \A x \in Instances \X Slots : task[x] # None /\ task[x].at \in {"head", "fetch", "events"}
        => \A e \in Events : LedgerOf[e] < task[x].from => e \in Known

\* What a page has returned is processed, lost, or still to be processed.
PageIsKnown ==
    \A x \in Instances \X Slots : task[x] # None /\ task[x].at = "events"
        => Within(task[x].from, task[x].end) \subseteq Known \cup task[x].todo

PInv ==
    /\ head \in Nat /\ cursor \in Int
    /\ task \in [Instances \X Slots -> TaskType \cup {None}]
    /\ BehindIsKnown /\ PageIsKnown /\ OnlyKnownLosses

\* Ledger numbers are natural numbers.
LEMMA LedgerType == \A e \in Events : LedgerOf[e] \in Int /\ LedgerOf[e] > 0
  <1>1. \A e \in Events : LedgerOf[e] \in 1..MaxLedger
    BY PollingAssumption DEF Events
  <1> QED
    BY <1>1, PollingAssumption

\* A batch ends at a ledger number.
LEMMA BatchEndType ==
    ASSUME NEW x, NEW from \in Int, NEW to \in Int
    PROVE  batch_end(x, from, to) \in Int
  <1> DEFINE a == from + batchSize - 1
  <1>1. a \in Int
    BY PollingAssumption
  <1>2. \E m \in {a, to} : \A y \in {a, to} : m <= y
    BY <1>1
  <1>3. Min({a, to}) \in {a, to}
    BY <1>2 DEF Min
  <1> QED
    BY <1>1, <1>3 DEF batch_end

LEMMA PInvInit == PollInit => PInv
  <1> SUFFICES ASSUME PollInit PROVE PInv
    OBVIOUS
  <1>1. OnlyKnownLosses
    BY LedgerType DEF PollInit, OnlyKnownLosses
  <1> QED
    BY <1>1 DEF PollInit, PInv, BehindIsKnown, PageIsKnown

\* A step that sets one task and leaves the cursor: the rest still hold, since
\* what is known only grows.
LEMMA OnePollTask ==
    ASSUME PInv, NEW x \in Instances \X Slots, NEW t \in TaskType \cup {None},
           task' = [task EXCEPT ![x] = t], head' \in Nat, cursor' \in Int,
           Known \subseteq Known', OnlyKnownLosses',
           t # None /\ t.at \in {"head", "fetch", "events"}
             => \A e \in Events : LedgerOf[e] < t.from => e \in Known',
           t # None /\ t.at = "events"
             => Within(t.from, t.end) \subseteq Known' \cup t.todo
    PROVE  PInv'
  <1>1. task' \in [Instances \X Slots -> TaskType \cup {None}]
    BY DEF PInv
  <1>2. \A y \in Instances \X Slots : task'[y] = IF y = x THEN t ELSE task[y]
    BY DEF PInv
  <1>3. BehindIsKnown'
    BY <1>2 DEF PInv, BehindIsKnown
  <1>4. PageIsKnown'
    BY <1>2 DEF PInv, PageIsKnown, Within
  <1> QED
    BY <1>1, <1>3, <1>4 DEF PInv

\* A step that only moves an instance, the lock or the head of the chain.
LEMMA PollQuietStep ==
    ASSUME PInv, UNCHANGED <<cursor, processed, dropped>>, head' \in Nat,
           \A x \in Instances \X Slots : task'[x] = task[x] \/ task'[x] = None,
           task' \in [Instances \X Slots -> TaskType \cup {None}]
    PROVE  PInv'
  <1>1. BehindIsKnown' /\ PageIsKnown'
    BY DEF PInv, BehindIsKnown, PageIsKnown, Known, Within
  <1> QED
    BY <1>1 DEF PInv, OnlyKnownLosses

\* The cursor passes only ledgers whose events are known.
LEMMA CursorStep ==
    ASSUME PInv, NEW x \in Instances \X Slots, updateCursor(x)
    PROVE  PInv'
  <1> DEFINE t == task[x]
  <1>a. t \in TaskType /\ t # None /\ t.at = "events" /\ t.todo = {}
    BY DEF updateCursor, batch_done, PInv
  <1>b. cursor' = t.end /\ UNCHANGED <<head, processed, dropped>>
    BY DEF updateCursor, dbVars
  <1>c. t.from \in Int /\ t.end \in Int /\ t.to \in Int
    BY <1>a DEF TaskType
  <1>1. \A e \in Events : LedgerOf[e] <= t.end => e \in Known
    <2> SUFFICES ASSUME NEW e \in Events, LedgerOf[e] <= t.end PROVE e \in Known
      OBVIOUS
    <2>1. CASE LedgerOf[e] < t.from
      BY <1>a, <2>1 DEF PInv, BehindIsKnown
    <2>2. CASE ~(LedgerOf[e] < t.from)
      <3>1. e \in Within(t.from, t.end)
        BY <1>c, <2>2, LedgerType DEF Within
      <3> QED
        BY <1>a, <3>1 DEF PInv, PageIsKnown
    <2> QED
      BY <2>1, <2>2
  <1>2. OnlyKnownLosses'
    BY <1>1, <1>b DEF OnlyKnownLosses, Known
  <1>3. Known' = Known
    BY <1>b DEF Known
  <1>4. CASE task' = [task EXCEPT ![x] = None]
    BY <1>b, <1>c, <1>2, <1>3, <1>4, OnePollTask DEF PInv
  <1>5. CASE task' = [task EXCEPT ![x] = [fresh(t.end + 1, t.to, "fetch")
                        EXCEPT !.end = batch_end(x, t.end + 1, t.to)]]
    <2> DEFINE n == [fresh(t.end + 1, t.to, "fetch")
                        EXCEPT !.end = batch_end(x, t.end + 1, t.to)]
    <2>1. batch_end(x, t.end + 1, t.to) \in Int
      BY <1>c, BatchEndType
    <2>2. n \in TaskType /\ n.at = "fetch" /\ n.from = t.end + 1
      BY <1>c, <2>1 DEF fresh, TaskType
    <2>3. \A e \in Events : LedgerOf[e] < n.from => e \in Known
      BY <1>1, <1>c, <2>2, LedgerType
    <2> HIDE DEF n
    <2> QED
      BY <1>b, <1>c, <1>2, <1>3, <1>5, <2>2, <2>3, OnePollTask DEF PInv, n
  <1> QED
    BY <1>4, <1>5 DEF updateCursor, returns, set

\* A page covers its range: what it leaves out is counted as dropped.
LEMMA FetchStep ==
    ASSUME PInv, NEW x \in Instances \X Slots, fetchEventsForLedgerRange(x)
    PROVE  PInv'
  <1> DEFINE t == task[x]
  <1>a. t \in TaskType /\ t # None /\ t.at = "fetch"
    BY DEF fetchEventsForLedgerRange, PInv
  <1>1. PICK p \in pages(t.from, t.end) :
            /\ task' = [task EXCEPT ![x] = [t EXCEPT !.at = "events", !.todo = p]]
            /\ dropped' = dropped \cup (Within(t.from, t.end) \ p)
            /\ UNCHANGED <<head, cursor, processed>>
    BY DEF fetchEventsForLedgerRange, set, dbVars
  <1> DEFINE n == [t EXCEPT !.at = "events", !.todo = p]
  <1>2. p \subseteq Events
    BY DEF pages, Within
  <1>3. n \in TaskType /\ n.at = "events" /\ n.from = t.from /\ n.end = t.end /\ n.todo = p
    BY <1>a, <1>2 DEF TaskType
  <1>4. Known \subseteq Known' /\ Within(t.from, t.end) \subseteq Known' \cup p
    BY <1>1 DEF Known
  <1>5. \A e \in Events : LedgerOf[e] < t.from => e \in Known'
    BY <1>a, <1>4 DEF PInv, BehindIsKnown
  <1>6. OnlyKnownLosses'
    BY <1>1 DEF PInv, OnlyKnownLosses
  <1>7. task' = [task EXCEPT ![x] = n] /\ head' \in Nat /\ cursor' \in Int
    BY <1>1 DEF PInv
  <1> HIDE DEF n
  <1> QED
    BY <1>3, <1>4, <1>5, <1>6, <1>7, OnePollTask

\* An event moves from the page to the processed ones.
LEMMA EventStep ==
    ASSUME PInv, NEW x \in Instances \X Slots, processEvent(x)
    PROVE  PInv'
  <1> DEFINE t == task[x]
             n == [t EXCEPT !.todo = @ \ {Min(@)}]
  <1>a. t \in TaskType /\ t # None /\ t.at = "events"
    BY DEF processEvent, PInv
  <1>1. /\ processed' = processed \cup {Min(t.todo)}
        /\ task' = [task EXCEPT ![x] = n]
        /\ UNCHANGED <<head, cursor, dropped>>
    BY DEF processEvent, set
  <1>2. /\ n \in TaskType /\ n.at = "events" /\ n.from = t.from /\ n.end = t.end
        /\ n.todo = t.todo \ {Min(t.todo)}
    BY <1>a DEF TaskType
  <1>3. Known \subseteq Known' /\ Known \cup t.todo \subseteq Known' \cup n.todo
    BY <1>1, <1>2 DEF Known
  <1>4. \A e \in Events : LedgerOf[e] < n.from => e \in Known'
    BY <1>a, <1>2, <1>3 DEF PInv, BehindIsKnown
  <1>5. Within(n.from, n.end) \subseteq Known' \cup n.todo
    BY <1>a, <1>2, <1>3 DEF PInv, PageIsKnown
  <1>6. OnlyKnownLosses'
    BY <1>1 DEF PInv, OnlyKnownLosses
  <1>7. head' \in Nat /\ cursor' \in Int
    BY <1>1 DEF PInv
  <1> HIDE DEF n
  <1> QED
    BY <1>1, <1>2, <1>3, <1>4, <1>5, <1>6, <1>7, OnePollTask

\* A task that begins, or reads the cursor or the head.
LEMMA CursorRead ==
    ASSUME PInv, NEW x \in Instances \X Slots, NEW n \in TaskType,
           task' = [task EXCEPT ![x] = n],
           UNCHANGED <<head, cursor, processed, dropped>>, n.at # "events",
           \/ n.at \in {"lock", "cursor"} \/ n.from = cursor + 1
           \/ task[x] # None /\ task[x].at = "head" /\ n.from = task[x].from
    PROVE  PInv'
  <1>1. Known' = Known /\ OnlyKnownLosses'
    BY DEF PInv, OnlyKnownLosses, Known
  <1>2. n.at \in {"head", "fetch", "events"}
           => \A e \in Events : LedgerOf[e] < n.from => e \in Known'
    <2>1. CASE n.from = cursor + 1
      BY <1>1, <2>1, LedgerType DEF PInv, OnlyKnownLosses, Known
    <2>2. CASE task[x] # None /\ task[x].at = "head" /\ n.from = task[x].from
      BY <1>1, <2>2 DEF PInv, BehindIsKnown
    <2> QED
      BY <2>1, <2>2
  <1> QED
    BY <1>1, <1>2, OnePollTask DEF PInv

\* The admin's replay: what lies between the cursor and its start is given up.
LEMMA ReplayRangeStep ==
    ASSUME PInv, NEW i \in Instances, NEW from \in Nat, NEW to \in Nat,
           replayEventsForRange(i, from, to)
    PROVE  PInv'
  <1> DEFINE x == <<i, "manual">>
             n == [fresh(from, to, "fetch") EXCEPT !.end = batch_end(x, from, to)]
  <1>1. /\ task' = [task EXCEPT ![x] = n]
        /\ dropped' = dropped \cup Within(cursor + 1, from - 1)
        /\ UNCHANGED <<head, cursor, processed>>
    BY DEF replayEventsForRange, set, dbVars
  <1>2. batch_end(x, from, to) \in Int
    BY BatchEndType
  <1>3. n \in TaskType /\ n.at = "fetch" /\ n.from = from
    BY <1>2 DEF fresh, TaskType
  <1>4. \A e \in Events : LedgerOf[e] < from => e \in Known'
    <2> SUFFICES ASSUME NEW e \in Events, LedgerOf[e] < from PROVE e \in Known'
      OBVIOUS
    <2>1. CASE LedgerOf[e] <= cursor
      BY <1>1, <2>1 DEF PInv, OnlyKnownLosses, Known
    <2>2. CASE ~(LedgerOf[e] <= cursor)
      <3>1. e \in Within(cursor + 1, from - 1)
        BY <2>2, LedgerType DEF PInv, Within
      <3> QED
        BY <1>1, <3>1 DEF Known
    <2> QED
      BY <2>1, <2>2
  <1>5. Known \subseteq Known' /\ OnlyKnownLosses' /\ head' \in Nat /\ cursor' \in Int
    BY <1>1 DEF PInv, OnlyKnownLosses, Known
  <1>6. x \in Instances \X Slots
    BY DEF Slots
  <1> HIDE DEF n, x
  <1> QED
    BY <1>1, <1>3, <1>4, <1>5, <1>6, OnePollTask

\* Every step of an activity.
LEMMA PollTaskStep ==
    ASSUME PInv, NEW x \in Instances \X Slots, taskStep(x)
    PROVE  PInv'
  <1> DEFINE t == task[x]
  <1>a. t # None => t \in TaskType
    BY DEF PInv
  <1>1. CASE acquireLeaderLock(x)
    <2>1. fresh(0, 0, "cursor") \in TaskType /\ fresh(0, 0, "cursor").at = "cursor"
      BY DEF fresh, TaskType
    <2> QED
      BY <1>1, <2>1, CursorRead DEF acquireLeaderLock, set, dbVars
  <1>2. CASE getLastProcessedLedger(x)
    <2> DEFINE n == fresh(cursor + 1, 0, "head")
    <2>1. n \in TaskType /\ n.at = "head" /\ n.from = cursor + 1
      BY DEF fresh, TaskType, PInv
    <2>2. /\ task' = [task EXCEPT ![x] = n]
          /\ UNCHANGED <<head, cursor, processed, dropped>>
      BY <1>2 DEF getLastProcessedLedger, first_missed, set, dbVars
    <2> HIDE DEF n
    <2> QED
      BY <2>1, <2>2, CursorRead
  <1>3. ASSUME NEW h \in {0, head}, getCurrentLedger(x, h) PROVE PInv'
    <2> DEFINE n == [t EXCEPT !.at = "fetch", !.to = h, !.end = batch_end(x, t.from, h)]
    <2>a. t \in TaskType /\ t # None /\ t.at = "head" /\ h \in Int
      BY <1>3, <1>a DEF getCurrentLedger, PInv
    <2>1. CASE task' = [task EXCEPT ![x] = None]
      <3>1. /\ \A y \in Instances \X Slots : task'[y] = task[y] \/ task'[y] = None
            /\ task' \in [Instances \X Slots -> TaskType \cup {None}]
        BY <2>1 DEF PInv
      <3> QED
        BY <1>3, <3>1, PollQuietStep DEF getCurrentLedger, dbVars, PInv
    <2>2. CASE task' = [task EXCEPT ![x] = n]
      <3>1. batch_end(x, t.from, h) \in Int
        BY <2>a, BatchEndType DEF TaskType
      <3>2. n \in TaskType /\ n.at = "fetch" /\ n.from = t.from
        BY <2>a, <3>1 DEF TaskType
      <3>3. UNCHANGED <<head, cursor, processed, dropped>>
        BY <1>3 DEF getCurrentLedger, dbVars
      <3> HIDE DEF n
      <3> QED
        BY <2>a, <2>2, <3>2, <3>3, CursorRead
    <2> QED
      BY <1>3, <2>1, <2>2 DEF getCurrentLedger, returns, set
  <1>4. CASE rejects(x)
    <2>1. /\ \A y \in Instances \X Slots : task'[y] = task[y] \/ task'[y] = None
          /\ task' \in [Instances \X Slots -> TaskType \cup {None}]
      BY <1>4 DEF rejects, set, PInv
    <2> QED
      BY <1>4, <2>1, PollQuietStep DEF rejects, dbVars, PInv
  <1> QED
    BY <1>1, <1>2, <1>3, <1>4, FetchStep, EventStep, CursorStep DEF taskStep

\* PInv holds after every step.
LEMMA PInvStep == PInv /\ [PollNext]_pollVars => PInv'
  <1> SUFFICES ASSUME PInv, [PollNext]_pollVars PROVE PInv'
    OBVIOUS
  <1>1. CASE UNCHANGED pollVars
    BY <1>1, PollQuietStep DEF pollVars, dbVars, PInv
  <1>2. ASSUME NEW x \in Instances \X Slots, taskStep(x) PROVE PInv'
    BY <1>2, PollTaskStep
  <1>3. ASSUME NEW i \in Instances, start(i) PROVE PInv'
    <2>1. /\ fresh(0, 0, "lock") \in TaskType /\ fresh(0, 0, "lock").at = "lock"
          /\ <<i, "start">> \in Instances \X Slots
      BY DEF fresh, TaskType, Slots
    <2> QED
      BY <1>3, <2>1, CursorRead DEF start, set, dbVars
  <1>4. ASSUME NEW i \in Instances, NEW p \in Polls, pollEvents(i, p) PROVE PInv'
    <2>1. /\ fresh(0, 0, "cursor") \in TaskType /\ fresh(0, 0, "cursor").at = "cursor"
          /\ <<i, p>> \in Instances \X Slots
      BY DEF fresh, TaskType, Slots
    <2> QED
      BY <1>4, <2>1, CursorRead DEF pollEvents, set, dbVars
  <1>5. ASSUME NEW i \in Instances, NEW m \in ManualRanges,
               replayEventsForRange(i, m[1], m[2])
        PROVE  PInv'
    <2>1. m[1] \in Nat /\ m[2] \in Nat
      BY PollingAssumption
    <2> QED
      BY <1>5, <2>1, ReplayRangeStep
  <1>6. ASSUME NEW i \in Instances, stop(i) \/ renewLock(i) PROVE PInv'
    BY <1>6, PollQuietStep DEF stop, renewLock, dbVars, PInv
  <1>7. ASSUME NEW i \in Instances, exit(i) PROVE PInv'
    <2>1. /\ \A y \in Instances \X Slots : task'[y] = task[y] \/ task'[y] = None
          /\ task' \in [Instances \X Slots -> TaskType \cup {None}]
      BY <1>7 DEF exit, PInv
    <2> QED
      BY <1>7, <2>1, PollQuietStep DEF exit, dbVars, PInv
  <1>8. CASE lockExpires \/ closeLedger \/ faultsEnd
    BY <1>8, PollQuietStep DEF lockExpires, closeLedger, faultsEnd, dbVars, PInv
  <1> QED
    BY <1>1, <1>2, <1>3, <1>4, <1>5, <1>6, <1>7, <1>8 DEF PollNext

\* eventPollingService.ts: the cursor passes an event that was not processed only
\* where a page left it out or an admin's replay began beyond it, through every
\* failed call, restart, change of leader, overlap of polls, and step back of
\* the cursor.
THEOREM LossesAreKnown == PollSpec => []OnlyKnownLosses
  <1>1. PInv => OnlyKnownLosses
    BY DEF PInv
  <1> QED
    BY <1>1, PInvInit, PInvStep, PTL DEF PollSpec

-----------------------------------------------------------------------------
(* What an event is lost to *)

\* The events of closed ledgers that come before e in the range of x.
ClosedBefore(x, e) ==
    {d \in Within(task[x].from, task[x].end) : LedgerOf[d] <= head /\ d < e}

\* A page without e although its range holds it: the body of an error was read
\* as an empty page, the page was full before e, or an admin's replay reached
\* beyond the latest ledger.
PageWithout(x, e) ==
    /\ fetchEventsForLedgerRange(x)
    /\ e \in Within(task[x].from, task[x].end)
    /\ \/ RpcErrorBodies /\ task'[x].todo = {}
       \/ Cardinality(ClosedBefore(x, e)) >= PageLimit
       \/ x[2] = "manual" /\ LedgerOf[e] > head

\* An admin's replay that starts beyond the cursor jumps e.
ReplayedBeyond(e) ==
    \E i \in Instances, m \in ManualRanges :
        /\ replayEventsForRange(i, m[1], m[2])
        /\ cursor < LedgerOf[e] /\ LedgerOf[e] < m[1]

LossHasItsCause ==
    \A e \in dropped' \ dropped :
        ReplayedBeyond(e) \/ \E x \in Instances \X Slots : PageWithout(x, e)

\* A range that the poller fetches of itself ends at a closed ledger.
RangesAreClosed ==
    \A x \in Instances \X Slots :
        x[2] # "manual" /\ task[x] # None /\ task[x].at \in {"fetch", "events"}
            => task[x].to <= head /\ task[x].end <= head

CInv == PInv /\ RangesAreClosed

\* A batch ends no later than the whole range.
LEMMA BatchEndBound ==
    ASSUME NEW x, NEW from \in Int, NEW to \in Int
    PROVE  batch_end(x, from, to) <= to
  <1> DEFINE a == from + batchSize - 1
  <1>1. a \in Int
    BY PollingAssumption
  <1>2. \E m \in {a, to} : \A y \in {a, to} : m <= y
    BY <1>1
  <1>3. Min({a, to}) <= to
    BY <1>2 DEF Min
  <1> QED
    BY <1>3 DEF batch_end

LEMMA CInvStep == CInv /\ [PollNext]_pollVars => CInv'
  <1> SUFFICES ASSUME CInv, [PollNext]_pollVars PROVE CInv'
    OBVIOUS
  <1>a. PInv /\ PInv'
    BY PInvStep DEF CInv
  <1>b. /\ head \in Nat /\ task \in [Instances \X Slots -> TaskType \cup {None}]
        /\ RangesAreClosed
    BY <1>a DEF CInv, PInv
  <1>1. ASSUME UNCHANGED head \/ head' = head + 1,
               \A x \in Instances \X Slots :
                  \/ x[2] = "manual"
                  \/ task'[x] \in {task[x], None}
                  \/ task'[x].at \notin {"fetch", "events"}
                  \/ task'[x].to <= head /\ task'[x].end <= head
        PROVE  CInv'
    <2>1. head <= head' /\ head' \in Nat
      BY <1>1, <1>b
    <2>2. ASSUME NEW x \in Instances \X Slots, x[2] # "manual", task'[x] # None,
                 task'[x].at \in {"fetch", "events"}
          PROVE  task'[x].to <= head' /\ task'[x].end <= head'
      <3>1. task'[x].to <= head /\ task'[x].end <= head
        BY <1>1, <1>b, <2>2 DEF RangesAreClosed
      <3>2. task'[x].to \in Int /\ task'[x].end \in Int
        BY <1>a, <2>2 DEF PInv, TaskType
      <3> QED
        BY <2>1, <3>1, <3>2, <1>b
    <2> QED
      BY <1>1, <1>a, <1>b, <2>2 DEF CInv, RangesAreClosed
  <1>2. CASE UNCHANGED pollVars
    BY <1>1, <1>2 DEF pollVars
  <1>3. ASSUME NEW x \in Instances \X Slots, taskStep(x) PROVE CInv'
    <2> DEFINE t == task[x]
    <2>a. t # None /\ t \in TaskType
      BY <1>3, <1>b DEF taskStep, acquireLeaderLock, getLastProcessedLedger,
         getCurrentLedger, fetchEventsForLedgerRange, processEvent, updateCursor, rejects
    <2>b. t.from \in Int /\ t.to \in Int /\ t.end \in Int
      BY <2>a DEF TaskType
    <2>1. CASE acquireLeaderLock(x) \/ getLastProcessedLedger(x)
      BY <2>1, <1>1, <1>b DEF acquireLeaderLock, getLastProcessedLedger, set, fresh
    <2>2. ASSUME NEW h \in {0, head}, getCurrentLedger(x, h) PROVE CInv'
      <3>1. h <= head /\ h \in Int /\ batch_end(x, t.from, h) <= h
            /\ batch_end(x, t.from, h) \in Int
        BY <1>b, <2>b, BatchEndBound, BatchEndType
      <3> DEFINE n == [t EXCEPT !.at = "fetch", !.to = h, !.end = batch_end(x, t.from, h)]
      <3>2. n.to <= head /\ n.end <= head
        BY <3>1, <1>b, <2>a DEF TaskType
      <3>3. UNCHANGED head
        BY <2>2 DEF getCurrentLedger
      <3>4. task' = [task EXCEPT ![x] = None] \/ task' = [task EXCEPT ![x] = n]
        BY <2>2 DEF getCurrentLedger, returns, set
      <3> HIDE DEF n
      <3> QED
        BY <1>1, <1>b, <3>2, <3>3, <3>4
    <2>3. CASE fetchEventsForLedgerRange(x)
      <3>1. t.at = "fetch" /\ (x[2] # "manual" => t.to <= head /\ t.end <= head)
        BY <2>3, <2>a, <1>b DEF fetchEventsForLedgerRange, RangesAreClosed
      <3>2. PICK p : /\ task' = [task EXCEPT ![x] = [t EXCEPT !.at = "events", !.todo = p]]
                     /\ UNCHANGED head
        BY <2>3 DEF fetchEventsForLedgerRange, set
      <3> DEFINE n == [t EXCEPT !.at = "events", !.todo = p]
      <3>3. n.to = t.to /\ n.end = t.end
        BY <2>a DEF TaskType
      <3>4. task' = [task EXCEPT ![x] = n]
        BY <3>2
      <3> HIDE DEF n
      <3> QED
        BY <1>1, <1>b, <3>1, <3>2, <3>3, <3>4
    <2>4. CASE processEvent(x)
      <3> DEFINE n == [t EXCEPT !.todo = @ \ {Min(@)}]
      <3>1. task' = [task EXCEPT ![x] = n] /\ UNCHANGED head /\ t.at = "events"
        BY <2>4 DEF processEvent, set
      <3>2. x[2] # "manual" => n.to <= head /\ n.end <= head
        BY <2>a, <3>1, <1>b DEF TaskType, RangesAreClosed
      <3> HIDE DEF n
      <3> QED
        BY <1>1, <1>b, <3>1, <3>2
    <2>5. CASE updateCursor(x)
      <3>1. x[2] # "manual" => t.to <= head /\ t.end <= head
        BY <2>5, <2>a, <1>b DEF updateCursor, batch_done, RangesAreClosed
      <3> DEFINE n == [fresh(t.end + 1, t.to, "fetch")
                         EXCEPT !.end = batch_end(x, t.end + 1, t.to)]
      <3>2. batch_end(x, t.end + 1, t.to) <= t.to /\ batch_end(x, t.end + 1, t.to) \in Int
        BY <2>b, BatchEndBound, BatchEndType
      <3>3. x[2] # "manual" => n.to <= head /\ n.end <= head
        BY <3>1, <3>2, <2>b, <1>b DEF fresh
      <3>4. task' = [task EXCEPT ![x] = None] \/ task' = [task EXCEPT ![x] = n]
        BY <2>5 DEF updateCursor, returns, set
      <3>5. UNCHANGED head
        BY <2>5 DEF updateCursor
      <3> HIDE DEF n
      <3> QED
        BY <1>1, <1>b, <3>3, <3>4, <3>5
    <2>6. CASE rejects(x)
      BY <2>6, <1>1, <1>b DEF rejects, set
    <2> QED
      BY <1>3, <2>1, <2>2, <2>3, <2>4, <2>5, <2>6 DEF taskStep
  <1>4. ASSUME NEW i \in Instances,
               start(i) \/ stop(i) \/ renewLock(i) \/ exit(i)
               \/ \E p \in Polls : pollEvents(i, p)
        PROVE  CInv'
    <2>1. CASE start(i) \/ \E p \in Polls : pollEvents(i, p)
      <3>1. PICK s \in Slots, l \in {"lock", "cursor"} :
              task' = [task EXCEPT ![<<i, s>>] = fresh(0, 0, l)]
        BY <2>1 DEF start, pollEvents, set, Slots
      <3>2. fresh(0, 0, l).at \notin {"fetch", "events"}
        BY DEF fresh
      <3>3. UNCHANGED head
        BY <2>1 DEF start, pollEvents
      <3> QED
        BY <1>1, <1>b, <3>1, <3>2, <3>3
    <2>2. CASE stop(i) \/ renewLock(i)
      BY <2>2, <1>1 DEF stop, renewLock
    <2>3. CASE exit(i)
      BY <2>3, <1>1, <1>b DEF exit
    <2> QED
      BY <1>4, <2>1, <2>2, <2>3
  <1>5. CASE lockExpires \/ closeLedger \/ faultsEnd
    BY <1>5, <1>1, <1>b DEF lockExpires, closeLedger, faultsEnd
  <1>6. ASSUME NEW i \in Instances, NEW m \in ManualRanges,
               replayEventsForRange(i, m[1], m[2])
        PROVE  CInv'
    BY <1>6, <1>1, <1>b DEF replayEventsForRange, set
  <1> QED
    BY <1>2, <1>3, <1>4, <1>5, <1>6 DEF PollNext

LEMMA EventsFinite == IsFiniteSet(Events)
  <1>1. Events = 1..Len(LedgerOf) /\ 1 \in Int /\ Len(LedgerOf) \in Int
    BY PollingAssumption DEF Events
  <1>2. IsFiniteSet(1..Len(LedgerOf))
    BY ONLY <1>1, FS_Interval
  <1> QED
    BY <1>1, <1>2

\* What a page leaves out it leaves out for one of the reasons given.
LEMMA PageLoss ==
    ASSUME CInv, NEW x \in Instances \X Slots, fetchEventsForLedgerRange(x),
           NEW e \in dropped' \ dropped
    PROVE  PageWithout(x, e)
  <1> DEFINE t == task[x]
             within == Within(t.from, t.end)
             closed == {d \in within : LedgerOf[d] <= head}
             first == {d \in closed : Cardinality({b \in closed : b < d}) < PageLimit}
  <1>a. /\ t \in TaskType /\ t # None /\ t.at = "fetch"
        /\ head \in Nat /\ task \in [Instances \X Slots -> TaskType \cup {None}]
    BY DEF fetchEventsForLedgerRange, CInv, PInv
  <1>1. PICK p \in pages(t.from, t.end) :
            /\ task' = [task EXCEPT ![x] = [t EXCEPT !.at = "events", !.todo = p]]
            /\ dropped' = dropped \cup (within \ p)
    BY DEF fetchEventsForLedgerRange, set
  <1>2. e \in within /\ e \notin p
    BY <1>1
  <1>3. p = first \/ (RpcErrorBodies /\ p = {})
    BY DEF pages
  <1>4. task'[x].todo = p
    BY <1>1, <1>a DEF TaskType
  <1>5. ASSUME p = first, LedgerOf[e] <= head
        PROVE  Cardinality(ClosedBefore(x, e)) >= PageLimit
    <2>1. e \in closed /\ ~(Cardinality({b \in closed : b < e}) < PageLimit)
      BY <1>2, <1>5
    <2>2. {b \in closed : b < e} = ClosedBefore(x, e)
      BY DEF ClosedBefore
    <2>3. IsFiniteSet(Events)
      BY EventsFinite
    <2>4. ClosedBefore(x, e) \in SUBSET Events
      BY DEF ClosedBefore, Within
    <2>5. Cardinality(ClosedBefore(x, e)) \in Nat
      BY <2>3, <2>4, FS_Subset, FS_CardinalityType
    <2>6. ~(Cardinality(ClosedBefore(x, e)) < PageLimit)
      <3>1. Cardinality({b \in closed : b < e}) = Cardinality(ClosedBefore(x, e))
        BY <2>2
      <3> HIDE DEF closed
      <3> QED
        BY <2>1, <3>1
    <2>7. PageLimit \in Int
      BY PollingAssumption
    <2>8. \A c \in Nat, l \in Int : ~(c < l) => c >= l
      OBVIOUS
    <2> QED
      BY ONLY <2>5, <2>6, <2>7, <2>8
  <1>6. ASSUME ~(LedgerOf[e] <= head) PROVE x[2] = "manual" /\ LedgerOf[e] > head
    <2>1. LedgerOf[e] \in Int /\ LedgerOf[e] <= t.end /\ t.end \in Int
      BY <1>2, <1>a, LedgerType DEF Within, TaskType
    <2>2. x[2] # "manual" => t.end <= head
      BY <1>a DEF CInv, RangesAreClosed
    <2> QED
      BY <1>6, <1>a, <2>1, <2>2
  <1> QED
    BY <1>2, <1>3, <1>4, <1>5, <1>6 DEF PageWithout

\* Nothing is lost but by a page or by an admin's replay.
LEMMA LossStep == CInv /\ [PollNext]_pollVars => LossHasItsCause
  <1> SUFFICES ASSUME CInv, [PollNext]_pollVars, NEW e \in dropped' \ dropped
               PROVE  ReplayedBeyond(e) \/ \E x \in Instances \X Slots : PageWithout(x, e)
    BY DEF LossHasItsCause
  <1>1. dropped' # dropped
    OBVIOUS
  <1>2. ASSUME NEW x \in Instances \X Slots, taskStep(x) PROVE PageWithout(x, e)
    <2>1. fetchEventsForLedgerRange(x)
      BY <1>1, <1>2 DEF taskStep, acquireLeaderLock, getLastProcessedLedger,
         getCurrentLedger, processEvent, updateCursor, rejects
    <2> QED
      BY <2>1, PageLoss
  <1>3. ASSUME NEW i \in Instances, NEW m \in ManualRanges,
               replayEventsForRange(i, m[1], m[2])
        PROVE  ReplayedBeyond(e)
    <2>1. e \in Within(cursor + 1, m[1] - 1)
      BY <1>3 DEF replayEventsForRange
    <2>2. cursor \in Int /\ m[1] \in Int /\ e \in Events /\ LedgerOf[e] \in Int
      BY <2>1, LedgerType, PollingAssumption DEF CInv, PInv, Within
    <2>3. LedgerOf[e] \in (cursor + 1)..(m[1] - 1)
      BY <2>1 DEF Within
    <2>4. cursor < LedgerOf[e] /\ LedgerOf[e] < m[1]
      BY <2>2, <2>3
    <2> QED
      BY <1>3, <2>4 DEF ReplayedBeyond
  <1> QED
    BY <1>1, <1>2, <1>3 DEF PollNext, pollVars, start, stop, renewLock, exit,
       pollEvents, lockExpires, closeLedger, faultsEnd

\* "Ensures no on-chain events are missed" (the claim the run EventMissed
\* refutes), and all that it takes to refute it: an event is given up only when
\* the body of an error is read as an empty page, when a page is full before it,
\* or when an admin's replay starts beyond the cursor or ends beyond the latest
\* ledger.  With LossesAreKnown: no failed call, restart, change of leader or
\* overlap of polls loses an event, whatever the ranges, limits and batches.
THEOREM LossesAreExplained == PollSpec => [][LossHasItsCause]_pollVars
  <1>1. PollInit => CInv
    BY PInvInit DEF PollInit, CInv, RangesAreClosed
  <1>2. CInv /\ [PollNext]_pollVars => CInv' /\ [LossHasItsCause]_pollVars
    BY CInvStep, LossStep
  <1> QED
    BY <1>1, <1>2, PTL DEF PollSpec
=============================================================================
