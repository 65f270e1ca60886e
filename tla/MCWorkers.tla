------------------------------ MODULE MCWorkers ------------------------------
(***************************************************************************)
(* The background work of the server, one worker at a time: webhook        *)
(* deliveries, the email queue, the scheduled jobs and the shutdown that   *)
(* stops them, the APY snapshots, the circuit breaker before the RPC, and  *)
(* the latency alerts.  They share no state, so exploring each beside the  *)
(* initial states of the others loses no behaviour of any of them.         *)
(***************************************************************************)
EXTENDS Webhooks, EmailQueue, ScheduledJobs, ApySnapshots, CircuitBreaker, LatencyAlerts

VARIABLE focus   \* the worker that is explored

guardVars == <<breakerVars, latVars>>
workVars  == <<whVars, emailVars, jobVars, apyVars>>
vars      == <<focus, workVars, guardVars>>

OnWebhooks(A) == focus = "webhooks" /\ A /\ UNCHANGED <<focus, guardVars, emailVars, jobVars, apyVars>>
OnEmails(A)   == focus = "emails" /\ A /\ UNCHANGED <<focus, guardVars, whVars, jobVars, apyVars>>
OnJobs(A)     == focus = "jobs" /\ A /\ UNCHANGED <<focus, guardVars, whVars, emailVars, apyVars>>
OnApy(A)      == focus = "apy" /\ A /\ UNCHANGED <<focus, guardVars, whVars, emailVars, jobVars>>
OnBreaker(A)  == focus = "breaker" /\ A /\ UNCHANGED <<focus, workVars, latVars>>
OnLatency(A)  == focus = "latency" /\ A /\ UNCHANGED <<focus, workVars, breakerVars>>

Init ==
    /\ focus \in {"webhooks", "emails", "jobs", "apy", "breaker", "latency"}
    /\ WhInit /\ EmailInit /\ JobInit /\ ApyInit /\ BreakerInit /\ LatInit

Next ==
    \/ OnWebhooks(WhNext)
    \/ OnEmails(EmailNext)
    \/ OnJobs(JobNext)
    \/ OnApy(ApyNext)
    \/ OnBreaker(BreakerNext)
    \/ OnLatency(LatNext)

\* The event loop runs every continuation and every timer that is due; the clock
\* runs, every RPC call returns and callers keep calling.
Spec ==
    /\ Init /\ [][Next]_vars
    /\ \A d \in 1..MaxDeliveries : WF_vars(OnWebhooks(DeliveryStep(d)))
    /\ WF_vars(OnEmails(emailWork))
    /\ \A e \in Emails : WF_vars(OnEmails(retryDue(e)))
    /\ WF_vars(OnJobs(drainTimeout))
    /\ WF_vars(OnBreaker(tick))
    /\ \A c \in Calls : /\ WF_vars(OnBreaker(execute(c)))
                        /\ WF_vars(OnBreaker(onSuccess(c) \/ onFailure(c)))
    /\ WF_vars(OnLatency(checkSLOViolations))

\* The state of every worker is well typed.
WorkersTypeOK == WhTypeOK /\ EmailTypeOK /\ JobTypeOK /\ ApyTypeOK /\ BreakerTypeOK /\ LatTypeOK

\* What a job has stored, another does not destroy: the backups, and the APY
\* snapshots, of which the copy in memory follows the table.
StoredIsKept == WholeBackupKept /\ BackfillKeepsOlder /\ []CopyFollowsTable

\* The guards before and around a handler do what they are for: the breaker
\* opens when calls keep failing, and no endpoint is alerted all the time.
GuardsHold == OpensWithinTwoWindows /\ AlertsSpaced

\* All that is put off is done in the end: deliveries and emails are settled, a
\* shutdown ends, the breaker closes after an outage, a breach is alerted.
WorkSettles ==
    DeliveriesSettle /\ EmailsSettle /\ ShutdownEnds /\ Recovers /\ BreachIsAlerted
=============================================================================
