----------------------------- MODULE EmailQueue -----------------------------
(***************************************************************************)
(* The email queue and its worker (backend/src/emailQueue.ts) and the      *)
(* provider call behind it (emailService.ts).  The rows are in the         *)
(* database and survive a crash; the batch the worker holds does not.      *)
(* Every write of the worker may fail, and is a step of its own.           *)
(***************************************************************************)
EXTENDS Naturals, Sequences, FiniteSets, SequencesExt, TLC

CONSTANTS
    Emails,          \* a set of naturals: ids in the order of creation
    EmailMaxRetries, \* maxRetries of a row
    EmailBatch,      \* rows a run of the worker takes
    MaxEmailFaults,  \* bound: failed writes and crashes
    MaxReplays       \* bound: replays by an administrator

ASSUME EmailAssumption ==
    /\ Emails \subseteq Nat
    /\ EmailMaxRetries \in Nat \ {0} /\ EmailBatch \in Nat \ {0}
    /\ MaxEmailFaults \in Nat /\ MaxReplays \in Nat

VARIABLES
    mail,      \* rows: id -> [status, retryCount, due]
    batch,     \* the rows the worker read, as it read them; << >> when idle
    step,      \* what the worker does next with the first of them
    sent,      \* history: times the provider took the email
    excuse,    \* history: replays, and sends whose record was lost
    refused,   \* history: failed tries
    faults, replays

emailVars == <<mail, batch, step, sent, excuse, refused, faults, replays>>

EmailStatus == {"pending", "processing", "completed", "failed", "dead-letter"}

EmailTypeOK ==
    /\ DOMAIN mail \subseteq Emails
    /\ \A e \in DOMAIN mail :
         mail[e] \in [status: EmailStatus, retryCount: 0..EmailMaxRetries, due: BOOLEAN]
    /\ step \in {"idle", "mark", "send", "complete", "fail"}
    /\ Len(batch) <= EmailBatch
    /\ (step = "idle") = (batch = << >>)
    /\ \A i \in DOMAIN batch : batch[i].id \in DOMAIN mail

EmailInit ==
    /\ mail = << >> /\ batch = << >> /\ step = "idle"
    /\ sent = [e \in Emails |-> 0] /\ excuse = [e \in Emails |-> 0]
    /\ refused = [e \in Emails |-> 0]
    /\ faults = 0 /\ replays = 0

-----------------------------------------------------------------------------
NewMail == [status |-> "pending", retryCount |-> 0, due |-> TRUE]

enqueueEmail(e) ==
    /\ e \notin DOMAIN mail
    /\ \A f \in DOMAIN mail : f < e
    /\ mail' = [f \in DOMAIN mail \cup {e} |-> IF f = e THEN NewMail ELSE mail[f]]
    /\ UNCHANGED <<batch, step, sent, excuse, refused, faults, replays>>

\* Mutant: rows in any state.
dueRows_any == {e \in DOMAIN mail : mail[e].due}

dueRows == {e \in DOMAIN mail : mail[e].status \in {"pending", "failed"}
                                  /\ mail[e].due}

\* The worker's timer, when no run is under way: the oldest rows that are due.
processQueue ==
    /\ step = "idle" /\ dueRows # {}
    /\ \E old \in SetToSeqs(dueRows) :
         LET n == IF Len(old) < EmailBatch THEN Len(old) ELSE EmailBatch
         IN  /\ \A i, j \in DOMAIN old : i < j => old[i] < old[j]
             /\ batch' = [i \in 1..n |-> [id |-> old[i], retryCount |-> mail[old[i]].retryCount]]
    /\ step' = "mark"
    /\ UNCHANGED <<mail, sent, excuse, refused, faults, replays>>

Row == batch[1].id
Fault == faults < MaxEmailFaults /\ faults' = faults + 1
NextRow == batch' = Tail(batch) /\ step' = IF Len(batch) = 1 THEN "idle" ELSE "mark"

\* processEmail up to the send.
markProcessing(ok) ==
    /\ step = "mark"
    /\ IF ok THEN mail' = [mail EXCEPT ![Row].status = "processing"] /\ UNCHANGED faults
             ELSE Fault /\ UNCHANGED mail
    /\ step' = IF ok THEN "send" ELSE "fail"
    /\ UNCHANGED <<batch, sent, excuse, refused, replays>>

afterSend(ok) == step' = (IF ok THEN "complete" ELSE "fail") /\ UNCHANGED batch

\* The provider takes the email or refuses it; sendEmailDirectly never throws.
sendEmailDirectly(ok) ==
    /\ step = "send"
    /\ sent' = [sent EXCEPT ![Row] = @ + IF ok THEN 1 ELSE 0]
    /\ refused' = [refused EXCEPT ![Row] = @ + IF ok THEN 0 ELSE 1]
    /\ afterSend(ok)
    /\ UNCHANGED <<mail, excuse, faults, replays>>

\* A sent email is recorded, or the write fails and the catch treats the
\* email as refused.
recordSent(ok) ==
    /\ step = "complete"
    /\ IF ok THEN /\ mail' = [mail EXCEPT ![Row].status = "completed"]
                  /\ NextRow /\ UNCHANGED <<excuse, refused, faults>>
             ELSE /\ Fault /\ step' = "fail"
                  /\ excuse' = [excuse EXCEPT ![Row] = @ + 1]
                  /\ refused' = [refused EXCEPT ![Row] = @ + 1]
                  /\ UNCHANGED <<mail, batch>>
    /\ UNCHANGED <<sent, replays>>

\* The row after a failure, from the count the worker read with its batch.
afterFailure(n) ==
    [status |-> IF n + 1 >= EmailMaxRetries THEN "dead-letter" ELSE "failed",
     retryCount |-> n + 1, due |-> FALSE]

\* When this write fails too, the exception ends the whole run.
handleFailure(ok) ==
    /\ step = "fail"
    /\ IF ok THEN /\ mail' = [mail EXCEPT ![Row] = afterFailure(batch[1].retryCount)]
                  /\ NextRow /\ UNCHANGED faults
             ELSE /\ Fault /\ batch' = << >> /\ step' = "idle" /\ UNCHANGED mail
    /\ UNCHANGED <<sent, excuse, refused, replays>>

\* nextRetryAt is reached.
retryDue(e) ==
    /\ e \in DOMAIN mail /\ mail[e].status = "failed" /\ ~mail[e].due
    /\ mail' = [mail EXCEPT ![e].due = TRUE]
    /\ UNCHANGED <<batch, step, sent, excuse, refused, faults, replays>>

\* The row is set back, in whatever state it is.
replayEmail(e) == [mail EXCEPT ![e] = NewMail]

\* POST /admin/emails/replay/:id, even while the worker holds the row; one
\* there is none of is answered 404.
postEmailReplay(e) ==
    /\ e \in DOMAIN mail /\ replays < MaxReplays
    /\ mail' = replayEmail(e)
    /\ replays' = replays + 1
    /\ excuse' = [excuse EXCEPT ![e] = @ + 1]
    /\ UNCHANGED <<batch, step, sent, refused, faults>>

\* The process dies and starts again.
emailCrash ==
    /\ step # "idle" /\ Fault
    /\ batch' = << >> /\ step' = "idle"
    /\ excuse' = [excuse EXCEPT ![Row] = @ + IF step = "complete" THEN 1 ELSE 0]
    /\ UNCHANGED <<mail, sent, refused, replays>>

emailWork ==
    \/ processQueue
    \/ \E ok \in BOOLEAN : \/ markProcessing(ok) \/ sendEmailDirectly(ok)
                           \/ recordSent(ok) \/ handleFailure(ok)

EmailNext ==
    \/ emailWork \/ emailCrash
    \/ \E e \in Emails : enqueueEmail(e) \/ retryDue(e) \/ postEmailReplay(e)

-----------------------------------------------------------------------------
(* Properties. *)

\* processEmail: the provider gets an email a second time only after a replay
\* or after a send whose record was lost, to a failed write or a crash.
DuplicatesExplained == \A e \in Emails : sent[e] <= 1 + excuse[e]

\* handleFailure works with the count it read at the start of the batch, and
\* a replay may reset the row meanwhile; still an email is given up only after
\* maxRetries failed tries or failed writes, and called completed only if the
\* provider took it.
GivenUpWasTried ==
    \A e \in DOMAIN mail :
        /\ (mail[e].status = "dead-letter" => refused[e] + faults >= EmailMaxRetries)
        /\ (mail[e].status = "completed" => sent[e] > 0)

\* A row nobody will look at again: the worker takes only pending and failed
\* rows, so one left in processing by a crash or a double failure stays.
Stranded(e) ==
    e \in DOMAIN mail /\ mail[e].status = "processing" /\ (batch = << >> \/ Row # e)

\* Rows are stranded only by faults: one fault strands one row at most.
StrandedByFaults == Cardinality({e \in Emails : Stranded(e)}) <= faults

\* processQueue: every queued email is sent, given up or stranded in the end.
EmailsSettle ==
    \A e \in Emails :
        (e \in DOMAIN mail) ~>
            (e \in DOMAIN mail /\ (\/ mail[e].status \in {"completed", "dead-letter"}
                                   \/ Stranded(e)))

\* What a row says of its email is what happened; what the rows do not tell
\* is owed to faults, one each.
EmailsAccounted == DuplicatesExplained /\ GivenUpWasTried /\ StrandedByFaults
=============================================================================
