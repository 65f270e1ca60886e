--------------------------- MODULE ScheduledJobs ---------------------------
(***************************************************************************)
(* The server process with its two nightly schedulers and its shutdown:    *)
(* startApySnapshotScheduler (backend/src/apySnapshot.ts), the database    *)
(* backup (dbBackupJob.ts) under the retry policy of jobGovernance.ts, and *)
(* GracefulShutdownHandler (gracefulShutdown.ts), wired in index.ts.       *)
(*                                                                         *)
(* A scheduler is a timer that, when it fires, runs its job and arms       *)
(* itself again in a finally.  A failure that leaves the scheduler (any of *)
(* the APY job, the failure alert of the backup) is a rejection nobody     *)
(* handles and ends the process; a supervisor starts it again.             *)
(***************************************************************************)
EXTENDS Naturals, Sequences, FiniteSets, TLC

CONSTANTS BackupAttempts,    \* JOB_POLICIES.databaseBackup.maxAttempts
          BackupRetention,   \* BACKUP_RETENTION_DAYS
          MaxDays,           \* bound: days
          MaxRuns,           \* bound: backups of one process
          MaxConns,          \* bound: open connections
          MaxJobFaults       \* bound: failures of a job's steps

ASSUME JobAssumption ==
    /\ BackupAttempts \in Nat \ {0} /\ BackupRetention \in Nat \ {0}
    /\ MaxDays \in Nat /\ MaxRuns \in Nat /\ MaxConns \in Nat /\ MaxJobFaults \in Nat

VARIABLES
    proc,       \* "up", "cleaning" (cleanup tasks run), "closing", "down"
    timers,     \* scheduler -> "off", "armed", "running"
    backup,     \* the backup job: [step, attempt, whole]
    runtime,    \* its metrics: [total, ok, failed, inFlight]
    stored,     \* the bucket: set of [day, whole]
    day,
    conns,      \* open connections
    truncated,  \* history: a truncated dump was taken for a whole one
    jobFaults

jobVars == <<proc, timers, backup, runtime, stored, day, conns, truncated, jobFaults>>

Schedulers == {"apy", "backup"}
NoBackup == [step |-> "none", attempt |-> 0, whole |-> TRUE]
NoRuns == [total |-> 0, ok |-> 0, failed |-> 0, inFlight |-> 0]

JobTypeOK ==
    /\ proc \in {"up", "cleaning", "closing", "down"}
    /\ timers \in [Schedulers -> {"off", "armed", "running"}]
    /\ backup.step \in {"none", "dump", "upload", "prune", "failed", "alert"}
    /\ backup.attempt \in 0..BackupAttempts
    /\ (timers["backup"] = "running") = (backup.step # "none")
    /\ runtime.inFlight \in {0, 1} /\ runtime.total = runtime.ok + runtime.failed + runtime.inFlight
    /\ day \in 0..MaxDays /\ conns \in 0..MaxConns /\ jobFaults \in 0..MaxJobFaults

Armed == [s \in Schedulers |-> "armed"]

JobInit ==
    /\ proc = "up" /\ timers = Armed
    /\ backup = NoBackup /\ runtime = NoRuns /\ stored = {} /\ day = 0
    /\ conns = 0 /\ truncated = FALSE /\ jobFaults = 0

Alive == proc # "down"
JobFault == jobFaults < MaxJobFaults /\ jobFaults' = jobFaults + 1

\* The process ends: its jobs, timers and connections with it.
Exit ==
    /\ proc' = "down"
    /\ timers' = [s \in Schedulers |-> "off"] /\ backup' = NoBackup /\ runtime' = NoRuns
    /\ conns' = 0
    /\ UNCHANGED <<stored, day, truncated>>

-----------------------------------------------------------------------------
(* The schedulers. *)

fireApy ==
    /\ Alive /\ timers["apy"] = "armed"
    /\ timers' = [timers EXCEPT !["apy"] = "running"]
    /\ UNCHANGED <<proc, backup, runtime, stored, day, conns, truncated, jobFaults>>

\* The job ends and the scheduler arms itself, even if it was stopped while
\* the job ran; a failed job then ends the process.
startApySnapshotScheduler(ok) ==
    /\ Alive /\ timers["apy"] = "running"
    /\ IF ok THEN /\ timers' = [timers EXCEPT !["apy"] = "armed"]
                  /\ UNCHANGED <<proc, backup, runtime, stored, day, conns, truncated, jobFaults>>
             ELSE JobFault /\ Exit

\* markStarted, and the first attempt.
fireBackup ==
    /\ Alive /\ timers["backup"] = "armed" /\ runtime.total < MaxRuns
    /\ timers' = [timers EXCEPT !["backup"] = "running"]
    /\ backup' = [step |-> "dump", attempt |-> 1, whole |-> TRUE]
    /\ runtime' = [runtime EXCEPT !.total = @ + 1, !.inFlight = @ + 1]
    /\ UNCHANGED <<proc, stored, day, conns, truncated, jobFaults>>

BackupStep(at) == Alive /\ backup.step = at
BackupOnly == UNCHANGED <<proc, timers, runtime, day, conns>>

\* The dump is whole, or fails and is seen to, or pg_dump fails and the end of
\* its compressed output is seen before its exit code.
dumpDatabase(outcome) ==
    /\ BackupStep("dump") /\ outcome \in {"whole", "failed", "truncated"}
    /\ backup' = [backup EXCEPT !.step = IF outcome = "failed" THEN "failed" ELSE "upload",
                                !.whole = outcome = "whole"]
    /\ truncated' = (truncated \/ outcome = "truncated")
    /\ IF outcome = "whole" THEN UNCHANGED jobFaults ELSE JobFault
    /\ BackupOnly /\ UNCHANGED stored

uploadBackup(ok) ==
    /\ BackupStep("upload")
    /\ backup' = [backup EXCEPT !.step = IF ok THEN "prune" ELSE "failed"]
    /\ stored' = IF ok THEN stored \cup {[day |-> day, whole |-> backup.whole]} ELSE stored
    /\ IF ok THEN UNCHANGED jobFaults ELSE JobFault
    /\ BackupOnly /\ UNCHANGED truncated

pastRetention == {b \in stored : b.day + BackupRetention < day}

\* Mutant: the newest one goes too.
pruned_all == {}

pruned == stored \ pastRetention

markCompleted(ok) ==
    runtime' = [runtime EXCEPT !.inFlight = @ - 1, !.ok = @ + IF ok THEN 1 ELSE 0,
                               !.failed = @ + IF ok THEN 0 ELSE 1]

ReArm ==
    /\ timers' = [timers EXCEPT !["backup"] = "armed"]
    /\ backup' = NoBackup

\* The last step of a run: success, or any one delete may have failed, with
\* those before it done.
pruneOldBackups(ok) ==
    /\ BackupStep("prune")
    /\ IF ok THEN /\ stored' = pruned /\ markCompleted(TRUE) /\ ReArm
                  /\ UNCHANGED jobFaults
             ELSE /\ \E some \in SUBSET pastRetention : stored' = stored \ some
                  /\ backup' = [backup EXCEPT !.step = "failed"] /\ JobFault
                  /\ UNCHANGED <<runtime, timers>>
    /\ UNCHANGED <<proc, day, conns, truncated>>

retries(n) == n < BackupAttempts

\* After the back-off the next attempt starts from the dump; after the last,
\* recordDeadLetter and the alert.
runJobWithRetry ==
    /\ BackupStep("failed")
    /\ IF retries(backup.attempt)
         THEN /\ backup' = [step |-> "dump", attempt |-> backup.attempt + 1, whole |-> TRUE]
              /\ UNCHANGED runtime
         ELSE /\ backup' = [backup EXCEPT !.step = "alert"] /\ markCompleted(FALSE)
    /\ UNCHANGED <<proc, timers, stored, day, conns, truncated, jobFaults>>

\* Slack's failure is caught, the queueing of the email is not.
sendBackupFailureAlert(ok) ==
    /\ BackupStep("alert")
    /\ IF ok THEN /\ ReArm
                  /\ UNCHANGED <<proc, runtime, stored, day, conns, truncated, jobFaults>>
             ELSE JobFault /\ Exit

-----------------------------------------------------------------------------
(* Shutdown. *)

\* The cleanup tasks stop the schedulers: a running job has no timer to stop.
stopSchedulers == [s \in Schedulers |-> IF timers[s] = "armed" THEN "off" ELSE timers[s]]

shutdown ==
    /\ proc = "up"
    /\ proc' = "cleaning" /\ timers' = stopSchedulers
    /\ UNCHANGED <<backup, runtime, stored, day, conns, truncated, jobFaults>>

\* Once every task has ended the server takes no more connections.
cleanupDone ==
    /\ proc = "cleaning" /\ proc' = "closing"
    /\ UNCHANGED <<timers, backup, runtime, stored, day, conns, truncated, jobFaults>>

\* The server's close callback ends the process.
serverClosed == proc = "closing" /\ conns = 0 /\ Exit /\ UNCHANGED jobFaults

drainTimeout == proc \in {"cleaning", "closing"} /\ Exit /\ UNCHANGED jobFaults

\* A second signal closes a server that is closed already: the callback comes
\* at once, with an error it does not look at.
shutdownAgain == proc = "closing" /\ Exit /\ UNCHANGED jobFaults

connection ==
    /\ proc \in {"up", "cleaning"} /\ conns < MaxConns /\ conns' = conns + 1
    /\ UNCHANGED <<proc, timers, backup, runtime, stored, day, truncated, jobFaults>>

connectionClosed ==
    /\ conns > 0 /\ conns' = conns - 1
    /\ UNCHANGED <<proc, timers, backup, runtime, stored, day, truncated, jobFaults>>

restart ==
    /\ proc = "down" /\ proc' = "up" /\ timers' = Armed
    /\ UNCHANGED <<backup, runtime, stored, day, conns, truncated, jobFaults>>

\* The prune follows its upload at once and takes the cutoff of that moment.
newDay ==
    /\ day < MaxDays /\ backup.step # "prune"
    /\ day' = day + 1
    /\ UNCHANGED <<proc, timers, backup, runtime, stored, conns, truncated, jobFaults>>

jobStep == \/ \E ok \in BOOLEAN : \/ startApySnapshotScheduler(ok) \/ uploadBackup(ok)
                                  \/ pruneOldBackups(ok) \/ sendBackupFailureAlert(ok)
           \/ \E o \in {"whole", "failed", "truncated"} : dumpDatabase(o)
           \/ runJobWithRetry

JobNext ==
    \/ fireApy \/ fireBackup \/ jobStep
    \/ shutdown \/ cleanupDone \/ serverClosed \/ drainTimeout \/ shutdownAgain
    \/ connection \/ connectionClosed \/ restart \/ newDay

-----------------------------------------------------------------------------
(* Properties. *)

\* runDbBackupJob uploads before it prunes, and every retry begins with a new
\* dump: through failures, retries, crashes and days without a backup, once a
\* whole backup is in the bucket there is always one, unless a truncated dump
\* was taken for a whole one.
WholeBackupKept ==
    [][(\E b \in stored : b.whole) => truncated' \/ \E b \in stored' : b.whole]_jobVars

\* shutdown: with whatever connections and jobs, the process ends.
ShutdownEnds == (proc = "cleaning") ~> (proc = "down")
=============================================================================
