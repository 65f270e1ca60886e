------------------------------- MODULE Exports -------------------------------
(***************************************************************************)
(* Exports: the transaction export with its recorded, verifiable checksum  *)
(* (backend/src/listEndpoints.ts, exportJobs.ts) and the bulk export jobs, *)
(* kept in memory and copied to the database by writes nobody waits for    *)
(* (bulkExportJobs.ts).  An artifact is told by the wallet and the format  *)
(* it was made for, and so is its checksum.                                *)
(***************************************************************************)
EXTENDS Naturals, Sequences, FiniteSets

CONSTANTS
    ExportWallets,    \* wallets
    ExportCalls,      \* concurrent export requests
    MaxExports,       \* bound: recorded exports
    BulkJobs,         \* bulk export jobs
    BulkBatches,      \* progress updates of a job
    MaxExportFaults   \* bound: failed writes and restarts

ASSUME ExportAssumption ==
    /\ MaxExports \in Nat /\ MaxExportFaults \in Nat
    /\ BulkBatches \in Nat \ {0}
    /\ {"key", "none"} \cap ExportWallets = {}

VARIABLES
    exportRows,   \* the ExportJob table: a sequence of [wallet, checksum]
    exporting,    \* call -> [by, artifact, wallet]: the row is being inserted
    held,         \* history: what callers got: set of [by, artifact, job]
    verdicts,     \* history: the last verification, {[job, artifact, valid]}
    bulk,         \* jobs in memory: job -> version; the last is "completed"
    bulkRow,      \* the BulkExportJob table: job -> version
    writes,       \* upserts under way: set of <<job, version>>
    artifacts,    \* jobs whose artifact is in memory
    astray,       \* history: jobs with an upsert lost or overtaken
    exportFaults

exportVars == <<exportRows, exporting, held, verdicts, bulk, bulkRow, writes,
                artifacts, astray, exportFaults>>
bulkVars == <<bulk, bulkRow, writes, artifacts, astray>>
singleVars == <<exportRows, exporting, held, verdicts>>

\* pending, processing, total known, the batches, completed.
LastVersion == BulkBatches + 4
NoExport == [by |-> "none", artifact |-> "none", wallet |-> "none"]

ExportTypeOK ==
    /\ \A i \in DOMAIN exportRows :
         exportRows[i].wallet \in ExportWallets /\ exportRows[i].checksum.wallet \in ExportWallets
    /\ DOMAIN bulk \subseteq BulkJobs /\ DOMAIN bulkRow \subseteq BulkJobs
    /\ \A j \in DOMAIN bulkRow : bulkRow[j] \in 1..LastVersion
    /\ artifacts = DOMAIN bulk
    /\ astray \subseteq BulkJobs

ExportInit ==
    /\ exportRows = << >> /\ held = {} /\ verdicts = {}
    /\ exporting = [c \in ExportCalls |-> NoExport]
    /\ bulk = << >> /\ bulkRow = << >> /\ writes = {} /\ artifacts = {}
    /\ astray = {} /\ exportFaults = 0

ExportFault == exportFaults < MaxExportFaults /\ exportFaults' = exportFaults + 1

-----------------------------------------------------------------------------
(* GET /vault/transactions/export, by a wallet with its token or by "key", *)
(* an API key (which the role check always takes for an administrator's).  *)

\* The wallet to export; "none": the request is refused with 400 or 403.
exportWallet(by, requested) ==
    IF by = "key" THEN requested
    ELSE IF requested \in {"none", by} THEN by ELSE "none"

buildTransactionExportArtifact(wallet, format) == [wallet |-> wallet, format |-> format]

\* The artifact is built; then the insert of its row is awaited.
exportTransactions(c, by, requested, format) ==
    /\ exporting[c] = NoExport /\ Len(exportRows) < MaxExports
    /\ LET w == exportWallet(by, requested)
       IN /\ w # "none"
          /\ exporting' = [exporting EXCEPT ![c] =
                 [by |-> by, artifact |-> buildTransactionExportArtifact(w, format), wallet |-> w]]
    /\ UNCHANGED <<exportRows, held, verdicts, exportFaults>> /\ UNCHANGED bulkVars

sentAfter(ok) == ok

\* The insert ends: the artifact is sent, or a 500.
recordExportJob(c, ok) ==
    /\ exporting[c] # NoExport
    /\ LET x == exporting[c]
           id == Len(exportRows) + 1
       IN /\ IF ok THEN /\ exportRows' = Append(exportRows, [wallet |-> x.wallet, checksum |-> x.artifact])
                        /\ UNCHANGED exportFaults
                   ELSE ExportFault /\ UNCHANGED exportRows
          /\ held' = IF sentAfter(ok)
                     THEN held \union {[by |-> x.by, artifact |-> x.artifact, job |-> id]} ELSE held
    /\ exporting' = [exporting EXCEPT ![c] = NoExport]
    /\ UNCHANGED verdicts /\ UNCHANGED bulkVars

getExportJobById(id) == {exportRows[i] : i \in DOMAIN exportRows \cap {id}}

\* POST /admin/exports/jobs/:id/verify, with the checksum of what one holds.
verifyExport(id, x) ==
    /\ \E row \in getExportJobById(id) :
         verdicts' = {[job |-> id, artifact |-> x.artifact,
                       valid |-> row.checksum = x.artifact]}
    /\ UNCHANGED <<exportRows, exporting, held, exportFaults>> /\ UNCHANGED bulkVars

-----------------------------------------------------------------------------
(* Bulk export.  Nothing the job awaits lets another request in: it runs   *)
(* to its end, with one unawaited upsert per change.                       *)

\* Mutant: the last change is not written.
persisted_early(j) == {<<j, v>> : v \in 1..(LastVersion - 1)}

\* persistBulkExportJob, called by create and by every update.
persisted(j) == {<<j, v>> : v \in 1..LastVersion}

\* The job as it is when the other requests go on: completed.
processBulkExportJob(j) ==
    [k \in DOMAIN bulk \union {j} |-> IF k = j THEN LastVersion ELSE bulk[k]]

buildBulkExportArtifact(j) == artifacts \union {j}

\* POST /admin/exports/bulk: createBulkExportJob, then processBulkExportJob,
\* which nobody waits for.
postBulkExport(j) ==
    /\ j \notin DOMAIN bulk /\ j \notin DOMAIN bulkRow /\ ~\E v \in 1..LastVersion : <<j, v>> \in writes
    /\ bulk' = processBulkExportJob(j)
    /\ artifacts' = buildBulkExportArtifact(j)
    /\ writes' = writes \union persisted(j)
    /\ UNCHANGED <<bulkRow, astray, exportFaults>> /\ UNCHANGED singleVars

\* A job can be cancelled until it is over.
cancelBulkExportJob(j) == j \in DOMAIN bulk /\ bulk[j] < LastVersion

\* POST /admin/exports/bulk/jobs/:id/cancel finds every job over: it is
\* answered 409, or 404, and changes nothing.
postBulkCancel(j) == ~cancelBulkExportJob(j) /\ UNCHANGED exportVars

\* The database applies the upserts in any order; one may fail unnoticed.
upsert(j, v, ok) ==
    /\ <<j, v>> \in writes
    /\ writes' = writes \ {<<j, v>>}
    /\ IF ok THEN /\ bulkRow' = [k \in DOMAIN bulkRow \union {j} |-> IF k = j THEN v ELSE bulkRow[k]]
                  /\ UNCHANGED exportFaults
             ELSE ExportFault /\ UNCHANGED bulkRow
    /\ astray' = IF ~ok \/ \E u \in 1..(v - 1) : <<j, u>> \in writes
                 THEN astray \union {j} ELSE astray
    /\ UNCHANGED <<bulk, artifacts>> /\ UNCHANGED singleVars

\* The process restarts: jobs, artifacts and what was under way are gone.
exportRestart ==
    /\ ExportFault
    /\ bulk' = << >> /\ artifacts' = {} /\ writes' = {}
    /\ astray' = astray \union {w[1] : w \in writes}
    /\ exporting' = [c \in ExportCalls |-> NoExport]
    /\ UNCHANGED <<bulkRow, exportRows, held, verdicts>>

ExportNext ==
    \/ \E c \in ExportCalls, by \in ExportWallets \union {"key"},
          requested \in ExportWallets \union {"none"}, format \in {"csv", "json"} :
          exportTransactions(c, by, requested, format)
    \/ \E c \in ExportCalls, ok \in BOOLEAN : recordExportJob(c, ok)
    \/ \E x \in held, id \in 1..MaxExports : verifyExport(id, x)
    \/ \E j \in BulkJobs : postBulkExport(j) \/ postBulkCancel(j)
    \/ \E j \in BulkJobs, v \in 1..LastVersion, ok \in BOOLEAN : upsert(j, v, ok)
    \/ exportRestart

-----------------------------------------------------------------------------
(* Properties. *)

\* The export routes: whatever a caller downloaded has a row with its
\* checksum, under the job id it was given; a wallet holds only its own, and
\* a checksum verifies exactly what was downloaded.
DownloadsAreRecorded ==
    /\ \A x \in held : /\ x.job \in DOMAIN exportRows
                       /\ exportRows[x.job].checksum = x.artifact
                       /\ (x.by \in ExportWallets => x.artifact.wallet = x.by)
    /\ \A x \in held, v \in verdicts :
          v.job = x.job => v.valid = (v.artifact = x.artifact)

\* persistBulkExportJob: the writes race, and one that is overtaken, fails or
\* dies with the process may leave the row behind the job for ever; a row
\* none of this happened to says the job is completed.
BulkRowLagsOnlyAstray ==
    \A j \in DOMAIN bulkRow :
        (\A w \in writes : w[1] # j) /\ j \notin astray => bulkRow[j] = LastVersion
=============================================================================
