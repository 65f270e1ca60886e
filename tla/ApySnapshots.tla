---------------------------- MODULE ApySnapshots ----------------------------
(***************************************************************************)
(* The APY history (backend/src/apySnapshot.ts): one value a day, in a     *)
(* table reached through DatabaseManager (database.ts) and in a copy in    *)
(* the memory of the process.  The nightly job, an administrator's         *)
(* backfill and readers work on both.  DatabaseManager sends what writes   *)
(* to the primary and what reads to a replica, which may be some writes    *)
(* behind, and to the primary when the replica fails.  The pools that ship *)
(* are mocks that answer at once; the model is of the interface            *)
(* IDatabasePool, where a query takes time and others run meanwhile, and   *)
(* may fail.                                                               *)
(*                                                                         *)
(* A value is the number of the write that made it.                        *)
(***************************************************************************)
EXTENDS Naturals, Sequences, FiniteSets, TLC

CONSTANTS ApyDates,        \* 1..n, the days there are
          Backfills,       \* backfill requests
          ApyReaders,      \* requests for the history
          ApyRetention,    \* RETENTION_DAYS
          MaxApyWrites,    \* bound: snapshots written
          MaxApyFaults,    \* bound: failed queries and restarts
          MaxApyLag        \* bound: changes the replica is behind

ASSUME ApyAssumption ==
    /\ IsFiniteSet(ApyDates) /\ ApyDates = 1..Cardinality(ApyDates) /\ 1 \in ApyDates
    /\ "nightly" \notin Backfills
    /\ ApyRetention \in Nat \ {0} /\ MaxApyWrites \in Nat /\ MaxApyFaults \in Nat
    /\ MaxApyLag \in Nat \ {0}

VARIABLES
    apyTable,   \* apy_snapshots in the primary: date -> value
    apyReplica, \* the states of the table, [rows, seen], from the one the
                \* replica shows to the present one; seen is the last write in it
    apyLocal,   \* snapshotStore: date -> value
    today,
    apyTasks,   \* the job and the backfills: task -> [at, date, last, existing, value, since]
    apyReads,   \* reader -> the rows it has been answered and has not merged yet
    apyWrites,  \* snapshots written
    apyRaced,   \* history: dates two tasks wrote at a time, that were pruned
                \* while one wrote them, or that a reader merged from a row
                \* the table no longer had
    apyFaults

apyVars == <<apyTable, apyReplica, apyLocal, today, apyTasks, apyReads, apyWrites, apyRaced,
             apyFaults>>

ApyTasks == Backfills \cup {"nightly"}
NoTask == [at |-> "idle", date |-> 0, last |-> 0, existing |-> {}, value |-> 0, since |-> 0]

ApyTypeOK ==
    /\ \A i \in DOMAIN apyReplica : DOMAIN apyReplica[i].rows \subseteq ApyDates
    /\ \A r \in ApyReaders : DOMAIN apyReads[r] \subseteq ApyDates
    /\ DOMAIN apyTable \subseteq ApyDates /\ DOMAIN apyLocal \subseteq ApyDates
    /\ today \in ApyDates /\ apyWrites \in 0..MaxApyWrites
    /\ \A t \in ApyTasks : apyTasks[t].at \in {"idle", "scan", "upsert", "store", "delete", "forget"}

ApyInit ==
    /\ apyTable = << >> /\ apyLocal = << >> /\ today = 1
    /\ apyReplica = << [rows |-> << >>, seen |-> 0] >>
    /\ apyTasks = [t \in ApyTasks |-> NoTask] /\ apyReads = [r \in ApyReaders |-> << >>]
    /\ apyWrites = 0 /\ apyRaced = {} /\ apyFaults = 0

-----------------------------------------------------------------------------
SetTask(t, r) == apyTasks' = [apyTasks EXCEPT ![t] = r]
\* A snapshot inserted or replaced.
Upserted(f, d, v) == [e \in DOMAIN f \cup {d} |-> IF e = d THEN v ELSE f[e]]
Storing(d) == {t \in ApyTasks : apyTasks[t].at = "store" /\ apyTasks[t].date = d}

Present == [rows |-> apyTable, seen |-> apyWrites]

\* A SELECT is answered with the state s by the replica, or by the primary when
\* the replica's query fails.
answersRead(s) ==
    \/ s = Head(apyReplica) /\ UNCHANGED apyFaults
    \/ s = Present /\ apyFaults < MaxApyFaults /\ apyFaults' = apyFaults + 1

\* A change of the table is one the replica has yet to make.
writesTable(rows, seen) ==
    /\ Len(apyReplica) <= MaxApyLag
    /\ apyTable' = rows /\ apyReplica' = Append(apyReplica, [rows |-> rows, seen |-> seen])

replicate ==
    /\ Len(apyReplica) > 1 /\ apyReplica' = Tail(apyReplica)
    /\ UNCHANGED <<apyTable, apyLocal, today, apyTasks, apyReads, apyWrites, apyRaced, apyFaults>>

\* A query fails, a SELECT on both: the task ends there, with what it has done
\* so far.
queryFails(t) ==
    /\ apyTasks[t].at \in {"scan", "upsert", "delete"} /\ apyFaults < MaxApyFaults
    /\ apyFaults' = apyFaults + 1 /\ SetTask(t, NoTask)
    /\ UNCHANGED <<apyTable, apyReplica, apyLocal, today, apyReads, apyWrites, apyRaced>>

\* The process stops and starts again: the copy and all that was under way are gone.
apyRestart ==
    /\ apyFaults < MaxApyFaults /\ apyFaults' = apyFaults + 1
    /\ apyLocal' = << >> /\ apyTasks' = [t \in ApyTasks |-> NoTask]
    /\ apyReads' = [r \in ApyReaders |-> << >>]
    /\ UNCHANGED <<apyTable, apyReplica, today, apyWrites, apyRaced>>

runApySnapshotJob ==
    /\ apyTasks["nightly"].at = "idle"
    /\ SetTask("nightly", [NoTask EXCEPT !.at = "upsert", !.date = today, !.last = today])
    /\ UNCHANGED <<apyTable, apyReplica, apyLocal, today, apyReads, apyWrites, apyRaced, apyFaults>>

\* persistSnapshot: the row is inserted or replaced, then the copy is set.
persistSnapshot(t) ==
    /\ apyTasks[t].at = "upsert" /\ apyWrites < MaxApyWrites
    /\ apyWrites' = apyWrites + 1
    /\ writesTable(Upserted(apyTable, apyTasks[t].date, apyWrites + 1), apyWrites + 1)
    /\ SetTask(t, [apyTasks[t] EXCEPT !.at = "store", !.value = apyWrites + 1])
    /\ apyRaced' = IF Storing(apyTasks[t].date) = {} THEN apyRaced
                     ELSE apyRaced \cup {apyTasks[t].date}
    /\ UNCHANGED <<apyLocal, today, apyReads, apyFaults>>

missing(from, to, existing) == {d \in ApyDates : from <= d /\ d <= to /\ d \notin existing}

First(ds) == CHOOSE d \in ds : \A e \in ds : d <= e

\* Where a task goes once the dates before from are done.
advance(t, from) ==
    LET left == missing(from, apyTasks[t].last, apyTasks[t].existing)
    IN IF left = {} THEN NoTask
         ELSE [apyTasks[t] EXCEPT !.at = "upsert", !.date = First(left)]

\* The dates before the cutoff.
Old == {d \in ApyDates : d + ApyRetention < today}

storeLocal(t) ==
    /\ apyTasks[t].at = "store"
    /\ apyLocal' = Upserted(apyLocal, apyTasks[t].date, apyTasks[t].value)
    /\ SetTask(t, IF t = "nightly" THEN [apyTasks[t] EXCEPT !.at = "delete", !.existing = Old]
                                   ELSE advance(t, apyTasks[t].date + 1))
    /\ UNCHANGED <<apyTable, apyReplica, today, apyReads, apyWrites, apyRaced, apyFaults>>

\* The backfill asks for the dates there are, in the table as it is answered
\* and in the copy when the answer comes, and goes through the missing ones.
backfillApySnapshots(t, from, to) ==
    /\ t \in Backfills /\ apyTasks[t].at = "idle" /\ from <= to
    /\ \E s \in {Head(apyReplica), Present} :
         /\ answersRead(s)
         /\ SetTask(t, [NoTask EXCEPT !.at = "scan", !.date = from, !.last = to,
                                      !.existing = DOMAIN s.rows, !.since = s.seen])
    /\ UNCHANGED <<apyTable, apyReplica, apyLocal, today, apyReads, apyWrites, apyRaced>>

backfillScanned(t) ==
    /\ apyTasks[t].at = "scan"
    /\ LET r == apyTasks[t]
           known == r.existing \cup DOMAIN apyLocal
           left == missing(r.date, r.last, known)
       IN SetTask(t, IF left = {} THEN NoTask
                       ELSE [r EXCEPT !.at = "upsert", !.existing = known, !.date = First(left)])
    /\ UNCHANGED <<apyTable, apyReplica, apyLocal, today, apyReads, apyWrites, apyRaced, apyFaults>>

Without(f, ds) == [d \in DOMAIN f \ ds |-> f[d]]
Pruned == apyTasks["nightly"].existing

\* pruneOldSnapshots, of the table and then of the copy, with one cutoff.
pruneTable ==
    /\ apyTasks["nightly"].at = "delete"
    /\ writesTable(Without(apyTable, Pruned), apyWrites)
    /\ SetTask("nightly", [apyTasks["nightly"] EXCEPT !.at = "forget"])
    /\ apyRaced' = apyRaced \cup {d \in Pruned : Storing(d) # {}}
    /\ UNCHANGED <<apyLocal, today, apyReads, apyWrites, apyFaults>>

keptCopy == Without(apyLocal, Pruned)

pruneLocal ==
    /\ apyTasks["nightly"].at = "forget"
    /\ apyLocal' = keptCopy
    /\ SetTask("nightly", NoTask)
    /\ apyRaced' = apyRaced \cup (Pruned \cap DOMAIN apyTable)
    /\ UNCHANGED <<apyTable, apyReplica, today, apyReads, apyWrites, apyFaults>>

\* A reader asks for the last days.
getApyHistory(r, days) ==
    /\ apyReads[r] = << >>
    /\ \E s \in {Head(apyReplica), Present} :
         /\ answersRead(s)
         /\ apyReads' = [apyReads EXCEPT ![r] =
                [d \in {e \in DOMAIN s.rows : e + days > today /\ e <= today} |-> s.rows[d]]]
    /\ UNCHANGED <<apyTable, apyReplica, apyLocal, today, apyTasks, apyWrites, apyRaced>>

\* The rows of a reader, merged into the copy.
Merged(rows) == [d \in DOMAIN apyLocal \cup DOMAIN rows |->
                    IF d \in DOMAIN rows THEN rows[d] ELSE apyLocal[d]]
Outdated(rows) == {d \in DOMAIN rows : d \in DOMAIN apyTable => apyTable[d] # rows[d]}

\* When the answer comes, the reader merges it into the copy.
mergeRows(r) ==
    /\ apyReads[r] # << >>
    /\ apyLocal' = Merged(apyReads[r])
    /\ apyRaced' = apyRaced \cup Outdated(apyReads[r])
    /\ apyReads' = [apyReads EXCEPT ![r] = << >>]
    /\ UNCHANGED <<apyTable, apyReplica, today, apyTasks, apyWrites, apyFaults>>

midnight ==
    /\ today + 1 \in ApyDates /\ today' = today + 1
    /\ UNCHANGED <<apyTable, apyReplica, apyLocal, apyTasks, apyReads, apyWrites, apyRaced,
                   apyFaults>>

ApyNext ==
    \/ runApySnapshotJob \/ pruneTable \/ pruneLocal \/ midnight \/ replicate \/ apyRestart
    \/ \E r \in ApyReaders : mergeRows(r) \/ \E days \in 1..ApyRetention : getApyHistory(r, days)
    \/ \E t \in ApyTasks : \/ persistSnapshot(t) \/ storeLocal(t) \/ queryFails(t)
                           \/ \E from, to \in ApyDates : backfillApySnapshots(t, from, to)
                           \/ backfillScanned(t)

-----------------------------------------------------------------------------
(* Properties. *)

\* "Existing snapshots are not overwritten" (backfillApySnapshots): a backfill
\* replaces a value only if that value was written after what the database it
\* asked had seen.  The replica may be behind, so that may be a value written
\* before the backfill began.
BackfillKeepsOlder ==
    [][\A t \in Backfills : persistSnapshot(t) =>
         LET d == apyTasks[t].date
         IN d \in DOMAIN apyTable => apyTable[d] > apyTasks[t].since]_apyVars

\* persistSnapshot and pruneOldSnapshots change the table and then the copy,
\* with other tasks in between: where the two differ, a task is about to set
\* or to drop the copy, tasks worked on that date at a time, or a reader
\* merged a row that the table no longer had.
CopyFollowsTable ==
    \A d \in DOMAIN apyLocal \ apyRaced :
        \/ Storing(d) # {} \/ (apyTasks["nightly"].at = "forget" /\ d \in Pruned)
        \/ d \in DOMAIN apyTable /\ apyTable[d] = apyLocal[d]
=============================================================================
