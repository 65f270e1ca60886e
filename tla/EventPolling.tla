---------------------------- MODULE EventPolling ----------------------------
(***************************************************************************)
(* The service that copies contract events from the Stellar RPC into the   *)
(* database (eventPollingService.ts): replay on start, a poll on a timer,  *)
(* manual replay by the admin, and a leader lock in Redis between server   *)
(* instances.  Polls are not serialised: the timer fires whether or not    *)
(* the last one is over.  Each await is a step; the RPC and the database   *)
(* may fail at each, and an instance may die at any point.                 *)
(***************************************************************************)
EXTENDS Integers, Sequences, FiniteSetsExt, SequencesExt

CONSTANTS Instances,
          Polls,          \* polls of one instance that may overlap
          LedgerOf,       \* the sequence of events: the ledger of each, ascending
          MaxLedger,
          batchSize,
          PageLimit,      \* events the RPC returns at most: 1000
          ManualRanges,   \* <<fromLedger, toLedger>> of the admin
          RpcErrorBodies, \* the RPC may answer getEvents with a JSON-RPC error
          Faults,         \* RPC calls and database writes may fail, until they end
          UseRedis,
          None

ASSUME PollingAssumption ==
    /\ MaxLedger \in Nat /\ LedgerOf \in Seq(1..MaxLedger)
    /\ batchSize \in Nat \ {0} /\ PageLimit \in Nat \ {0}
    /\ ManualRanges \subseteq Nat \X Nat /\ RpcErrorBodies \in BOOLEAN
    /\ Faults \in BOOLEAN /\ UseRedis \in BOOLEAN

Events == DOMAIN LedgerOf
\* The activities an instance may have under way.
Slots == Polls \cup {"start", "manual"}

VARIABLES head,        \* external: the latest ledger
          cursor,      \* EventCursor.lastLedgerSeq
          processed,   \* ProcessedEvent
          lock,        \* external: the leader lock in Redis
          up,          \* the process called startEventPollingService and lives
          isRunning, isLeader, pollTimer,
          renewTimer,  \* the lock was acquired, its renewal timer is set
          task,        \* instance, slot -> its activity
          faultless,     \* external: no call fails any more
          dropped      \* history: events a page left out or a replay jumped

dbVars == <<cursor, processed>>
instVars == <<up, isRunning, isLeader, pollTimer, renewTimer>>
pollVars == <<head, dbVars, lock, instVars, task, faultless, dropped>>

Task == [at : {"lock", "cursor", "head", "fetch", "events"},
         from : 0..MaxLedger + 1, to : 0..MaxLedger, end : 0..MaxLedger,
         todo : SUBSET Events]

PollInit ==
    /\ head = 1 /\ cursor = 0 /\ processed = {} /\ lock = None
    /\ up = [i \in Instances |-> FALSE]
    /\ isRunning = [i \in Instances |-> FALSE]
    /\ isLeader = [i \in Instances |-> FALSE]
    /\ pollTimer = [i \in Instances |-> FALSE]
    /\ renewTimer = [i \in Instances |-> FALSE]
    /\ task = [x \in Instances \X Slots |-> None]
    /\ faultless = ~Faults /\ dropped = {}

-----------------------------------------------------------------------------
(* Activities *)

\* An activity that has not read anything yet.
fresh(from, to, at) ==
    [at |-> at, from |-> from, to |-> to, end |-> 0, todo |-> {}]

set(x, t) == task' = [task EXCEPT ![x] = t]

\* start returns: the leader's timer is set, even after a stop in between.
returns(x) ==
    /\ set(x, None)
    /\ pollTimer' = IF x[2] = "start"
                    THEN [pollTimer EXCEPT ![x[1]] = isLeader[x[1]]]
                    ELSE pollTimer
    /\ UNCHANGED <<up, isRunning, isLeader, renewTimer>>

\* An await of x rejects: the error ends the activity, and start with it.
rejects(x) ==
    /\ task[x] # None /\ task[x].at # "lock"
    /\ ~faultless
    /\ set(x, None)
    /\ UNCHANGED <<head, dbVars, lock, instVars, faultless, dropped>>

first_missed(c) == c + 1

getLastProcessedLedger(x) ==
    /\ task[x] # None /\ task[x].at = "cursor"
    /\ set(x, fresh(first_missed(cursor), 0, "head"))
    /\ UNCHANGED <<head, dbVars, lock, instVars, faultless, dropped>>

\* Start and manual replay go in batches, a poll takes the whole range.
batch_end(x, from, to) ==
    IF x[2] \in Polls THEN to ELSE Min({from + batchSize - 1, to})

\* Mutant: the newest ledger waits for the one after it.
nothing_new_behind(h, from) == h <= from

\* currentLedger <= lastLedger
nothing_new(h, from) == h < from

\* getCurrentLedger returns 0 when its call fails.
getCurrentLedger(x, h) ==
    /\ task[x] # None /\ task[x].at = "head"
    /\ h = head \/ (h = 0 /\ ~faultless)
    /\ \/ /\ nothing_new(h, task[x].from)
          /\ returns(x)
       \/ /\ ~nothing_new(h, task[x].from)
          /\ set(x, [task[x] EXCEPT !.at = "fetch", !.to = h,
                                    !.end = batch_end(x, task[x].from, h)])
          /\ UNCHANGED instVars
    /\ UNCHANGED <<head, dbVars, lock, faultless, dropped>>

Within(from, end) == {e \in Events : LedgerOf[e] \in from..end}

\* What getEvents returns: the first PageLimit events of closed ledgers, or the
\* body of an error, which reads as no events.
pages(from, end) ==
    LET closed == {e \in Within(from, end) : LedgerOf[e] <= head}
        first == {e \in closed : Cardinality({d \in closed : d < e}) < PageLimit}
    IN  {first} \cup (IF RpcErrorBodies THEN {{}} ELSE {})

fetchEventsForLedgerRange(x) ==
    /\ task[x] # None /\ task[x].at = "fetch"
    /\ \E p \in pages(task[x].from, task[x].end) :
          /\ set(x, [task[x] EXCEPT !.at = "events", !.todo = p])
          /\ dropped' = dropped \cup (Within(task[x].from, task[x].end) \ p)
    /\ UNCHANGED <<head, dbVars, lock, instVars, faultless>>

\* isEventProcessed and the upsert of the next event of the page.
processEvent(x) ==
    /\ task[x] # None /\ task[x].at = "events" /\ task[x].todo # {}
    /\ processed' = processed \cup {Min(task[x].todo)}
    /\ set(x, [task[x] EXCEPT !.todo = @ \ {Min(@)}])
    /\ UNCHANGED <<head, cursor, lock, instVars, faultless, dropped>>

\* Mutant: the cursor moves as soon as the page is there.
batch_done_early(t) == t.at = "events"

batch_done(t) == t.at = "events" /\ t.todo = {}

updateCursor(x) ==
    /\ task[x] # None /\ batch_done(task[x])
    /\ cursor' = task[x].end
    /\ \/ /\ task[x].end >= task[x].to
          /\ returns(x)
       \/ /\ task[x].end < task[x].to
          /\ LET from == task[x].end + 1
             IN  set(x, [fresh(from, task[x].to, "fetch")
                           EXCEPT !.end = batch_end(x, from, task[x].to)])
          /\ UNCHANGED instVars
    /\ UNCHANGED <<head, processed, lock, faultless, dropped>>

-----------------------------------------------------------------------------
(* Instances *)

start(i) ==
    /\ ~up[i]
    /\ up' = [up EXCEPT ![i] = TRUE]
    /\ isRunning' = [isRunning EXCEPT ![i] = TRUE]
    /\ set(<<i, "start">>, fresh(0, 0, "lock"))
    /\ UNCHANGED <<head, dbVars, lock, isLeader, pollTimer, renewTimer, faultless, dropped>>

\* Without Redis, or before its client is ready, the instance is on its own.
alone(i) ==
    /\ ~UseRedis \/ ~faultless
    /\ isLeader' = [isLeader EXCEPT ![i] = TRUE]
    /\ UNCHANGED <<lock, renewTimer>>

acquired(i) ==
    /\ UseRedis /\ lock = None
    /\ lock' = i
    /\ isLeader' = [isLeader EXCEPT ![i] = TRUE]
    /\ renewTimer' = [renewTimer EXCEPT ![i] = TRUE]

\* The lock is taken, or the call failed.
follows(i) ==
    /\ UseRedis /\ (lock # None \/ ~faultless)
    /\ isLeader' = [isLeader EXCEPT ![i] = FALSE]
    /\ UNCHANGED <<lock, renewTimer>>

acquireLeaderLock(x) ==
    /\ task[x] # None /\ task[x].at = "lock"
    /\ alone(x[1]) \/ acquired(x[1]) \/ follows(x[1])
    /\ set(x, fresh(0, 0, "cursor"))
    /\ UNCHANGED <<head, dbVars, up, isRunning, pollTimer, faultless, dropped>>

taskStep(x) ==
    \/ acquireLeaderLock(x) \/ getLastProcessedLedger(x)
    \/ \E h \in {0, head} : getCurrentLedger(x, h)
    \/ fetchEventsForLedgerRange(x) \/ processEvent(x) \/ updateCursor(x)
    \/ rejects(x)

\* The poll timer fires.
pollEvents(i, p) ==
    /\ pollTimer[i]
    /\ task[<<i, p>>] = None
    /\ set(<<i, p>>, fresh(0, 0, "cursor"))
    /\ UNCHANGED <<head, dbVars, lock, instVars, faultless, dropped>>

\* POST /admin/events/replay
replayEventsForRange(i, from, to) ==
    /\ isRunning[i]
    /\ task[<<i, "manual">>] = None
    /\ set(<<i, "manual">>,
           [fresh(from, to, "fetch") EXCEPT
              !.end = batch_end(<<i, "manual">>, from, to)])
    /\ dropped' = dropped \cup Within(cursor + 1, from - 1)
    /\ UNCHANGED <<head, dbVars, lock, instVars, faultless>>

\* releaseLeaderLock deletes only the lock this instance acquired.
releaseLeaderLock(i) ==
    \/ /\ isLeader[i] /\ renewTimer[i] /\ lock = i
       /\ lock' = None
    \/ /\ ~(isLeader[i] /\ renewTimer[i] /\ lock = i) \/ ~faultless
       /\ UNCHANGED lock

\* stop, at shutdown.  What is under way goes on, and so does lock renewal.
stop(i) ==
    /\ isRunning[i]
    /\ isRunning' = [isRunning EXCEPT ![i] = FALSE]
    /\ pollTimer' = [pollTimer EXCEPT ![i] = FALSE]
    /\ releaseLeaderLock(i)
    /\ UNCHANGED <<head, dbVars, up, isLeader, renewTimer, task, faultless, dropped>>

\* The renewal timer fires: SET XX, whoever holds the lock.
renewLock(i) ==
    /\ renewTimer[i] /\ isLeader[i]
    /\ \/ lock # None /\ lock' = i /\ UNCHANGED isLeader
       \/ lock = None /\ isLeader' = [isLeader EXCEPT ![i] = FALSE]
                      /\ UNCHANGED lock
    /\ UNCHANGED <<head, dbVars, up, isRunning, pollTimer, renewTimer, task, faultless, dropped>>

\* The process of i dies, or ends after stop.
exit(i) ==
    /\ up[i]
    /\ ~faultless \/ ~isRunning[i]
    /\ up' = [up EXCEPT ![i] = FALSE]
    /\ isRunning' = [isRunning EXCEPT ![i] = FALSE]
    /\ isLeader' = [isLeader EXCEPT ![i] = FALSE]
    /\ pollTimer' = [pollTimer EXCEPT ![i] = FALSE]
    /\ renewTimer' = [renewTimer EXCEPT ![i] = FALSE]
    /\ task' = [x \in Instances \X Slots |-> IF x[1] = i THEN None ELSE task[x]]
    /\ UNCHANGED <<head, dbVars, lock, faultless, dropped>>

\* The lock is not renewed in time.
lockExpires ==
    /\ lock # None
    /\ lock' = None
    /\ UNCHANGED <<head, dbVars, instVars, task, faultless, dropped>>

closeLedger ==
    /\ head < MaxLedger
    /\ head' = head + 1
    /\ UNCHANGED <<dbVars, lock, instVars, task, faultless, dropped>>

faultsEnd ==
    /\ ~faultless
    /\ faultless' = TRUE
    /\ UNCHANGED <<head, dbVars, lock, instVars, task, dropped>>

PollNext ==
    \/ \E x \in Instances \X Slots : taskStep(x)
    \/ \E i \in Instances :
          \/ start(i) \/ stop(i) \/ renewLock(i) \/ exit(i)
          \/ \E p \in Polls : pollEvents(i, p)
          \/ \E m \in ManualRanges : replayEventsForRange(i, m[1], m[2])
    \/ lockExpires \/ closeLedger \/ faultsEnd

\* The event loop runs every continuation, every call settles, timers fire, and
\* whatever made calls fail is over in the end.
PollSpec == /\ PollInit /\ [][PollNext]_pollVars
        /\ WF_pollVars(faultsEnd)
        /\ \A x \in Instances \X Slots : WF_pollVars(taskStep(x))
        /\ \A i \in Instances, p \in Polls : WF_pollVars(pollEvents(i, p))

-----------------------------------------------------------------------------
(* Properties *)

\* The cursor passes an event that has not been processed only if a page left
\* it out (the limit, an error body, a ledger not closed yet) or an admin's
\* replay started beyond it: failures, restarts, overlapping polls and a cursor
\* that moves back lose nothing more.
OnlyKnownLosses ==
    \A e \in Events : LedgerOf[e] <= cursor => e \in processed \cup dropped

\* An instance with its timer set processes every other event there is, unless
\* it is stopped or dies, whatever failed before.
PollerCatchesUp ==
    \A e \in Events, i \in Instances :
        (pollTimer[i] /\ LedgerOf[e] <= head)
            ~> (e \in processed \cup dropped \/ ~pollTimer[i])

\* "Ensures no on-chain events are missed": the cursor never passes an event
\* that has not been processed, so a restart from it misses nothing.
NoEventSkipped == \A e \in Events : LedgerOf[e] <= cursor => e \in processed

-----------------------------------------------------------------------------
(* Bounded instances: one event in each of two ledgers; ranges from the     *)
(* start and one that may begin beyond the cursor.                          *)

MCLedgerOf == <<1, 2>>
NoRanges == {}
MCRanges == {<<0, 1>>, <<2, 2>>}
=============================================================================
