---------------------------- MODULE Connectivity ----------------------------
(***************************************************************************)
(* How the web client follows the network and the server: the poll of a    *)
(* query (frontend/src/hooks/usePolling.ts, useQueryWithPolling.ts,        *)
(* useStaleIndicator.ts, components/RefreshControl.tsx), the watch over    *)
(* failing queries (hooks/useRetryState.ts) and the banner                 *)
(* (components/OfflineBanner.tsx), which start with the data loaded; and   *)
(* the light that shows the server's health.                               *)
(***************************************************************************)
EXTENDS Naturals, SequencesExt

CONSTANTS
    LiveQueries,       \* queries that something on the page observes
    Polled,            \* the one with a poll
    STALE_THRESHOLD    \* in steps of the clock

ASSUME ConnAssumption == Polled \in LiveQueries /\ STALE_THRESHOLD \in Nat

VARIABLES
    online, hidden, manualPause,
    asking,        \* queries being fetched
    failing,       \* queries in status error
    refetching,    \* isRefetchingRef: the poll awaits its fetch
    isRetrying,
    banner,
    dataAge,       \* age of the polled data
    labelAge,      \* age of lastUpdated
    labelled,      \* lastUpdated is set
    pollFailed,    \* history: the last poll that ended had no answer
    owed           \* history: queries not asked for since the network came back

connVars == <<online, hidden, manualPause, asking, failing, refetching, isRetrying,
              banner, dataAge, labelAge, labelled, pollFailed, owed>>

OldAge == STALE_THRESHOLD + 1

ConnTypeOK ==
    /\ {online, hidden, manualPause, refetching, isRetrying, labelled, pollFailed} \subseteq BOOLEAN
    /\ {asking, failing, owed} \subseteq SUBSET LiveQueries
    /\ banner \in {"hidden", "offline", "retrying", "online_success"}
    /\ banner = "offline" <=> ~online
    /\ {dataAge, labelAge} \subseteq 0..OldAge

ConnInit ==
    /\ online = TRUE /\ hidden \in BOOLEAN /\ manualPause = FALSE
    /\ asking = {} /\ failing = {} /\ refetching = FALSE /\ isRetrying = FALSE
    /\ banner = "hidden" /\ dataAge = 0 /\ labelAge = 0 /\ labelled \in BOOLEAN
    /\ pollFailed = FALSE /\ owed = {}

-----------------------------------------------------------------------------
(* What a step leads to in the hooks that look on. *)

\* useRetryState, at every event of the query cache.
cacheEvent(error) == isRetrying' = (error # {})

\* Mutant: a retry is looked for before the network.
bannerEffect_retryFirst ==
    banner' = IF isRetrying' THEN "retrying"
              ELSE IF ~online' THEN "offline"
              ELSE IF banner = "offline" THEN "online_success"
              ELSE banner

\* The effect of the banner, until it changes nothing more.
bannerEffect ==
    banner' = IF ~online' THEN "offline"
              ELSE IF isRetrying' THEN "retrying"
              ELSE IF banner = "offline" THEN "online_success"
              ELSE banner

shouldPoll == ~manualPause /\ ~hidden /\ online

\* Fetches of Q start, or start anew: who awaited the old one awaits the new.
ask(Q) == asking' = asking \union Q /\ owed' = owed \ (IF online' THEN Q ELSE {})

-----------------------------------------------------------------------------
(* usePolling. *)

\* doRefetch: not while the last one is awaited.
doRefetch ==
    /\ ~refetching /\ refetching' = TRUE
    /\ ask({Polled}) /\ cacheEvent(failing) /\ bannerEffect

pollTick ==
    /\ shouldPoll
    /\ UNCHANGED <<online, hidden, manualPause, failing, dataAge, labelAge, labelled, pollFailed>>
    /\ doRefetch

\* The button, whatever pauses the poll; it is disabled while the query is
\* being fetched.
forceRefresh ==
    /\ Polled \notin asking
    /\ UNCHANGED <<online, hidden, manualPause, failing, dataAge, labelAge, labelled, pollFailed>>
    /\ doRefetch

\* The button pauses what polls and resumes what it has paused.
pauseOrResume ==
    /\ shouldPoll \/ manualPause
    /\ manualPause' = ~manualPause
    /\ UNCHANGED <<online, hidden, asking, failing, refetching, isRetrying, banner,
                   dataAge, labelAge, labelled, pollFailed, owed>>

visibilityChange ==
    /\ hidden' = ~hidden
    /\ UNCHANGED <<online, manualPause, asking, failing, refetching, isRetrying, banner,
                   dataAge, labelAge, labelled, pollFailed, owed>>

-----------------------------------------------------------------------------
(* The network. *)

handleOffline ==
    /\ online /\ online' = FALSE /\ owed' = LiveQueries
    /\ UNCHANGED <<hidden, manualPause, asking, failing, refetching, isRetrying,
                   dataAge, labelAge, labelled, pollFailed>>
    /\ bannerEffect

\* What the banner asks for when it turns to success.
reconnected == LiveQueries

\* handleOnline of the poll, then the banner.  told: the banner has heard of a
\* failing query by then, says that it retries and asks for nothing; if it asks,
\* it hears of it then.
handleOnline(told) ==
    /\ ~online /\ online' = TRUE
    /\ LET polls == ~manualPause /\ ~hidden /\ ~refetching
       IN /\ told => failing # {}
          /\ isRetrying \/ (polls /\ failing # {}) => told
          /\ refetching' = (refetching \/ polls)
          /\ ask((IF told THEN {} ELSE reconnected) \union (IF polls THEN {Polled} ELSE {}))
    /\ UNCHANGED <<hidden, manualPause, failing, dataAge, labelAge, labelled, pollFailed>>
    /\ cacheEvent(failing) /\ bannerEffect

-----------------------------------------------------------------------------
(* The query cache. *)

\* React Query asks by itself: an interval, the window's focus, another page.
startFetch(q) ==
    /\ q \notin asking /\ online
    /\ UNCHANGED <<online, hidden, manualPause, failing, refetching, dataAge, labelAge,
                   labelled, pollFailed>>
    /\ ask({q}) /\ cacheEvent(failing) /\ bannerEffect

\* Mutant: reset in the catch, not in the finally.
refetchDone_stuck(ok) == refetching' = (refetching /\ ok)

\* finally.
refetchDone(ok) == refetching' = FALSE

\* refetchFn: a failed refetch still returns the data of before, and so counts
\* as an update.
stamped(ok) == labelAge' = 0 /\ labelled' = TRUE /\ pollFailed' = ~ok

ofPoll(q) == q = Polled /\ refetching

\* A fetch ends, with all its tries; an answer comes only over the network.
settleFetch(q, ok) ==
    /\ q \in asking /\ (ok => online)
    /\ asking' = asking \ {q}
    /\ failing' = IF ok THEN failing \ {q} ELSE failing \union {q}
    /\ dataAge' = IF ok /\ q = Polled THEN 0 ELSE dataAge
    /\ IF ofPoll(q)
         THEN refetchDone(ok) /\ stamped(ok)
         ELSE UNCHANGED <<refetching, labelAge, labelled, pollFailed>>
    /\ UNCHANGED <<online, hidden, manualPause, owed>>
    /\ cacheEvent(failing') /\ bannerEffect

-----------------------------------------------------------------------------
(* Timers. *)

older(a) == IF a < OldAge THEN a + 1 ELSE a

connTick ==
    /\ dataAge' = older(dataAge) /\ labelAge' = older(labelAge)
    /\ UNCHANGED <<online, hidden, manualPause, asking, failing, refetching, isRetrying,
                   banner, labelled, pollFailed, owed>>

\* The countdown to a retry that nobody makes is over.
countdownOver ==
    /\ isRetrying /\ isRetrying' = FALSE
    /\ UNCHANGED <<online, hidden, manualPause, asking, failing, refetching, dataAge, labelAge,
                   labelled, pollFailed, owed>>
    /\ bannerEffect

\* The timer of four seconds, or the cross.
hideSuccess ==
    /\ banner = "online_success" /\ banner' = "hidden"
    /\ UNCHANGED <<online, hidden, manualPause, asking, failing, refetching, isRetrying,
                   dataAge, labelAge, labelled, pollFailed, owed>>

ConnNext ==
    \/ pollTick \/ forceRefresh \/ pauseOrResume \/ visibilityChange
    \/ handleOffline \/ connTick \/ countdownOver \/ hideSuccess
    \/ \E told \in BOOLEAN : handleOnline(told)
    \/ \E q \in LiveQueries : startFetch(q) \/ \E ok \in BOOLEAN : settleFetch(q, ok)

-----------------------------------------------------------------------------
(* Properties. *)

\* OfflineBanner: "Connection restored! Updating dashboard" stands only when
\* every query on the page has been asked for since the network came back.
RestoredIsUpdating == banner = "online_success" => owed = {}

\* useQueryWithPolling: the data is older than its label says only when the
\* last poll to end had no answer; React Query's own fetches make the data
\* newer than the label, never the label newer than the data.
LabelExplained == labelled /\ labelAge < dataAge => pollFailed

\* usePolling: as long as it may poll, data that has gone stale is renewed or
\* its query is seen to fail: no fetch that hung, failed or was overtaken keeps
\* the poll from asking again.
StaleIsRenewed ==
    dataAge = OldAge /\ shouldPoll ~> dataAge < OldAge \/ ~shouldPoll \/ Polled \in failing

-----------------------------------------------------------------------------
(* The health of the server and its light: GET /health                     *)
(* (backend/src/index.ts, database.ts, jobGovernance.ts), the browser's    *)
(* poll of it (frontend/src/hooks/useHealthStatus.ts) and the indicator    *)
(* (components/HealthStatusIndicator.tsx).  A request the browser gave up  *)
(* on is still answered.                                                   *)

CONSTANTS
    deadLetterThreshold,   \* dead letters of a job that make its failures recur
    MaxRequests,           \* bound: requests the server is answering
    MaxClicks              \* bound: clicks on the light

ASSUME HealthAssumption == {deadLetterThreshold, MaxRequests, MaxClicks} \subseteq Nat \ {0}

Stores == {"primary", "replica", "prisma"}
Checks == Stores \union {"jobs"}

VARIABLES
    reachable,   \* the stores that answer
    failures,    \* dead letters of the backup job
    requests,    \* the requests being answered, in the order they were sent
    light,       \* state of the indicator
    behind,      \* history: how many of the requests precede the one shown
    amiss,       \* history: it is green, and something was down when it was looked at
    clicks

healthVars == <<reachable, failures, requests, light, behind, amiss, clicks>>

Request == [of : {"tick", "click"}, stage : {"databases", "prisma", "answered"},
            found : SUBSET Checks, down : BOOLEAN, aborted : BOOLEAN]

HealthTypeOK ==
    /\ reachable \subseteq Stores /\ failures \in 0..deadLetterThreshold
    /\ \A i \in 1..Len(requests) : requests[i] \in Request
    /\ Len(requests) <= MaxRequests
    /\ light \in {"healthy", "degraded", "unhealthy"}
    /\ behind \in 0..MaxRequests /\ amiss \in BOOLEAN
    /\ clicks \in 0..MaxClicks

\* INITIAL_STATUS, before the first answer.
HealthInit ==
    /\ reachable = Stores /\ failures = 0 /\ requests = <<>>
    /\ light = "healthy"
    /\ behind = 0 /\ amiss = FALSE /\ clicks = 0

-----------------------------------------------------------------------------
(* What is being looked at. *)

\* A store stops or starts answering.
storeChanges(s) ==
    /\ reachable' = IF s \in reachable THEN reachable \ {s} ELSE reachable \union {s}
    /\ UNCHANGED <<failures, requests, light, behind, amiss, clicks>>

\* The backup job failed for good; no success takes a dead letter back.
recordDeadLetter ==
    /\ failures < deadLetterThreshold /\ failures' = failures + 1
    /\ UNCHANGED <<reachable, requests, light, behind, amiss, clicks>>

hasRecurringFailures == failures >= deadLetterThreshold

getJobHealthStatus == IF hasRecurringFailures THEN {} ELSE {"jobs"}

-----------------------------------------------------------------------------
(* The server's answer.  What becomes of an aborted request nobody sees. *)

\* Both pools are asked; a rejection counts as down.
getDatabaseHealth(i) ==
    /\ requests[i].stage = "databases" /\ ~requests[i].aborted
    /\ requests' = [requests EXCEPT ![i].stage = "prisma",
                                    ![i].found = reachable \ {"prisma"},
                                    ![i].down = ~ {"primary", "replica"} \subseteq reachable]
    /\ UNCHANGED <<reachable, failures, light, behind, amiss, clicks>>

getPrismaHealth == reachable \intersect {"prisma"}

\* The rest is looked up at once and the answer sent.  The cache is the
\* process's own and the RPC node's URL is configured: both are always up.
answer(i) ==
    /\ requests[i].stage = "prisma" /\ ~requests[i].aborted
    /\ requests' = [requests EXCEPT ![i].stage = "answered",
                                    ![i].found = @ \union getPrismaHealth \union getJobHealthStatus,
                                    ![i].down = @ \/ "prisma" \notin reachable
                                                  \/ failures = deadLetterThreshold]
    /\ UNCHANGED <<reachable, failures, light, behind, amiss, clicks>>

\* GET /health: 200 when every check is up.
allHealthy(found) == found = Checks

-----------------------------------------------------------------------------
(* The browser. *)

\* Mutant: the last request is left to itself.
abortPrevious_left == requests

\* abortRef.current?.abort()
abortPrevious ==
    [i \in 1..Len(requests) |->
        [requests[i] EXCEPT !.aborted = TRUE]]

fetchHealth(who) ==
    /\ Len(requests) < MaxRequests
    /\ requests' = Append(abortPrevious,
                          [of |-> who, stage |-> "databases", found |-> {}, down |-> FALSE, aborted |-> FALSE])

\* The interval is longer than the time limit of a request: what its last
\* turn asked for has ended, what a click asked for since may not have.
tick ==
    /\ \A i \in 1..Len(requests) : requests[i].aborted \/ requests[i].of # "tick"
    /\ fetchHealth("tick")
    /\ UNCHANGED <<reachable, failures, light, behind, amiss, clicks>>

\* The light is a button: refetch.
click ==
    /\ clicks < MaxClicks /\ clicks' = clicks + 1
    /\ fetchHealth("click")
    /\ UNCHANGED <<reachable, failures, light, behind, amiss>>

\* An answer other than 2xx is unavailability; one with a check that is not up
\* would be a degraded service.
stateOf(found) ==
    IF ~allHealthy(found) THEN "unhealthy" ELSE IF found # Checks THEN "degraded" ELSE "healthy"

\* Request i is over: behind counts on without it.
drop(i) == requests' = RemoveAt(requests, i)

\* The light takes on what request i says.
setStatus(i, state) ==
    /\ light' = state /\ amiss' = (state = "healthy" /\ requests[i].down) /\ behind' = i - 1

\* An answer nobody aborted.
settleHealth(i) ==
    /\ requests[i].stage = "answered" /\ ~requests[i].aborted
    /\ setStatus(i, stateOf(requests[i].found))
    /\ drop(i)
    /\ UNCHANGED <<reachable, failures, clicks>>

\* UNREACHABLE_STATUS
unreachable(i) == setStatus(i, "unhealthy")

\* AbortSignal.timeout: the server has not answered within five seconds.
timedOut(i) ==
    /\ ~requests[i].aborted
    /\ unreachable(i) /\ drop(i)
    /\ UNCHANGED <<reachable, failures, clicks>>

\* The answer to an aborted request: AbortError, and nothing is shown.
abortedEnds(i) ==
    /\ requests[i].aborted /\ drop(i)
    /\ behind' = IF i <= behind THEN behind - 1 ELSE behind
    /\ UNCHANGED <<reachable, failures, light, amiss, clicks>>

\* A request of the browser ends, in one way or another.
healthEnds(i) == settleHealth(i) \/ timedOut(i) \/ abortedEnds(i)

HealthNext ==
    \/ recordDeadLetter \/ tick \/ click
    \/ \E s \in Stores : storeChanges(s)
    \/ \E i \in 1..Len(requests) :
         getDatabaseHealth(i) \/ answer(i) \/ settleHealth(i) \/ timedOut(i) \/ abortedEnds(i)

-----------------------------------------------------------------------------
(* Properties. *)

\* A green light rests on an answer for which every dependency was up when it
\* was looked at: the stores, and a backup job that is not failing again and
\* again.
GreenWasFound == ~amiss

\* A light that changes takes its state from a request sent after the one it
\* showed: answers out of order never take it back.
LightNeverGoesBack ==
    [][light' # light =>
        \E i \in (behind + 1)..Len(requests) : requests' = RemoveAt(requests, i)]_healthVars

\* A job that keeps failing, or a primary that stays away, turns the light off
\* green for good, even when the server no longer answers at all.  (Stores
\* that are down in turn need not: a request looks at them one after another.)
OutageIsShown ==
    <>[](failures = deadLetterThreshold \/ "primary" \notin reachable)
        => <>[](light # "healthy")
=============================================================================
