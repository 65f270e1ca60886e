----------------------------- MODULE ApiClient -----------------------------
(***************************************************************************)
(* The web client's HTTP calls: ApiClient.request with its retry loop      *)
(* (frontend/src/lib/api/client.ts, error.ts, correlationInterceptors.ts)  *)
(* under React Query, which runs a failing query again                     *)
(* (lib/queryClient.ts).                                                   *)
(***************************************************************************)
EXTENDS Naturals, FiniteSets

CONSTANTS
    ApiOps,        \* what the pages ask for: queries and single calls
    Queries,       \* those that React Query runs; all of them are GETs
    ApiAttempts,   \* DEFAULT_RETRY_OPTIONS.attempts
    QueryRetries   \* retry of the queries

ASSUME ApiAssumption ==
    /\ Queries \subseteq ApiOps /\ ApiAttempts \in Nat \ {0} /\ QueryRetries \in Nat

VARIABLES
    call,     \* op -> the call of request() under way or last made for it
    acted,    \* op -> times the server has carried it out
    sentIds,  \* history: op -> the X-Correlation-IDs sent, by run
    lastId    \* ids handed out so far

apiVars == <<call, acted, sentIds, lastId>>

Methods == {"GET", "DELETE", "POST"}

\* What fetch and the reading of its body come to: an answer, an answer cut
\* off (a TypeError as when there is no connection), a status worth another
\* try, one that is not, a body that does not parse, an abort.
Outcomes == {"ok", "network", "unavailable", "rejected", "unparsable", "aborted"}

ApiTypeOK ==
    /\ call \in [ApiOps -> [at : {"idle", "fetch", "sleep", "done", "failed"},
                            method : Methods, retry : BOOLEAN, run : 0..QueryRetries + 1,
                            attempt : 0..ApiAttempts, error : Outcomes]]
    /\ \A o \in ApiOps : o \in Queries => call[o].method = "GET"

ApiInit ==
    /\ call = [o \in ApiOps |-> [at |-> "idle", method |-> "GET", retry |-> TRUE,
                                 run |-> 0, attempt |-> 0, error |-> "ok"]]
    /\ acted = [o \in ApiOps |-> 0]
    /\ sentIds = [o \in ApiOps |-> {}]
    /\ lastId = 0

-----------------------------------------------------------------------------
\* normalizeApiError: no connection, and the statuses 408, 425, 429, 500, 502,
\* 503, 504.
retryable(error) == error \in {"network", "unavailable"}

\* Mutant: one try too many.
shouldRetry_late(c) ==
    c.retry /\ c.method \in {"GET", "DELETE"} /\ retryable(c.error) /\ c.attempt <= ApiAttempts

\* retry: the caller did not pass retry: false.
shouldRetry(c) ==
    c.retry /\ c.method \in {"GET", "DELETE"} /\ retryable(c.error) /\ c.attempt < ApiAttempts

\* createRequestContext and the request interceptors, once per call of request:
\* the id is drawn before the loop.
startCall(o, c) ==
    /\ call' = [call EXCEPT ![o] = c]
    /\ lastId' = lastId + 1
    /\ sentIds' = [sentIds EXCEPT ![o] = @ \union {[run |-> c.run, id |-> lastId']}]

request(o) ==
    /\ call[o].at = "idle"
    /\ \E m \in Methods, r \in BOOLEAN :
         /\ o \in Queries => m = "GET" /\ r
         /\ startCall(o, [at |-> "fetch", method |-> m, retry |-> r, run |-> 1,
                          attempt |-> 1, error |-> "ok"])
    /\ UNCHANGED acted

\* fetch settles, with or without the server having acted; the body is parsed,
\* what was thrown becomes an ApiError, and the loop sleeps or ends.
settle(o, outcome, reached) ==
    /\ call[o].at = "fetch"
    /\ outcome \in {"ok", "unparsable"} => reached
    /\ acted' = [acted EXCEPT ![o] = IF reached THEN @ + 1 ELSE @]
    /\ LET c == [call[o] EXCEPT !.error = outcome]
       IN call' = [call EXCEPT ![o] = [c EXCEPT !.at =
                      IF outcome = "ok" THEN "done"
                      ELSE IF shouldRetry(c) THEN "sleep" ELSE "failed"]]
    /\ UNCHANGED <<sentIds, lastId>>

sameId(o) == UNCHANGED <<lastId, sentIds>>

\* sleep(getRetryDelay) is over: the same request again.
retryNow(o) ==
    /\ call[o].at = "sleep"
    /\ call' = [call EXCEPT ![o].at = "fetch", ![o].attempt = @ + 1]
    /\ sameId(o) /\ UNCHANGED acted

\* React Query calls the query function again, whatever the error was;
\* mutations have retry: 0.
retryQuery(o) ==
    /\ o \in Queries /\ call[o].at = "failed" /\ call[o].run <= QueryRetries
    /\ startCall(o, [call[o] EXCEPT !.at = "fetch", !.run = @ + 1, !.attempt = 1])
    /\ UNCHANGED acted

ApiNext ==
    \E o \in ApiOps :
        \/ request(o) \/ retryNow(o) \/ retryQuery(o)
        \/ \E outcome \in Outcomes, reached \in BOOLEAN : settle(o, outcome, reached)

-----------------------------------------------------------------------------
(* Properties. *)

\* ApiClient.request: the server may have acted on a call whose answer was lost
\* or was a 503.  Only a GET or a DELETE is ever sent again, so nothing else is
\* carried out twice, however its answers go astray.
UnsafeActedOnce == \A o \in ApiOps : call[o].method = "POST" => acted[o] <= 1

\* correlationInterceptors: all the tries of one call carry one correlation id,
\* which no other call shares; the runs of a query are calls of their own.
OneIdPerCall ==
    /\ \A o \in ApiOps : \A x, y \in sentIds[o] : x.run = y.run <=> x.id = y.id
    /\ \A o, p \in ApiOps : o # p => {x.id : x \in sentIds[o]} \intersect {x.id : x \in sentIds[p]} = {}
=============================================================================
