--------------------------- MODULE CircuitBreaker ---------------------------
(***************************************************************************)
(* The circuit breaker around Soroban RPC submissions (circuitBreaker.ts). *)
(* Calls overlap: a call let through under one state of the breaker may    *)
(* return under another.  A timestamp is kept as the time since it was     *)
(* taken, capped once no comparison can tell the difference, so that the   *)
(* clock runs for ever in a finite model.                                  *)
(***************************************************************************)
EXTENDS Integers, Sequences

CONSTANTS Calls,            \* concurrent callers of execute
          failureThreshold,
          windowMs,         \* in ticks
          cooldownMs        \* in ticks

ASSUME BreakerAssumption ==
    /\ failureThreshold \in Nat \ {0}
    /\ windowMs \in Nat \ {0} /\ cooldownMs \in Nat \ {0}

VARIABLES state,         \* CLOSED, OPEN or HALF_OPEN
          failures,      \* failures counted in the current window
          windowAge,     \* now - windowStart
          openedAge,     \* now - openedAt, or Never
          running,       \* the calls that await fn()
          healthy,       \* external: the RPC answers every call from now on
          streak         \* history: ages of the latest failures since a success

breakerVars == <<state, failures, windowAge, openedAge, running, healthy, streak>>

Never == -1
\* More ticks than any comparison of the code or of a property looks back.
Horizon == windowMs + cooldownMs + 1
\* How many failures are remembered for OpensWithinTwoWindows.
Memory == 2 * failureThreshold - 1

BreakerTypeOK ==
    /\ state \in {"CLOSED", "OPEN", "HALF_OPEN"}
    /\ failures \in Nat
    /\ windowAge \in 0..Horizon /\ openedAge \in {Never} \cup 0..Horizon
    /\ running \subseteq Calls /\ healthy \in BOOLEAN
    /\ (state # "CLOSED" => openedAge # Never)

BreakerInit ==
    /\ state = "CLOSED" /\ failures = 0
    /\ windowAge = 0 /\ openedAge = Never
    /\ running = {} /\ healthy = FALSE
    /\ streak = << >>

-----------------------------------------------------------------------------
cooled == state = "OPEN" /\ openedAge # Never /\ openedAge >= cooldownMs

maybeTransitionToHalfOpen == IF cooled THEN "HALF_OPEN" ELSE state

\* execute up to the await of fn(): an OPEN breaker throws CircuitOpenError.
execute(c) ==
    /\ c \notin running
    /\ state' = maybeTransitionToHalfOpen
    /\ running' = IF state' = "OPEN" THEN running ELSE running \cup {c}
    /\ UNCHANGED <<failures, windowAge, openedAge, healthy, streak>>

\* fn() resolved.
onSuccess(c) ==
    /\ c \in running
    /\ running' = running \ {c}
    /\ state' = "CLOSED" /\ failures' = 0
    /\ windowAge' = 0 /\ openedAge' = Never
    /\ streak' = << >>
    /\ UNCHANGED healthy

\* The failures of the window this failure falls in.
counted == IF windowAge > windowMs THEN 1 ELSE failures + 1

\* Mutant: the breaker opens on the failure after the threshold.
trips_late(n) == n > failureThreshold

trips(n) == n >= failureThreshold

\* openedAt after the n-th failure of the window.
opened(n) == IF trips(n) THEN 0 ELSE openedAge

\* fn() rejected.
onFailure(c) ==
    /\ c \in running
    /\ ~healthy
    /\ running' = running \ {c}
    /\ failures' = counted
    /\ windowAge' = IF windowAge > windowMs THEN 0 ELSE windowAge
    /\ state' = IF trips(counted) THEN "OPEN" ELSE state
    /\ openedAge' = opened(counted)
    /\ streak' = LET all == Append(streak, 0)
                 IN  SubSeq(all, IF Len(all) > Memory THEN 2 ELSE 1, Len(all))
    /\ UNCHANGED healthy

\* The health endpoint reads currentState.
currentState ==
    /\ cooled
    /\ state' = maybeTransitionToHalfOpen
    /\ UNCHANGED <<failures, windowAge, openedAge, running, healthy, streak>>

-----------------------------------------------------------------------------
older(age) == IF age = Never \/ age = Horizon THEN age ELSE age + 1

tick ==
    /\ windowAge' = older(windowAge)
    /\ openedAge' = older(openedAge)
    /\ streak' = [i \in DOMAIN streak |-> older(streak[i])]
    /\ UNCHANGED <<state, failures, running, healthy>>

\* The RPC recovers for good.
recover == healthy' = TRUE /\ UNCHANGED <<state, failures, windowAge, openedAge,
                                          running, streak>>

BreakerNext ==
    \/ \E c \in Calls : execute(c) \/ onSuccess(c) \/ onFailure(c)
    \/ currentState
    \/ tick
    \/ recover

\* The clock runs, every RPC call returns, and callers keep calling.
BreakerSpec == BreakerInit /\ [][BreakerNext]_breakerVars
             /\ WF_breakerVars(tick)
             /\ \A c \in Calls : /\ WF_breakerVars(execute(c))
                                 /\ WF_breakerVars(onSuccess(c) \/ onFailure(c))

-----------------------------------------------------------------------------
(* Properties *)

\* The counting window does not slide: it starts again at the first failure
\* after it ran out, so threshold failures close together may straddle two
\* windows and leave the breaker closed.  But 2 * threshold - 1 failures within
\* one windowMs, with no success among them, have always opened it.
OpensWithinTwoWindows ==
    (Len(streak) = Memory /\ streak[1] <= windowMs)
        => openedAge # Never /\ openedAge <= streak[1]

\* Once the RPC has recovered the breaker closes and stays closed, from
\* whatever mix of late failures and half-open probes it was in.
Recovers == healthy ~> [](state = "CLOSED")
=============================================================================
