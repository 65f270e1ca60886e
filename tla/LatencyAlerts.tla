--------------------------- MODULE LatencyAlerts ---------------------------
(***************************************************************************)
(* Latency objectives and their alerts (backend/src/latencyMonitoring.ts). *)
(* A measurement is slow (above its endpoint's threshold) or not.  Alerts  *)
(* come from two places: the recording of a measurement, and a timer that  *)
(* checks every tracker.  Both note the alert before they send it, and a   *)
(* sending that fails is only logged.                                      *)
(***************************************************************************)
EXTENDS Naturals, Sequences, FiniteSets, TLC

CONSTANTS MappedEndpoints,   \* endpoints with a tracker from the start
          OtherEndpoints,    \* endpoints that get one with their first measurement
          SloWindow,         \* evaluationWindowMs
          AlertCooldown,     \* alertCooldownMs
          LatMaxTime,        \* bound: ticks of the clock
          MaxPoints          \* bound: measurements of an endpoint in its window

ASSUME LatAssumption ==
    /\ SloWindow \in Nat \ {0} /\ AlertCooldown \in Nat
    /\ LatMaxTime \in Nat \ {0} /\ MaxPoints \in Nat

LatEndpoints == MappedEndpoints \cup OtherEndpoints

VARIABLES
    latNow,
    trackers,    \* endpoint -> [points, lastAlert]; a point is [at, slow]
    monitoring,  \* the timer runs
    alertLog     \* history: endpoint -> times of its alerts

latVars == <<latNow, trackers, monitoring, alertLog>>

NewTracker == [points |-> << >>, lastAlert |-> 0]

LatTypeOK ==
    /\ latNow \in 1..LatMaxTime /\ monitoring \in BOOLEAN
    /\ MappedEndpoints \subseteq DOMAIN trackers /\ DOMAIN trackers \subseteq LatEndpoints
    /\ \A e \in DOMAIN trackers : /\ trackers[e].lastAlert \in 0..latNow
                                  /\ Len(trackers[e].points) <= MaxPoints

\* The clock is far from 0, the value that stands for no alert yet.
LatInit ==
    /\ latNow = 1 /\ trackers = [e \in MappedEndpoints |-> NewTracker]
    /\ monitoring = FALSE /\ alertLog = [e \in LatEndpoints |-> << >>]

-----------------------------------------------------------------------------
pruneStaleData(points) == SelectSeq(points, LAMBDA p : p.at + SloWindow > latNow)

\* The rank of the 95th percentile among n measurements.
p95Rank(n) == (95 * n + 99) \div 100

\* P95 is above the threshold: the measurements from its rank up are slow.
computeP95(points) ==
    LET live == pruneStaleData(points)
    IN /\ live # << >>
       /\ Cardinality({i \in DOMAIN live : live[i].slow}) > Len(live) - p95Rank(Len(live))

shouldAlert(t) ==
    computeP95(t.points) /\ (latNow > t.lastAlert + AlertCooldown \/ t.lastAlert = 0)

recordAlert(t) == [t EXCEPT !.lastAlert = latNow]

\* One call for all of them to every integration: a failure is logged and
\* changes nothing.
sendAlerts(es) ==
    alertLog' = [e \in LatEndpoints |->
                    IF e \in es THEN Append(alertLog[e], latNow) ELSE alertLog[e]]

addLatencyMeasurement(t, slow) ==
    [t EXCEPT !.points = pruneStaleData(Append(@, [at |-> latNow, slow |-> slow]))]

\* An endpoint without a tracker gets one, and no check.
recordLatency(e, slow) ==
    LET known == e \in DOMAIN trackers
        t == addLatencyMeasurement(IF known THEN trackers[e] ELSE NewTracker, slow)
        es == IF known /\ shouldAlert(t) THEN {e} ELSE {}
    IN /\ Len(t.points) <= MaxPoints
       /\ trackers' = [f \in DOMAIN trackers \cup {e} |->
                          IF f # e THEN trackers[f] ELSE IF es = {} THEN t ELSE recordAlert(t)]
       /\ IF es = {} THEN UNCHANGED alertLog ELSE sendAlerts(es)
       /\ UNCHANGED <<latNow, monitoring>>

checkSLOViolations ==
    LET es == {e \in DOMAIN trackers : shouldAlert(trackers[e])}
    IN /\ monitoring /\ es # {}
       /\ trackers' = [e \in DOMAIN trackers |->
                          IF e \in es THEN recordAlert(trackers[e]) ELSE trackers[e]]
       /\ sendAlerts(es)
       /\ UNCHANGED <<latNow, monitoring>>

startMonitoring ==
    ~monitoring /\ monitoring' = TRUE /\ UNCHANGED <<latNow, trackers, alertLog>>

stopMonitoring ==
    monitoring /\ monitoring' = FALSE /\ UNCHANGED <<latNow, trackers, alertLog>>

latTick ==
    /\ latNow < LatMaxTime /\ latNow' = latNow + 1
    /\ UNCHANGED <<trackers, monitoring, alertLog>>

LatNext ==
    \/ \E e \in LatEndpoints, slow \in BOOLEAN : recordLatency(e, slow)
    \/ checkSLOViolations \/ startMonitoring \/ stopMonitoring \/ latTick

-----------------------------------------------------------------------------
(* Properties. *)

\* recordLatency and the timer both alert, each for itself: still two alerts
\* of one endpoint are more than a cooldown apart, so a failed sending is not
\* made good before that.
AlertsSpaced ==
    \A e \in LatEndpoints : \A i \in 1..(Len(alertLog[e]) - 1) :
        alertLog[e][i + 1] > alertLog[e][i] + AlertCooldown

Breaching(e) == e \in DOMAIN trackers /\ computeP95(trackers[e].points)
Cooling(e) == e \in DOMAIN trackers /\ trackers[e].lastAlert # 0
                /\ latNow <= trackers[e].lastAlert + AlertCooldown

\* An endpoint over its objective, also one whose tracker was made by its very
\* first measurement, is alerted in the end, or its cooldown is not over, or
\* it is no longer over its objective, or monitoring is stopped.
BreachIsAlerted ==
    \A e \in LatEndpoints : Breaching(e) ~> (~Breaching(e) \/ ~monitoring \/ Cooling(e))
=============================================================================
