------------------------------ MODULE HomeView ------------------------------
(***************************************************************************)
(* What the home page shows and what it lets execute: buildPrimaryCard and  *)
(* the data health of decision_engine/signal-formatter.js, and              *)
(* home-view-model-builder.js.                                              *)
(***************************************************************************)
EXTENDS MarketRegime

\* direction of buildPrimaryCard: that of plan A, else a crossed trigger line
\* that the flow agrees with.
CardDirection(order, trigger, behavior) ==
    IF order.status # "blocked" /\ order.a.direction = "BULLISH" THEN "LONG_CALL"
    ELSE IF order.status # "blocked" /\ order.a.direction = "BEARISH" THEN "SHORT_PUT"
    ELSE IF trigger = "bull_triggered" /\ behavior = "call_effective" THEN "LONG_CALL"
    ELSE IF trigger = "bear_triggered" /\ behavior = "put_effective" THEN "SHORT_PUT"
    ELSE "LOCKED"

\* homepage_locked of the data health.  The home view does not read it.
HealthLocked(wallStatus, history) == wallStatus # "valid" \/ ~Enough(history)

\* A mutant of DisplayStatus: the reading of the market does not hold back.
DisplayStatusUnheld(order, direction, forceWait) ==
    CASE order.status = "ready" /\ direction = "LONG_CALL" -> "LONG_READY"
      [] order.status = "ready" /\ direction = "SHORT_PUT" -> "SHORT_READY"
      [] order.status = "waiting"                          -> "WAIT"
      [] OTHER                                             -> "LOCKED"

\* displayStatus of buildHomeViewModel
DisplayStatus(order, direction, forceWait) ==
    LET allowed == order.status = "ready" /\ direction # "LOCKED" /\ ~forceWait
    IN  CASE allowed /\ direction = "LONG_CALL" -> "LONG_READY"
          [] allowed /\ direction = "SHORT_PUT" -> "SHORT_READY"
          [] order.status = "waiting"           -> "WAIT"
          [] OTHER                              -> "LOCKED"

ReadyHomes == {"LONG_READY", "SHORT_READY"}

\* homepageAllowDirection
HomeShowsDirection(status, flow) ==
    status \in ReadyHomes /\ flow.showsDirection /\ flow.behavior # "put_squeezed"

\* _execAllowed2.  The lock zone it would also ask for is read from a field
\* that no engine writes, so it never forbids.
ExecAllowed(status, flow, gateOpen) == HomeShowsDirection(status, flow) /\ gateOpen

\* planState of a plan: READY is the state that may be executed.
PlanState(plan, allowed, capitalGate) ==
    IF plan = NoSecond THEN "none"
    ELSE IF plan.direction = "WAIT" THEN "VOID"
    ELSE IF allowed /\ capitalGate = "PASS" THEN "READY"
    ELSE "PENDING"

PlanSide(plan) ==
    CASE plan.direction = "BULLISH" -> "LONG"
      [] plan.direction = "BEARISH" -> "SHORT"
      [] OTHER                      -> "WAIT"

\* plan_mode of the order plan.  It does not ask the capital gate.
PlanMode(order, allowed, flow) ==
    IF allowed /\ order.a.direction # "WAIT" THEN "EXECUTABLE"
    ELSE IF order.status = "blocked" THEN "OBSERVE"
    ELSE IF order.status = "waiting" THEN "STANDBY"
    ELSE IF ~flow.showsDirection THEN "DEGRADED"
    ELSE "WAIT"
=============================================================================
