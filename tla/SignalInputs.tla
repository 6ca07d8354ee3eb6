---------------------------- MODULE SignalInputs ----------------------------
(***************************************************************************)
(* What one call of getCurrentSignal decides from: the stored TradingView   *)
(* event and Theta snapshot, the FMP answers and, under them all, a mock    *)
(* scenario (decision_engine/current-signal.js, apply...Snapshot), brought  *)
(* to one record by normalizer/build-normalized-signal.js.                  *)
(*                                                                          *)
(* A live call starts from the default scenario too and overrides only      *)
(* some of its fields: gamma regime, implied volatility, risk of events and *)
(* advanced greeks are those of the scenario until a feed replaces them.    *)
(*                                                                          *)
(* The stores are the shared ones (file or Redis), in which a number that   *)
(* is not a number reads back as null.                                      *)
(***************************************************************************)
EXTENDS ThetaDealer

CONSTANTS
    TvStale,       \* an event is stale when it came this late, in ticks (5 min)
    ThetaStale     \* a snapshot is stale when older than this, in ticks (300 s)

ASSUME InputsAssumption == TvStale \in Nat /\ ThetaStale \in Nat

Events == {"heartbeat", "breakout_confirmed", "breakdown_confirmed", "pullback_holding",
           "retest_failed", "structure_invalidated"}

NoEvent == [event |-> "none", price |-> Null, level |-> Null, es |-> Null, late |-> 0]
NoTheta == [status |-> "none", age |-> 0]

\* TRADINGVIEW_EVENT_MAP
StructureOf(event) ==
    CASE event = "heartbeat"                                -> "waiting"
      [] event \in {"breakout_confirmed", "pullback_holding"} -> "breakout_confirmed_pullback_ready"
      [] event \in {"breakdown_confirmed", "retest_failed"}   -> "breakdown_confirmed"
      [] event = "structure_invalidated"                    -> "structure_invalidated"

\* A record that has taken up a finding.
With(n, name, value) == [f \in DOMAIN n \cup {name} |-> IF f = name THEN value ELSE n[f]]

-----------------------------------------------------------------------------
(* Theta.                                                                   *)

\* resolveExternalSpot of the bridge: the price of the stored event, 0 if it has
\* none; a price of FMP fails the test for price_available here too.
BridgeSpot(tv) == IF tv = NoEvent THEN Null ELSE SafeNumber(tv.price)

Unread(spot) ==
    [status |-> IF spot = Null THEN "unavailable" ELSE "partial", spot |-> spot,
     regime |-> "unknown", behavior |-> "unknown", path |-> "unknown",
     call |-> Null, put |-> Null, pain |-> Null, zero |-> Null, upper |-> Null, lower |-> Null]

\* A mutant of ThetaStatus: a snapshot keeps the status it was stored with.
ThetaStatusKept(theta) == IF theta = NoTheta THEN "unavailable" ELSE theta.status

\* annotateSnapshot, on every read
ThetaStatus(theta) ==
    IF theta = NoTheta THEN "unavailable"
    ELSE IF theta.status \in {"live", "partial"} /\ theta.age > ThetaStale THEN "stale"
    ELSE theta.status

NoDealer(status) ==
    [status |-> status, regime |-> "unknown", behavior |-> "unknown", path |-> "unknown",
     call |-> Null, put |-> Null, pain |-> Null, zero |-> Null, upper |-> Null, lower |-> Null]

\* buildDealerConclusionEngine
Conclusion(theta, external) ==
    LET status == ThetaStatus(theta)
        kept(fields) == [f \in DOMAIN fields |->
                            IF f \in {"call", "put", "pain", "zero"} THEN theta[f] ELSE fields[f]]
    IN  IF status \in {"unavailable", "error", "mock"} THEN NoDealer(status)
        ELSE IF Or(theta.spot, external) = Null
        THEN kept(NoDealer(IF status = "live" THEN "partial" ELSE status))
        ELSE [f \in DOMAIN NoDealer(status) |-> IF f = "status" THEN status ELSE theta[f]]

\* deriveThetaExecutionConstraint
DealerExecutable(dealer) == dealer.status \notin {"partial", "stale", "unavailable", "error", "mock"}

\* deriveThetaSignalFromSnapshot: on the fields as they were sent.
ThetaSignal(theta) ==
    IF theta.status \notin {"live", "partial"} THEN "neutral"
    ELSE IF theta.regime = "negative" \/ theta.path = "down" THEN "bearish_pressure"
    ELSE IF theta.regime = "positive" /\ theta.behavior = "pin" THEN "income_supportive"
    ELSE IF theta.path = "up" THEN "bullish_pullback"
    ELSE "neutral"

-----------------------------------------------------------------------------
(* FMP.                                                                     *)

\* A mutant of FmpRisk: an event is over when it is published.
FmpRiskAhead(calendar) ==
    LET within(a, b) == \E e \in calendar : e.high /\ e.minutes >= a /\ e.minutes <= b
    IN  IF within(0, 180) THEN "high" ELSE IF within(181, 1440) THEN "medium" ELSE "low"

\* classifyFmpRisk: the events of the calendar are [high, minutes], minutes
\* until they are published.
FmpRisk(calendar) ==
    LET within(a, b) == \E e \in calendar : e.high /\ e.minutes >= a /\ e.minutes <= b
    IN  IF within(-30, 180) THEN "high" ELSE IF within(181, 1440) THEN "medium" ELSE "low"

\* getFmpSnapshot: without a key the event answer is a mock of low risk; a
\* failed request is one of medium risk.
FmpEvent(fmp) ==
    CASE fmp.key = FALSE     -> [status |-> "unavailable", risk |-> "low", signal |-> "clear", failed |-> FALSE]
      [] fmp.key /\ ~fmp.up  -> [status |-> "unavailable", risk |-> "medium",
                                 signal |-> "event_risk_unknown", failed |-> TRUE]
      [] OTHER -> LET risk == FmpRisk(fmp.calendar)
                  IN  [status |-> "live", risk |-> risk, failed |-> FALSE,
                       signal |-> CASE risk = "high"   -> "event_risk_high"
                                    [] risk = "medium" -> "event_watch"
                                    [] OTHER           -> "clear"]

\* applyFmpEventSnapshot and deriveEventContext: low risk leaves the scenario's.
EventRisk(event, scenarioRisk) ==
    IF event.failed THEN "medium" ELSE IF event.risk # "low" THEN event.risk ELSE scenarioRisk

\* The price is a request of its own: it may fail when that for events does not.
FmpPrice(fmp) == IF fmp.key THEN fmp.price ELSE Null

-----------------------------------------------------------------------------
(* The scenario and the normalized record.                                  *)

\* A mutant of Started: a live call starts without the greeks of the scenario.
StartedBare(scenario, demo) ==
    IF demo THEN scenario
    ELSE [scenario EXCEPT !.spot = Null, !.flip = Null, !.call = Null, !.put = Null, !.pain = Null,
                          !.structure = "waiting", !.theta = "unavailable",
                          !.flow = "unavailable", !.dark = "unavailable", !.dealer = "unavailable",
                          !.vanna = "neutral", !.charm = "neutral"]

\* The record that getCurrentSignal starts from.
Started(scenario, demo) ==
    IF demo THEN scenario
    ELSE [scenario EXCEPT !.spot = Null, !.flip = Null, !.call = Null, !.put = Null, !.pain = Null,
                          !.structure = "waiting", !.theta = "unavailable",
                          !.flow = "unavailable", !.dark = "unavailable", !.dealer = "unavailable"]

\* The external spot is that of a Theta snapshot: applyFmpPriceSnapshot asks for
\* price_available, which no FMP answer has, and applyTradingViewPriceFallback
\* takes the missing spot of a live call for a number (hasFiniteNumber), as
\* shouldAdoptThetaSpot does with that of the snapshot.
ExternalSpot(theta, demo) == IF demo \/ theta = NoTheta THEN Null ELSE SafeNumber(theta.spot)

\* normalizeMockScenario on what the apply functions made.
Normalized(in) ==
    LET base     == Started(in.scenario, in.demo)
        dealer   == Conclusion(in.theta, base.spot)
        event    == FmpEvent(in.fmp)
        external == ExternalSpot(in.theta, in.demo)
        has      == in.theta # NoTheta
        stale    == [theta |-> ThetaStatus(in.theta) = "stale",
                     tv    |-> IF in.tv = NoEvent THEN in.demo /\ base.tvStale ELSE in.tv.late >= TvStale,
                     uw    |-> base.uwStale]
    IN  [demo      |-> in.demo,
         spot      |-> Or(external, FmpPrice(in.fmp)),
         fmpReal   |-> FmpPrice(in.fmp) # Null,
         spotReal  |-> external = Null /\ FmpPrice(in.fmp) # Null,
         flip      |-> IF has /\ ~in.demo THEN SafeNumber(Or(dealer.zero, dealer.pain)) ELSE base.flip,
         call      |-> IF has THEN dealer.call ELSE base.call,
         put       |-> IF has THEN dealer.put ELSE base.put,
         pain      |-> IF has THEN dealer.pain ELSE base.pain,
         gamma     |-> IF has THEN dealer.regime ELSE base.gamma,
         theta     |-> IF has THEN ThetaSignal(in.theta) ELSE base.theta,
         status    |-> ThetaStatus(in.theta),
         dealer    |-> IF has THEN dealer ELSE NoDealer("unavailable"),
         event     |-> in.tv.event,
         level     |-> in.tv.level,
         structure |-> IF in.tv = NoEvent THEN base.structure ELSE StructureOf(in.tv.event),
         risk      |-> EventRisk(event, base.risk),
         fmp       |-> [status |-> event.status, signal |-> event.signal],
         stale     |-> stale,
         anyStale  |-> stale.theta \/ stale.tv \/ stale.uw,
         iv        |-> base.iv,
         biases    |-> [flow |-> base.flow, dark |-> base.dark, dealer |-> base.dealer,
                        vanna |-> base.vanna, charm |-> base.charm]]
=============================================================================
