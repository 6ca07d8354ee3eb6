---------------------------- MODULE CommandCentre ----------------------------
(***************************************************************************)
(* The second half of getCurrentSignal: the engines on the Unusual Whales   *)
(* factors (engines/), the price map that they take over, the command       *)
(* centre and, last, the final decision (decision_engine/raw-note-v2), all  *)
(* of them on top of the master pass over the normalized record n.          *)
(*                                                                          *)
(* uw = [provider, raw]: the status of the provider and its raw snapshot,    *)
(* to which Manned and Noted add what the engines have found;               *)
(* es: the price of the future in the stored event, or Null.                *)
(***************************************************************************)
EXTENDS MasterRules, UwFactors

Reads(provider) == provider \in {"live", "partial", "stale"}

-----------------------------------------------------------------------------
(* The engines.                                                             *)

\* runUwInstitutionalEngine
Institution(uw) ==
    LET raw  == uw.raw
        sum  == Size(NetPremium(raw)) + 8 * Sweeps(raw) + 6 * LargeTrades(raw)
        seen == Reads(uw.provider) /\ FlowDirection(raw) # "none"
        score == IF sum > 100 THEN 100 ELSE sum
    IN  IF ~seen THEN [state |-> "unavailable", direction |-> "none", score |-> 0]
        ELSE [direction |-> FlowDirection(raw), score |-> score,
              state |-> IF score >= 70 THEN "bombing" ELSE IF score >= 35 THEN "building" ELSE "none"]

\* runUwVolatilityEngine.  Number(null) is 0: with the change of the volatility,
\* which is always null, there is always an input, and a missing rank counts as 0
\* before the percentile is asked for.  The realized part counts at most 30 points.
Activation(uw) ==
    LET iv       == uw.raw.iv
        realized == SafeNumber(IvPercent(iv.realized))
        capped   == IF realized > 300 THEN 300 ELSE realized
        score    == (65 * SafeNumber(iv.rank) + 10 * capped + 50) \div 100
                    + (CASE uw.institution.state = "bombing"  -> 25
                         [] uw.institution.state = "building" -> 10 [] OTHER -> 0)
    IN  IF score >= 85 THEN [state |-> "extreme", light |-> "green"]
        ELSE IF score >= 70 THEN [state |-> "strong", light |-> "green"]
        ELSE IF score >= 50 THEN [state |-> "active", light |-> "yellow"]
        ELSE IF score >= 30 THEN [state |-> "lifting", light |-> "yellow"]
        ELSE [state |-> "inactive", light |-> "red"]

\* runUwSentimentEngine and runUwDarkpoolEngine
Tide(uw) == IF Reads(uw.provider) THEN TideState(uw.raw) ELSE "unavailable"
Dark(uw) == IF ~Reads(uw.provider) THEN "unavailable"
            ELSE IF DarkpoolBias(uw.raw) = "unknown" THEN "neutral" ELSE DarkpoolBias(uw.raw)

\* runFlowValidationEngine, shown on the page: dealer and technicals, whose path
\* and trend are never known here, neither align nor absorb.
FlowAlignment(uw) ==
    LET sides == <<uw.institution.direction,
                   IF uw.dark = "support" THEN "bullish" ELSE "neutral",
                   IF uw.tide = "risk_on" THEN "bullish"
                   ELSE IF uw.tide = "risk_off" THEN "bearish"
                   ELSE "neutral">>
        count(side) == Len(SelectSeq(sides, LAMBDA s : s = side))
    IN  IF count("bullish") > 0 /\ count("bearish") > 0 THEN "conflict"
        ELSE IF count("bullish") >= 2 THEN "bullish"
        ELSE IF count("bearish") >= 2 THEN "bearish"
        ELSE "mixed"

-----------------------------------------------------------------------------
(* The projection to the future and the price map.                          *)

PriceMapActive(uw) == uw.dealer.status \in {"live", "partial"}

\* buildProjectionLevels, first the walls of UW and then those of Theta
ProjectionLevels(n, uw) ==
    LET d == uw.dealer
    IN  [call |-> Or(d.upper, Or(n.dealer.call, n.call)),
         put  |-> Or(d.lower, Or(n.dealer.put, n.put)),
         zero |-> Or(d.flip, Or(n.dealer.zero, n.flip))]

\* buildCrossAssetProjection with the future as the instrument: a level moves by
\* the basis, which needs both prices.  A level or a price of 0 counts as missing.
EsLevel(level, n, es) ==
    IF NoPrice(level) \/ NoPrice(es) \/ NoPrice(n.spot) THEN Null ELSE level + es - n.spot

\* enrichTradePlanWithProjection: whatever its side, a plan gets the zero gamma
\* for its entry, the put wall for its stop and the call wall for its target.
Projected(n, uw, es) ==
    LET plan   == n.plan
        levels == ProjectionLevels(n, uw)
        call   == EsLevel(levels.call, n, es)
        old    == plan.targets
    IN  [plan EXCEPT
            !.entry   = <<EsLevel(levels.zero, n, es), EsLevel(levels.zero, n, es)>>,
            !.stop    = EsLevel(levels.put, n, es),
            !.targets = IF call = Null THEN old ELSE IF old = <<>> THEN <<call>> ELSE [old EXCEPT ![1] = call]]

\* hasActionableTradePlan.  The texts of a ready plan stay where no level is
\* projected; those of any other plan are there only when one is.
PlanComplete(n, uw, es) ==
    LET plan == Projected(n, uw, es)
    IN  /\ \E i \in DOMAIN plan.targets : plan.targets[i] # Null
        /\ n.plan.status = "ready" \/ (plan.entry[1] # Null /\ plan.stop # Null)

\* The plan's status once the price map of UW has taken over.
PlanStatus(n, uw) ==
    IF PriceMapActive(uw) /\ n.plan.status = "blocked" THEN "wait" ELSE n.plan.status

ResolverAction(n, uw) ==
    IF PriceMapActive(uw) /\ n.sentinel.status = "waiting" THEN "wait" ELSE Resolver(n)

-----------------------------------------------------------------------------
(* runCommandCenterEngine and buildStrategyPermissions.                     *)

\* The flow of the master pass is never available, so that its divergence from
\* the price always asks for waiting: a candidate does not survive it.
CommandState(n, uw, es) ==
    LET dataBlocked == FreshnessLabel(n) = "BLOCKED" \/ Health(n) = "blocked"
    IN  IF \/ dataBlocked /\ uw.dealer.status = "unavailable"
           \/ uw.provider = "error"
           \/ n.sentinel.status = "stale"
           \/ ResolverAction(n, uw) = "block"
        THEN "blocked" ELSE "wait"

\* directionFromInputs, with a path that is never known
CommandDirection(uw) ==
    IF uw.institution.direction \in {"bullish", "bearish"} THEN uw.institution.direction
    ELSE IF uw.dark = "neutral" THEN "range"
    ELSE IF uw.tide = "risk_on" THEN "bullish"
    ELSE IF uw.tide = "risk_off" THEN "bearish"
    ELSE "unknown"

\* The strategies that are allowed: a positive and pinning dealer, which the
\* condor asks for, does not arise.
Permitted(n, uw, es) ==
    LET act    == uw.activation
        green  == act.light = "green" \/ act.state = "active"
        common == /\ n.sentinel.matched
                  /\ uw.institution.state \in {"building", "bombing"}
                  /\ Health(n) # "blocked" /\ n.open
                  /\ PlanStatus(n, uw) = "ready" /\ PlanComplete(n, uw, es)
    IN  {s \in {"single_leg", "vertical"} :
            CASE s = "single_leg" -> common /\ green
              [] s = "vertical"   -> /\ common /\ (green \/ act.light = "yellow")
                                     /\ CommandDirection(uw) \in {"bullish", "bearish"}}

-----------------------------------------------------------------------------
(* raw-note-v2: the final decision.                                         *)

\* buildPriceSourcesV2 and buildSpotConclusion: only a price of FMP that no
\* Theta snapshot and no scenario stands before is a spot.
SpotRead(n) == IF n.spotReal THEN n.spot ELSE Null

\* buildEventConclusion
FinalEventRisk(n, uw) ==
    IF FmpConclusion(n).event = "blocked" THEN "blocked"
    ELSE IF uw.raw.iv.rank # Null /\ uw.raw.iv.rank >= 80 THEN "caution"
    ELSE "unknown"

NoteOf(n, uw) ==
    UwConclusion(uw.provider, uw.raw, uw.institution, uw.dark, uw.tide, SpotRead(n))

\* A mutant of HealthStops: without a spot the decision goes on.
HealthStopsUnpriced(n, uw, left) ==
    \/ left < 3
    \/ FinalEventRisk(n, uw) = "blocked"
    \/ uw.note.status = "unavailable"

\* applyHealthMatrix; left: the ticks of 5 minutes to the close.
HealthStops(n, uw, left) ==
    \/ left < 3
    \/ SpotRead(n) = Null
    \/ FinalEventRisk(n, uw) = "blocked"
    \/ uw.note.status = "unavailable"

Longs  == {"A_long", "B_long"}
Shorts == {"A_short", "B_short"}

\* runDealerTree
DealerBias(spot, note) ==
    LET nearer(a, b) == /\ Null \notin {spot, a, b} /\ spot # 0
                        /\ 1000 * Gap(spot, a) < 3 * spot /\ 100 * Gap(spot, b) > spot
        momentum     == Null \notin {spot, note.zero} /\ note.regime = "negative"
    IN  IF nearer(note.call, note.put) THEN "bearish"
        ELSE IF nearer(note.put, note.call) THEN "bullish"
        ELSE IF momentum /\ spot > note.zero THEN "bullish_or_momentum"
        ELSE IF momentum /\ spot < note.zero THEN "bearish_or_momentum"
        ELSE "range"

\* applyFlowTree: UW against the dealer takes the dealer's own side away, which
\* leaves nothing, because the dealer tree took the other.
FlowAgainst(bias, note) ==
    LET other == IF bias \in {"bullish", "bullish_or_momentum"} THEN "bearish" ELSE "bullish"
    IN  /\ bias # "range"
        /\ \/ note.flow = other
           \/ note.dark = other /\ note.tide = other

\* The setups that pass the filters of buildFinalDecision.  The condor never
\* does: an event risk is blocked, caution or unknown.
FinalSetups(n, uw) ==
    LET note == uw.note
        bias == DealerBias(SpotRead(n), note)
        noFlow == note.flow = "unavailable" \/ note.dark = "unavailable"
        sided  == CASE bias = "range" -> {"B_long", "B_short"}
                    [] bias \in {"bullish", "bullish_or_momentum"} -> Longs
                    [] OTHER -> Shorts
    IN  {s \in sided :
            /\ (noFlow \/ uw.activation.state = "inactive") => s \in {"B_long", "B_short"}
            /\ ~FlowAgainst(bias, note)}

SetupOf(event) ==
    CASE event = "breakout_confirmed"  -> "A_long"
      [] event = "pullback_holding"    -> "B_long"
      [] event = "breakdown_confirmed" -> "A_short"
      [] event = "retest_failed"       -> "B_short"
      [] OTHER                         -> "none"

\* buildFinalDecision with applyTvMatchTree
FinalState(n, uw, left) ==
    LET setups == FinalSetups(n, uw)
    IN  IF HealthStops(n, uw, left) THEN "blocked"
        ELSE IF setups = {} THEN "wait"
        ELSE IF n.event = "structure_invalidated" THEN "invalidated"
        ELSE IF n.sentinel.status = "stale" THEN "blocked"
        ELSE IF n.sentinel.matched /\ SetupOf(n.event) \in setups THEN "actionable"
        ELSE "wait"

\* The final shares of a position: whatever is not actionable gets none.
Multiplier(n, uw, left) == IF FinalState(n, uw, left) = "actionable" THEN 50 ELSE 0

-----------------------------------------------------------------------------
(* The answer of GET /signals/current, as far as it is decided here.        *)

\* The engines on the factors, each handed what those before it have found, and
\* the conclusion for the final decision.
Manned(uw) == [provider |-> uw.provider, raw |-> uw.raw,
               institution |-> Institution(uw), dark |-> Dark(uw), tide |-> Tide(uw),
               dealer |-> UwDealer(uw.provider, uw.raw)]
Noted(n, uw) == With(With(uw, "activation", Activation(uw)), "note", NoteOf(n, uw))

\* The answer from the outcome of the master pass and of the engines.
AnswerOf(n, uw, es, left) ==
    [mode       |-> n.coherence.mode,
     health     |-> Health(n),
     day        |-> DayType(n),
     confidence |-> Confidence(n),
     action     |-> RecommendedAction(n),
     plan       |-> n.plan,
     blank      |-> CardsBlank(n),
     ready      |-> ReadyGate(n),
     degraded   |-> Degradation(n),
     score      |-> ConfidenceScore(n),
     path       |-> DealerPath(n),
     barred     |-> BlockedSetups(n),
     shown      |-> Projected(n, uw, es),
     flip       |-> GammaFlip(uw.raw),
     label      |-> FreshnessLabel(n),
     command    |-> CommandState(n, uw, es),
     permitted  |-> Permitted(n, uw, es),
     final      |-> FinalState(n, uw, left),
     share      |-> Multiplier(n, uw, left),
     setups     |-> IF HealthStops(n, uw, left) THEN {} ELSE FinalSetups(n, uw),
     alignment  |-> FlowAlignment(uw)]

AnswerWith(n, uw, es, left) == AnswerOf(n, Noted(n, uw), es, left)

Answer(in, uw, left) == AnswerWith(Mastered(Normalized(in)), Manned(uw), in.tv.es, left)
=============================================================================
