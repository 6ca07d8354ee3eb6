----------------------------- MODULE MasterGates -----------------------------
(***************************************************************************)
(* The engines of runMasterEngine (decision_engine/master-engine.js) on a   *)
(* normalized record n: from data coherence and health over the environment *)
(* and the allowed setups to the trade plan, the resolver and the action.   *)
(* On its way the record takes up what the engines have found (Mastered).   *)
(*                                                                          *)
(* The normalized record of the route has no Unusual Whales data, so that   *)
(* this pass always takes UW for unavailable (uw-conclusion-engine.js).     *)
(***************************************************************************)
EXTENDS SignalInputs

NoPrice(x) == x \in {Null, 0}

-----------------------------------------------------------------------------
(* Coherence, health and event risk.                                        *)

\* A mutant of Coherence: a mock scenario is as good as live data.
CoherenceOfAll(n) == [mode |-> "live", executable |-> n.status \in {"live", "unavailable"}]

\* runDataCoherenceEngine.  "far" is the allowed gap, twice the buffer.
Coherence(n) ==
    LET half    == IF Null \in {n.dealer.upper, n.dealer.lower} THEN 0
                   ELSE Gap(n.dealer.upper, n.dealer.lower) \div 2
        far     == IF 3 * half > 150 THEN 3 * half ELSE 150
        levels  == {n.flip, n.call, n.put, n.pain} \ {Null}
        gap     == Null \notin {n.spot, n.flip} /\ Gap(n.spot, n.flip) > far
        outside == /\ n.spot # Null /\ levels # {}
                   /\ \/ \A k \in levels : 2 * (k - n.spot) > far
                      \/ \A k \in levels : 2 * (n.spot - k) > far
        mixed   == n.demo /\ n.spotReal
    IN  [mode |-> IF gap \/ (outside /\ ~mixed) THEN "conflict"
                  ELSE IF mixed THEN "mixed"
                  ELSE IF n.demo THEN "scenario"
                  ELSE "live",
         executable |-> ~n.demo /\ ~gap /\ ~outside /\ n.status \in {"live", "unavailable"}]

\* runDataHealthEngine: it is not handed the constraint of Theta, and no source
\* it calls critical is ever down.
Health(n) ==
    IF n.stale.theta THEN "blocked" ELSE IF n.anyStale THEN "degraded" ELSE "healthy"

InputsFresh(n) == ~n.stale.theta /\ ~n.stale.uw

\* runEventRiskEngine
RiskGate(n) == CASE n.risk = "high" -> "blocked" [] n.risk = "medium" -> "caution" [] OTHER -> "open"

-----------------------------------------------------------------------------
(* Regime, volatility, flow, sentiment and structure.                       *)

\* runMarketRegimeEngine; a missing spot or flip counts as 0.
MarketState(n) ==
    IF n.risk = "high" THEN "event_risk"
    ELSE IF n.gamma = "critical" \/ Gap(SafeNumber(n.spot), SafeNumber(n.flip)) <= 5 THEN "flip_chop"
    ELSE IF n.gamma = "negative" THEN "negative_gamma_expand"
    ELSE IF n.gamma = "positive" THEN "positive_gamma_grind"
    ELSE "unknown"

\* runVolatilityEngine
ShortVol(n) ==
    n.iv = "cooling" /\ n.gamma = "positive" /\ n.risk = "low" /\ n.biases.dealer # "defensive"

\* scoreBias and runUwDealerFlowEngine
BiasScore(b) ==
    CASE b \in {"bullish", "supportive", "positive"}  -> 1
      [] b \in {"bearish", "defensive", "negative"}   -> -1
      [] OTHER                                        -> 0

UwSignal(n) ==
    LET b     == n.biases
        score == 50 + 25 * BiasScore(b.flow) + 20 * BiasScore(b.dark) + 20 * BiasScore(b.dealer)
                    + 10 * (BiasScore(b.vanna) + BiasScore(b.charm))
    IN  IF score >= 65 THEN "bullish_flow" ELSE IF score <= 35 THEN "bearish_flow" ELSE "mixed_flow"

\* runMarketSentimentEngine, which is handed neither a flow nor a conflict.
Sentiment(n) ==
    LET score == (CASE n.gamma = "positive" -> 1 [] n.gamma = "negative" -> -1 [] OTHER -> 0)
               + (CASE n.theta = "bullish_pullback" -> 1 [] n.theta = "bearish_pressure" -> -1 [] OTHER -> 0)
    IN  CASE n.theta = "income_supportive" /\ n.gamma = "positive" -> "event_muted"
          [] score >= 2  -> "risk_on"
          [] score <= -2 -> "risk_off"
          [] OTHER       -> "neutral"

\* runPriceStructureEngine
Structure(n) ==
    CASE n.structure = "breakout_confirmed_pullback_ready" ->
            [signal |-> "long_pullback_ready", confirmation |-> "confirmed"]
      [] n.structure = "breakdown_confirmed" ->
            [signal |-> "short_retest_ready", confirmation |-> "confirmed"]
      [] n.structure = "breakout_probe_unconfirmed" ->
            [signal |-> "bullish_probe", confirmation |-> "unconfirmed"]
      [] n.structure = "range_holding" ->
            [signal |-> "range_hold", confirmation |-> "confirmed"]
      [] n.structure = "structure_invalidated" ->
            [signal |-> "wait_reset", confirmation |-> "invalidated"]
      [] OTHER -> [signal |-> "wait_pullback", confirmation |-> "unconfirmed"]

-----------------------------------------------------------------------------
(* runConflictEngine.                                                       *)

Polarity(signal) ==
    CASE signal \in {"bullish_pullback", "long_pullback_ready", "bullish_probe", "bullish_flow",
                     "income_supportive", "range_hold"} -> "positive"
      [] signal \in {"bearish_pressure", "short_retest_ready", "bearish_flow", "event_risk_high"} -> "negative"
      [] OTHER -> "neutral"

Directions(n) ==
    LET fresh(stale, signal) == IF stale THEN "neutral" ELSE Polarity(signal)
    IN  [theta |-> fresh(n.stale.theta, n.theta), tv |-> fresh(n.stale.tv, Structure(n).signal),
         uw |-> fresh(n.stale.uw, UwSignal(n)),   fmp |-> Polarity(n.fmp.signal)]

ThetaAgainstTv(n) ==
    LET d == Directions(n) IN "neutral" \notin {d.theta, d.tv} /\ d.theta # d.tv

ConflictLevel(n) ==
    LET d       == Directions(n)
        sides   == {d[s] : s \in DOMAIN d}
        unproven == d.uw = "positive" /\ Structure(n).confirmation # "confirmed"
        split   == {"positive", "negative"} \subseteq sides /\ ~ThetaAgainstTv(n)
    IN  IF ThetaAgainstTv(n) \/ (unproven /\ split) THEN "high"
        ELSE IF unproven \/ split THEN "medium"
        ELSE "low"

\* baseConfidenceFromAgreement less what conflict and staleness take, clamped.
Confidence(n) ==
    LET d        == Directions(n)
        count(p) == Cardinality({s \in DOMAIN d : d[s] = p})
        most     == IF count("positive") > count("negative") THEN count("positive") ELSE count("negative")
        base     == CASE most = 4 -> 92 [] most = 3 -> 80 [] most = 2 -> 70 [] most = 1 -> 62 [] OTHER -> 50
        taken    == CASE n.conflict = "high" -> 15 [] n.conflict = "medium" -> 6 [] OTHER -> 0
        left     == base - taken - (IF n.anyStale THEN 12 ELSE 0)
    IN  IF left < 35 THEN 35 ELSE left

-----------------------------------------------------------------------------
(* runCommandEnvironmentEngine and runAllowedSetupsEngine.                  *)

EnvironmentAllows(n) ==
    /\ Health(n) # "blocked" /\ InputsFresh(n)
    /\ RiskGate(n) # "blocked"
    /\ n.conflict # "high"
    /\ DealerExecutable(n.dealer)
    /\ n.coherence.executable

RegimeBias(n) ==
    IF \/ MarketState(n) = "negative_gamma_expand"
       \/ UwSignal(n) = "bearish_flow"
       \/ Sentiment(n) = "risk_off"
    THEN "short"
    ELSE IF \/ MarketState(n) = "positive_gamma_grind"
            \/ UwSignal(n) = "bullish_flow"
            \/ Sentiment(n) = "risk_on"
    THEN IF ShortVol(n) THEN "income" ELSE "long"
    ELSE "neutral"

\* Blocked beats every bias.
Bias(n) == IF n.open THEN RegimeBias(n) ELSE "blocked"

DayType(n) ==
    IF n.bias = "blocked" THEN "unknown"
    ELSE IF MarketState(n) = "flip_chop" THEN "rotation"
    ELSE IF MarketState(n) = "negative_gamma_expand" THEN "expansion"
    ELSE IF n.bias = "income" THEN "pin"
    ELSE IF n.bias \in {"long", "short"} THEN "trend"
    ELSE "cleanup"

PermittedCodes(n) ==
    CASE n.bias = "long"  -> {"A_LONG_PULLBACK", "B_LONG_PULLBACK"}
      [] n.bias = "short" -> {"A_SHORT_RETEST", "B_SHORT_RETEST"}
      [] n.bias = "income" /\ ShortVol(n) /\ RiskGate(n) = "open" -> {"B_IRON_CONDOR"}
      [] OTHER -> {}

-----------------------------------------------------------------------------
(* runTvSentinelEngine.                                                     *)

\* TV_EVENT_SETUP_MAP and, without an event, TV_STRUCTURE_FALLBACK_MAP.
CodeOf(n) ==
    CASE n.event = "breakout_confirmed"  -> "A_LONG_PULLBACK"
      [] n.event = "breakdown_confirmed" -> "A_SHORT_RETEST"
      [] n.event = "pullback_holding"    -> "B_LONG_PULLBACK"
      [] n.event = "retest_failed"       -> "B_SHORT_RETEST"
      [] n.event = "none" /\ n.structure = "breakout_confirmed_pullback_ready" -> "A_LONG_PULLBACK"
      [] n.event = "none" /\ n.structure = "breakdown_confirmed"               -> "A_SHORT_RETEST"
      [] n.event = "none" /\ n.structure = "range_holding"                     -> "B_IRON_CONDOR"
      [] OTHER -> "none"

DirectionOf(code) ==
    CASE code \in {"A_LONG_PULLBACK", "B_LONG_PULLBACK"} -> "bullish"
      [] code \in {"A_SHORT_RETEST", "B_SHORT_RETEST"}   -> "bearish"
      [] OTHER -> "neutral"

\* A mutant of SentinelSetups: the allowed setups reach the sentinel.
SentinelSetupsGiven(n) == PermittedCodes(n)

\* runMasterEngine hands the sentinel no allowed setups.
SentinelSetups(n) == {}

Sentinel(n) ==
    LET status == IF n.stale.tv THEN "stale"
                  ELSE IF n.event = "structure_invalidated" THEN "invalidated"
                  ELSE IF Structure(n).confirmation # "confirmed" \/ CodeOf(n) = "none" THEN "waiting"
                  ELSE IF CodeOf(n) \in SentinelSetups(n) THEN "matched"
                  ELSE "triggered"
    IN  [status |-> status, fresh |-> status # "stale", matched |-> status = "matched",
         triggered |-> status \in {"matched", "triggered"}, event |-> n.event,
         code |-> IF status \in {"matched", "triggered", "stale"} THEN CodeOf(n) ELSE "none",
         direction |-> IF status = "invalidated" THEN "neutral" ELSE DirectionOf(CodeOf(n)),
         level |-> n.level]

-----------------------------------------------------------------------------
(* runTradePlanBuilder.                                                     *)

EntryZone(code, n) ==
    CASE code = "A_LONG_PULLBACK" -> <<n.flip, n.flip>>
      [] code = "B_LONG_PULLBACK" -> <<n.put, n.flip>>
      [] code = "A_SHORT_RETEST"  -> <<n.call, n.call>>
      [] code = "B_SHORT_RETEST"  -> <<n.flip, n.call>>
      [] OTHER                    -> <<>>

Targets(code, n) ==
    CASE DirectionOf(code) = "bullish" -> <<n.pain, n.call>>
      [] DirectionOf(code) = "bearish" -> <<n.pain, n.put>>
      [] OTHER                         -> <<>>

\* A missing invalidation level counts as a level of 0 and is never replaced by
\* a wall.
StopLoss(n) == SafeNumber(n.level)

ActionOf(code) ==
    CASE DirectionOf(code) = "bullish" -> "long_on_pullback"
      [] DirectionOf(code) = "bearish" -> "short_on_retest"
      [] code = "B_IRON_CONDOR"        -> "income_ok"
      [] OTHER                         -> "wait"

\* ttlForSetup, in minutes
TimeToLive(code) ==
    CASE code \in {"A_LONG_PULLBACK", "A_SHORT_RETEST"} -> 10
      [] code = "B_IRON_CONDOR"                         -> 30
      [] OTHER                                          -> 15

NoPlan(status, trigger) ==
    [status |-> status, trigger |-> trigger, code |-> "none", action |-> "wait",
     entry |-> <<>>, stop |-> Null, targets |-> <<>>, ttl |-> Null]

Plan(n) ==
    LET code == CodeOf(n)
    IN  IF n.event = "structure_invalidated" THEN NoPlan("invalidated", "invalidated")
        ELSE IF ~n.open THEN NoPlan("blocked", "blocked")
        ELSE IF n.sentinel.status = "stale" THEN NoPlan("blocked", "stale")
        ELSE IF ~n.sentinel.triggered THEN NoPlan("waiting", "waiting")
        ELSE IF code \notin PermittedCodes(n) THEN NoPlan("blocked", "not_allowed")
        ELSE [status |-> "ready", trigger |-> "triggered", code |-> code,
              action |-> ActionOf(code), entry |-> EntryZone(code, n), stop |-> StopLoss(n),
              targets |-> Targets(code, n), ttl |-> TimeToLive(code)]

-----------------------------------------------------------------------------
(* Conclusions across sources, resolver, gate and action.                   *)

\* runFmpConclusionEngine
FmpConclusion(n) ==
    LET live == n.fmp.status = "live"
    IN  [live  |-> live,
         event |-> IF ~live THEN "unavailable"
                   ELSE CASE RiskGate(n) = "open" -> "normal" [] OTHER -> RiskGate(n),
         bias  |-> IF ~live THEN "unavailable"
                   ELSE IF RiskGate(n) = "blocked" \/ n.fmp.signal = "event_risk_high" THEN "risk_off"
                   ELSE IF n.fmp.signal = "clear" THEN "mixed"
                   ELSE "unavailable",
         price |-> IF live /\ n.spotReal THEN "valid" ELSE "unavailable"]

\* runConflictResolver: the conflicts that can arise without UW.
Conflicts(n) ==
    LET f    == FmpConclusion(n)
        mode == n.coherence.mode
    IN  {c \in {"fmp_against_dealer", "event_before_trigger", "uw_missing", "data_mode",
                "mixed_map", "far_map"} :
            CASE c = "fmp_against_dealer"   -> f.bias = "risk_off" /\ n.dealer.path = "up"
              [] c = "event_before_trigger" -> f.event = "blocked" /\ n.sentinel.matched
              [] c = "uw_missing"           -> n.bias \in {"long", "short"}
              [] c \in {"data_mode", "mixed_map"} -> mode = "mixed"
              [] c = "far_map"              -> mode = "conflict"}

Resolution(n) ==
    LET count == Cardinality(Conflicts(n))
    IN  IF \/ FmpConclusion(n).event = "blocked"
           \/ n.coherence.mode \in {"mixed", "conflict"}
           \/ count >= 3
        THEN "block"
        ELSE IF count = 2 THEN "wait"
        ELSE IF count = 1 THEN "downgrade"
        ELSE "allow"

\* reconcileConflictResolver
Resolver(n) ==
    LET held == n.dealer.status = "partial" \/ ~n.open \/ n.plan.status = "blocked"
    IN  IF held /\ n.resolution # "block" THEN "wait" ELSE n.resolution

\* evaluateReadyGate.  The text of a zone is never "--", whatever its prices.
ReadyGate(n) ==
    LET plan == n.plan
    IN  /\ n.open
        /\ Health(n) # "blocked"
        /\ Resolver(n) # "block"
        /\ n.sentinel.fresh /\ n.sentinel.matched
        /\ plan.entry # <<>>
        /\ ~NoPrice(plan.stop)
        /\ \E i \in DOMAIN plan.targets : plan.targets[i] # Null

\* runActionEngine
RecommendedAction(n) ==
    IF n.stale.theta THEN "no_trade"
    ELSE IF n.anyStale THEN "wait"
    ELSE n.plan.action

\* buildStrategyCards: targets are left out of the cards.
CardsBlank(n) == n.demo \/ ~n.coherence.executable \/ ~n.open \/ ~DealerExecutable(n.dealer)
-----------------------------------------------------------------------------
(* runMasterEngine: each engine is handed what those before it have found.  *)

Checked(n)  == With(With(n, "coherence", Coherence(n)), "conflict", ConflictLevel(n))
Opened(n)   == With(n, "open", EnvironmentAllows(n))
Biased(n)   == With(n, "bias", Bias(n))
Watched(n)  == With(n, "sentinel", Sentinel(n))
Planned(n)  == With(n, "plan", Plan(n))
Resolved(n) == With(n, "resolution", Resolution(n))

Mastered(n) == Resolved(Planned(Watched(Biased(Opened(Checked(n))))))
=============================================================================
