----------------------------- MODULE MasterRules -----------------------------
(***************************************************************************)
(* The rules of decision_engine/rules that runMasterEngine lays beside its  *)
(* engines: channel, volatility, dealer path, freshness, degradation and    *)
(* confidence.  A stored TradingView event has no volume fields, so that    *)
(* volume pressure is always unavailable (source-rules.js), and UW is       *)
(* unavailable in this pass.                                                *)
(***************************************************************************)
EXTENDS MasterGates

\* buildChannelShape
ChannelShape(n) ==
    LET event == IF n.event = "none" THEN n.structure ELSE n.event
    IN  CASE event \in {"breakout_confirmed", "breakout_confirmed_pullback_ready"} ->
                [shape |-> "expansion", direction |-> "up"]
          [] event = "breakdown_confirmed" -> [shape |-> "expansion", direction |-> "down"]
          [] event = "pullback_holding"    -> [shape |-> "equal_step", direction |-> "up"]
          [] event = "retest_failed"       -> [shape |-> "equal_step", direction |-> "down"]
          [] OTHER -> [shape |-> "unavailable", direction |-> "unclear"]

\* buildVolatilityActivation: a missing bound or spot is the number 0 here
\* (toNumber), so that an expected move is never found missing and a spot is
\* outside it.
VolatilityState(n) ==
    LET spot  == SafeNumber(n.spot)
        upper == SafeNumber(n.dealer.upper)
        lower == SafeNumber(n.dealer.lower)
    IN  IF spot > upper \/ spot < lower THEN "expansion"
        ELSE IF \/ n.sentinel.triggered
                \/ ChannelShape(n).shape = "expansion"
                \/ Gap(spot, upper) <= 10 \/ Gap(spot, lower) <= 10
        THEN "active" ELSE "inactive"

VolatilityBlocks(n) ==
    (IF FmpConclusion(n).event = "blocked" THEN {"all_setups"} ELSE {})
    \cup (IF VolatilityState(n) # "inactive" \/ n.dealer.regime = "negative" THEN {"iron_condor"} ELSE {})

\* applySetupPermissionRules
BlockedSetups(n) ==
    LET allowed == CASE n.bias = "long"   -> {"A_long", "B_long"}
                     [] n.bias = "short"  -> {"A_short", "B_short"}
                     [] n.bias = "income" -> {"B_long", "B_short"}
                     [] OTHER              -> {}
    IN  ({"A_long", "B_long", "A_short", "B_short"} \ allowed)
        \cup VolatilityBlocks(n)
        \cup (IF n.dealer.status # "live" THEN {"ready"} ELSE {})

\* buildDealerPath: a live path is never unknown where gamma has a sign.
DealerPath(n) ==
    LET path == IF n.dealer.path # "unknown" THEN n.dealer.path
                ELSE CASE n.dealer.regime = "positive" -> "range"
                       [] n.dealer.regime = "negative" -> "up"
                       [] OTHER -> "unknown"
    IN  IF n.dealer.status = "live" THEN path
        ELSE IF path = "range" THEN "range_reference" ELSE "unknown"

\* buildDegradationMatrix with the final resolver and plan.  A level of 0 among
\* stop and targets is invalid, a missing one is not.
Degradation(n) ==
    LET f    == FmpConclusion(n)
        plan == n.plan
        zero == plan.stop = 0 \/ \E i \in DOMAIN plan.targets : plan.targets[i] = 0
    IN  IF ~(f.live /\ f.price = "valid") THEN "BLOCKED"
        ELSE IF f.event = "blocked" \/ n.sentinel.status = "stale" THEN "BLOCKED"
        ELSE IF Resolver(n) = "block" \/ zero THEN "BLOCKED"
        ELSE IF n.dealer.status = "live" /\ n.sentinel.matched THEN "DEGRADED_CANDIDATE"
        ELSE "OBSERVE_ONLY"

\* buildFreshnessSummary: green asks for live or partial UW, and the summary of
\* the page is built without the resolver, the plan and the health of the data.
FreshnessLabel(n) ==
    IF \/ ~n.fmpReal
       \/ n.dealer.status \in {"partial", "unavailable"}
       \/ n.sentinel.status = "stale"
    THEN "BLOCKED" ELSE "DEGRADED"

\* buildConfidenceScore
ConfidenceScore(n) ==
    LET f     == FmpConclusion(n)
        score == 50 - 10
                 + (CASE n.dealer.status = "live" -> 15 [] n.dealer.status = "partial" -> 3 [] OTHER -> 0)
                 - (IF n.dealer.regime = "unknown" THEN 15 ELSE 0)
                 + (IF n.spotReal THEN 5 ELSE 0)
                 + (IF n.sentinel.fresh /\ n.sentinel.matched THEN 15 ELSE 0)
                 - (IF f.event = "caution" THEN 10 ELSE 0)
    IN  IF (f.event = "blocked" \/ Resolver(n) = "block") /\ score > 20 THEN 20 ELSE score
=============================================================================
