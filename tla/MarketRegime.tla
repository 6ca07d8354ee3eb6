---------------------------- MODULE MarketRegime ----------------------------
(***************************************************************************)
(* The reading of the market that may hold an order back:                   *)
(* algorithms/market-regime-engine.js and                                   *)
(* algorithms/capital-flow-reading-engine.js.                               *)
(*                                                                          *)
(* True flow is in millions, price changes in tenths of a point, exposure   *)
(* in thousands, put/call ratios in tenths.                                 *)
(***************************************************************************)
EXTENDS PriceValidation

\* The regimes that make the home page wait.
ForcedWait == {"FLOW_CONFLICT", "VANNA_SQUEEZE", "BULL_TRAP", "NEUTRAL"}

\* hard_stop_direction of the other regimes
Stance(market) ==
    CASE market = "GAMMA_FLIP"                            -> "BEAR"
      [] market \in {"DEFENSE_COLLAPSE", "BEAR_FLUSH"}    -> "EXIT"
      [] market = "INSTITUTIONAL_BUY"                     -> "BULL"
      [] OTHER                                            -> "NEUTRAL"

\* runMarketRegimeEngine, in its order of priority.  No engine gives it a zero
\* gamma level, a breached gap or a collapse of volatility, so that part of its
\* conditions is never met.  The thresholds of the flow are those of the source
\* in millions: above 3 is at least 4 of whole millions.
MarketOf(flow, veto, regime, netGex, d5, ivRank, spot, localPut) ==
    LET Rising(by)   == d5 # Null /\ d5 > by
        bearish      == flow < -3
        flat         == flow > -2 /\ flow < 3
        belowSupport == localPut # Null /\ spot # Null /\ spot < localPut
    IN  IF regime = "negative" /\ netGex < 0                       THEN "GAMMA_FLIP"
        ELSE IF flow > 3 /\ veto                                   THEN "FLOW_CONFLICT"
        ELSE IF ivRank # Null /\ ivRank < 20 /\ Rising(5) /\ flat  THEN "VANNA_SQUEEZE"
        ELSE IF bearish /\ belowSupport                            THEN "BEAR_FLUSH"
        ELSE IF Rising(3) /\ bearish /\ netGex > 50                THEN "BULL_TRAP"
        ELSE IF flow > 5 /\ ~veto /\ Rising(3)                     THEN "INSTITUTIONAL_BUY"
        ELSE IF netGex > 50 /\ flat                                THEN "GRINDER"
        ELSE "NEUTRAL"

-----------------------------------------------------------------------------
\* detectDivergence over the put/call ratio, which also stands for the
\* pc_volume_ratio that no source sets, and the sizes of the two premiums.
Divergence(pcVolume, callPremium, putPremium, behavior) ==
    LET pc        == SafeNumber(pcVolume)
        call      == Abs(SafeNumber(callPremium))
        put       == Abs(SafeNumber(putPremium))
        moneyBull == 10 * call > 11 * put
        moneyBear == 10 * put > 11 * call
        balanced  == pc \in 8 .. 12
    IN  IF pc > 12 /\ moneyBull               THEN "BULL_DIVERGENCE"
        ELSE IF pc < 8 /\ moneyBear            THEN "BEAR_DIVERGENCE"
        ELSE IF behavior = "put_squeezed"      THEN "PUT_ABSORBED"
        ELSE IF behavior = "call_capped"       THEN "CALL_CAPPED"
        ELSE IF balanced /\ moneyBull          THEN "QUIET_BULL"
        ELSE IF balanced /\ moneyBear          THEN "QUIET_BEAR"
        ELSE "NONE"

\* window_status of buildFlowWindows
WindowStatus(flow) ==
    IF flow.shortFallback /\ flow.longFallback THEN "FALLBACK"
    ELSE IF flow.shortFallback \/ flow.longFallback THEN "PARTIAL"
    ELSE IF flow.conflict THEN "CONFLICT"
    ELSE IF flow.aligned THEN "ALIGNED"
    ELSE "WEAK"

\* A mutant of CapitalGate: the windows are not asked.
CapitalGateAnyWindow(flow, divergence) ==
    IF flow.behavior \in {"call_effective", "put_effective"} THEN "PASS" ELSE "DEGRADED"

\* trade_gate of buildCapitalFlowReading.  The gamma state it would also ask for
\* is never known: neither engine it reads emits the fields.
CapitalGate(flow, divergence) ==
    IF /\ flow.showsDirection
       /\ WindowStatus(flow) = "ALIGNED"
       /\ divergence \notin {"PUT_ABSORBED", "CALL_CAPPED"}
       /\ flow.behavior \in {"call_effective", "put_effective"}
    THEN "PASS" ELSE "DEGRADED"

\* market_summary_label
MarketLabel(divergence, pcVolume, callPremium, putPremium) ==
    LET pc   == SafeNumber(pcVolume)
        call == Abs(SafeNumber(callPremium))
        put  == Abs(SafeNumber(putPremium))
    IN  CASE divergence = "PUT_ABSORBED" -> "ABSORPTION"
          [] divergence = "CALL_CAPPED"  -> "DISTRIBUTION"
          [] divergence \notin {"NONE", "PUT_ABSORBED", "CALL_CAPPED"} -> divergence
          [] divergence = "NONE" /\ pc < 8 /\ 10 * call > 11 * put  -> "CONSENSUS_BULL"
          [] divergence = "NONE" /\ pc > 12 /\ 10 * put > 11 * call -> "CONSENSUS_BEAR"
          [] OTHER                       -> "NEUTRAL"
=============================================================================
