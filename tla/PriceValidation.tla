-------------------------- MODULE PriceValidation --------------------------
(***************************************************************************)
(* Flow against price: algorithms/price-validation-engine.js over a record  *)
(* of the price history (state/price-history-buffer.js), and the true flow  *)
(* of the trades of the last minutes against the exposure of the dealers:   *)
(* algorithms/microstructure-validation-engine.js.                          *)
(*                                                                          *)
(* Price changes are in tenths of a point, premium in millions, put/call    *)
(* ratios in tenths, exposures in thousands.                                *)
(***************************************************************************)
EXTENDS AbOrder, FiniteSets

Min100(x) == IF x > 100 THEN 100 ELSE x
Least(a, b) == IF a < b THEN a ELSE b

\* Every scene: when it is detected, and with which confidence.
HistoryNeeded == 10

Enough(history) == history.size >= HistoryNeeded

CallCapped(history, in) ==
    Enough(history) /\ in.net # Null /\ history.d5 # Null /\ in.net > 30 /\ history.d5 < 10

CallCappedConfidence(history, in) ==
    Min100(RoundDiv(40 * in.net, 100)
           + (IF Abs(history.d5) < 5 THEN 30 ELSE 15)
           + (IF history.d15 # Null /\ history.d15 < 20 THEN 20 ELSE 0)
           + 10)

PutSqueezed(history, in) ==
    Enough(history) /\ in.pc # Null /\ history.d5 # Null /\ in.pc > 15 /\ history.d5 > -10

PutSqueezedConfidence(history, in) ==
    Min100(4 * (in.pc - 15)
           + (IF history.d5 > 0 THEN 30 ELSE 15)
           + (IF history.d1 # Null /\ history.d1 > 0 THEN 20 ELSE 0)
           + 10)

AbsorptionFailed(history, levels) ==
    Enough(history) /\ levels >= 2 /\ history.d5 # Null /\ history.d5 < -30

AbsorptionFailedConfidence(history, levels) ==
    Min100(Least(15 * levels, 40)
           + (IF Abs(history.d5) > 50 THEN 30 ELSE 20)
           + (IF history.d15 # Null /\ history.d15 < -50 THEN 20 ELSE 10)
           + 10)

BottomAbsorption(history, levels) ==
    Enough(history) /\ levels >= 2 /\ history.d5 # Null /\ history.d5 >= -10

BottomAbsorptionConfidence(history, levels) ==
    Min100(Least(15 * levels, 40)
           + (IF history.d5 > 0 THEN 30 ELSE 15)
           + (IF history.d15 # Null /\ history.d15 >= -20 THEN 20 ELSE 10)
           + 10)

PositiveGammaPin(regime, pin) == regime = "positive" /\ pin >= 60

\* trend of the five-minute window: more than two points either way
Trend(delta) ==
    IF delta = Null THEN "unknown"
    ELSE IF delta > 20 THEN "rising" ELSE IF delta < -20 THEN "falling" ELSE "flat"

FlowDivergence(history, in) ==
    /\ Enough(history)
    /\ in.net # Null
    /\ \/ in.net > 10 /\ Trend(history.d5) = "falling"
       \/ in.net < -10 /\ Trend(history.d5) = "rising"

-----------------------------------------------------------------------------
\* The scenes in the order of active_scenes, each with its confidence.
Scenes(history, in, levels, regime, pin) ==
    LET all == << [scene |-> "call_capped", on |-> CallCapped(history, in),
                   confidence |-> CallCappedConfidence(history, in)],
                  [scene |-> "put_squeezed", on |-> PutSqueezed(history, in),
                   confidence |-> PutSqueezedConfidence(history, in)],
                  [scene |-> "absorption_failed", on |-> AbsorptionFailed(history, levels),
                   confidence |-> AbsorptionFailedConfidence(history, levels)],
                  [scene |-> "bottom_absorption", on |-> BottomAbsorption(history, levels),
                   confidence |-> BottomAbsorptionConfidence(history, levels)],
                  [scene |-> "positive_gamma_pin", on |-> PositiveGammaPin(regime, pin),
                   confidence |-> 80],
                  [scene |-> "flow_divergence", on |-> FlowDivergence(history, in),
                   confidence |-> 70] >>
    IN  SelectSeq(all, LAMBDA s : s.on)

Named(scenes) == {scenes[i].scene : i \in DOMAIN scenes}

\* dominant_scene: the highest confidence, the first of equals
Dominant(scenes) ==
    IF scenes = <<>> THEN "none"
    ELSE scenes[CHOOSE i \in DOMAIN scenes :
                    /\ \A j \in DOMAIN scenes : scenes[j].confidence <= scenes[i].confidence
                    /\ \A j \in 1 .. i - 1 : scenes[j].confidence < scenes[i].confidence].scene

AlertLevel(scenes) ==
    IF scenes = <<>> THEN "normal"
    ELSE IF Named(scenes) \cap {"absorption_failed", "positive_gamma_pin"} # {} THEN "danger"
    ELSE IF Named(scenes) \cap {"call_capped", "put_squeezed"} # {} THEN "warning"
    ELSE "info"

-----------------------------------------------------------------------------
(* Microstructure.  A trade: its side (or none), its type, its premium and  *)
(* age.                                                                     *)

\* A trade that counts: recent, with a premium, a side and a type.
Counts(trade) ==
    /\ trade.age <= ShortWindow
    /\ trade.premium > 0
    /\ trade.side \in {"ASK", "BID"}
    /\ trade.type \in {"call", "put"}

\* What a trade adds to the net of calls less puts: buying a call and selling
\* a put are bullish.
Weight(trade) ==
    IF (trade.side = "ASK") = (trade.type = "call") THEN trade.premium ELSE -trade.premium

\* reconstructTrueNetFlow
TrueFlow(trades) ==
    LET counted == SelectSeq(trades, Counts)
        sum[i \in 0 .. Len(counted)] ==
            IF i = 0 THEN 0 ELSE sum[i - 1] + Weight(counted[i])
    IN  [flow |-> sum[Len(counted)], ticks |-> Len(counted)]

\* scanDealerSuppressionVeto: extreme negative charm at the strike above the
\* money while exposure is positive.  charm maps strikes to net charm.
Suppressed(charm, strike, netGex) ==
    /\ strike \in DOMAIN charm
    /\ charm[strike] < -500
    /\ netGex > 100

\* evaluate0dteMicrostructure.  spot is Null in every call of getCurrentSignal,
\* which reads it from a field the price validation does not have.
Microstructure(trades, charm, netGex, spot) ==
    LET true == TrueFlow(trades)
        veto == spot # Null /\ Suppressed(charm, Atm(spot) + 5, netGex)
        status == IF true.ticks < 3 THEN "theta_stale_no_trade"
                  ELSE IF true.flow > 2
                  THEN IF veto THEN "flip_conflict_wait" ELSE "uw_call_strong"
                  ELSE IF true.flow < -2
                  THEN IF netGex > 150 THEN "negative_gamma_wait" ELSE "positive_gamma_income"
                  ELSE "theta_stale_no_trade"
    IN  [status |-> status, flow |-> true.flow, ticks |-> true.ticks, veto |-> veto]
=============================================================================
