----------------------------- MODULE GammaRegime -----------------------------
(***************************************************************************)
(* The strike at the money, its trigger lines and the gamma regime:         *)
(* algorithms/atm-engine.js, atm-trigger-engine.js, gamma-regime-engine.js. *)
(*                                                                          *)
(* Exposure is in thousands of dollars, premium in millions, put/call       *)
(* ratios in tenths.                                                        *)
(***************************************************************************)
EXTENDS PriceContract

Clamp(x, lo, hi) == IF x < lo THEN lo ELSE IF x > hi THEN hi ELSE x
Abs(x) == IF x < 0 THEN -x ELSE x

\* Math.round(a / b) for b > 0
RoundDiv(a, b) == (2 * a + b) \div (2 * b)

\* roundToNearest(value, 5)
Atm(spot) == IF spot = Null THEN Null ELSE 5 * RoundDiv(spot, 5)

\* calcAtmTrend over the last three strikes, the current one included.
AtmTrend(history, atm) ==
    LET recent == Append(history, atm)
        from   == recent[IF Len(recent) > 3 THEN Len(recent) - 2 ELSE 1]
    IN  IF Len(recent) < 2 \/ from = atm THEN "flat" ELSE IF from < atm THEN "up" ELSE "down"

\* calcPinRisk with minutesLeft until the close
PinRisk(spot, atm, netGex, minutesLeft) ==
    IF spot = Null \/ atm = Null THEN 0
    ELSE LET distance == Clamp(100 - 4 * Abs(spot - atm), 0, 100) \div 2
             gex      == IF netGex # Null /\ netGex > 0 THEN Clamp(netGex \div 10, 0, 40) ELSE 0
             time     == Clamp(30 - minutesLeft \div 13, 0, 30)
         IN  Clamp(distance + gex + time, 0, 100)

\* The lines of buildAtmTriggerEngine; resolveAtmTriggers of ab-order-engine.js
\* computes the same when the engine gives none.
TriggerLines(atm) ==
    [bull1 |-> atm + 5, bull2 |-> atm + 10, bear1 |-> atm - 5, bear2 |-> atm - 10,
     invBull |-> atm - 10, invBear |-> atm + 10]

\* trigger_status
TriggerStatus(spot, lines) ==
    IF spot > lines.bull2 THEN "bull_triggered"
    ELSE IF spot < lines.bear2 THEN "bear_triggered"
    ELSE IF spot > lines.bull1 THEN "bull_watching"
    ELSE IF spot < lines.bear1 THEN "bear_watching"
    ELSE "locked"

-----------------------------------------------------------------------------
\* Regime of buildGammaRegimeEngine.  flip and netGex have gone through
\* safeNumber, so that a missing level is the level 0.
Regime(spot, gammaFlip, gex) ==
    LET flip   == SafeNumber(gammaFlip)
        netGex == SafeNumber(gex)
    IN  IF spot # Null
        THEN IF spot > flip THEN "positive" ELSE IF spot < flip THEN "negative" ELSE "transitional"
        ELSE IF netGex > 100 THEN "positive" ELSE IF netGex < -100 THEN "negative" ELSE "transitional"

SpotPosition(spot, gammaFlip, callWall, putWall) ==
    LET flip == SafeNumber(gammaFlip)
    IN  IF spot = Null THEN "unknown"
        ELSE IF callWall # Null /\ spot >= callWall THEN "above_call_wall"
        ELSE IF putWall # Null /\ spot <= putWall THEN "below_put_wall"
        ELSE IF spot > flip THEN "above_flip_below_call_wall"
        ELSE IF spot < flip THEN "below_flip_above_put_wall"
        ELSE "between_walls"

\* calcDirectionScore
DirectionScore(trend, change, spot, atm, pc, premium) ==
    LET moved  == (IF trend = "up" THEN 20 ELSE IF trend = "down" THEN -20 ELSE 0)
                  + (IF change = Null THEN 0 ELSE Clamp(2 * change, -10, 10))
        offAtm == IF spot = Null \/ atm = Null THEN 0 ELSE Clamp(2 * (spot - atm), -20, 20)
        ratio  == IF pc = Null THEN 0
                  ELSE IF pc > 18 THEN -25
                  ELSE IF pc > 15 THEN -15
                  ELSE IF pc < 7 THEN 25
                  ELSE IF pc < 10 THEN 10
                  ELSE 0
        paid   == IF premium = Null THEN 0 ELSE Clamp(RoundDiv(premium, 10), -25, 25)
    IN  Clamp(moved + offAtm + ratio + paid, -100, 100)

\* calcExecutionConfidence
ExecutionConfidence(spot, uwStatus, fmpReal, netGex, direction, pin) ==
    IF spot = Null THEN 0
    ELSE Clamp(
        40
        + (IF fmpReal THEN 15 ELSE 0)
        + (CASE uwStatus = "live" -> 15 [] uwStatus = "partial" -> 5 [] OTHER -> 0)
        + (IF Abs(direction) >= 50 THEN 15 ELSE IF Abs(direction) >= 30 THEN 8 ELSE 0)
        + (IF SafeNumber(netGex) < -100 THEN 10 ELSE IF SafeNumber(netGex) > 500 THEN -5 ELSE 0)
        - (IF pin >= 70 THEN 20 ELSE IF pin >= 40 THEN 10 ELSE 0),
        0, 100)
=============================================================================
