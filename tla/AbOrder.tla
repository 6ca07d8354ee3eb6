------------------------------- MODULE AbOrder -------------------------------
(***************************************************************************)
(* The A/B order: algorithms/ab-order-engine.js.  A plan keeps its          *)
(* direction and its instrument; texts and strikes are left out, since the  *)
(* strikes are the trigger lines shifted.                                   *)
(***************************************************************************)
EXTENDS FlowBehavior

\* plan B where there is none
NoSecond == [direction |-> "NONE", instrument |-> "none"]

WaitPlan         == [direction |-> "WAIT",    instrument |-> "none"]
LongCall         == [direction |-> "BULLISH", instrument |-> "long_call"]
LongPut          == [direction |-> "BEARISH", instrument |-> "long_put"]
BullPutSpread    == [direction |-> "BULLISH", instrument |-> "spread"]
BearCallSpread   == [direction |-> "BEARISH", instrument |-> "spread"]
BullCallSpread   == [direction |-> "BULLISH", instrument |-> "spread"]
\* the plan of a blocked order: an observation that leans to a side, or to none
Watch(direction) == [direction |-> direction, instrument |-> "none"]

\* _lockedDir
Leaning(behavior) ==
    CASE behavior \in {"call_effective", "put_squeezed"} -> "BULLISH"
      [] behavior \in {"put_effective", "call_capped"}   -> "BEARISH"
      [] OTHER                                           -> "WAIT"

\* A mutant of Matrix: a row of the wrong regime.
MatrixSwapped(regime, behavior) ==
    IF behavior = "put_effective" THEN <<LongCall, NoSecond>>
    ELSE IF behavior = "call_effective" THEN <<LongPut, NoSecond>>
    ELSE <<WaitPlan, NoSecond>>

\* The scenario matrix.
Matrix(regime, behavior) ==
    CASE regime = "positive" /\ behavior = "put_squeezed"   -> <<BullPutSpread, LongCall>>
      [] regime = "negative" /\ behavior = "put_effective"  -> <<LongPut, BearCallSpread>>
      [] regime = "positive" /\ behavior = "call_capped"    -> <<BearCallSpread, BullPutSpread>>
      [] regime = "negative" /\ behavior = "call_effective" -> <<LongCall, BullCallSpread>>
      [] regime = "positive" /\ behavior = "call_effective" -> <<BullPutSpread, BearCallSpread>>
      [] regime = "negative" /\ behavior = "put_squeezed"   -> <<WaitPlan, LongCall>>
      [] OTHER                                              -> <<WaitPlan, NoSecond>>

\* Rule 1: call and put premium differ by less than 15 percent of the larger.
FlowTooClose(call, put) ==
    LET larger == IF Abs(call) > Abs(put) THEN Abs(call) ELSE Abs(put)
    IN  /\ call # Null
        /\ put # Null
        /\ larger > 0
        /\ 100 * Abs(Abs(call) - Abs(put)) < 15 * larger

Order(status, a, b) == [status |-> status, a |-> a, b |-> b]

\* A mutant of AbOrderOf: confidence is not asked for.
AbOrderOfBold(spot, atm, regime, behavior, confidence, call, put) ==
    IF spot = Null \/ atm = Null THEN Order("blocked", Watch("WAIT"), NoSecond)
    ELSE LET plans == Matrix(regime, behavior)
         IN  Order(IF plans[1].direction # "WAIT" THEN "ready" ELSE "waiting", plans[1], plans[2])

\* buildAbOrderEngine.  spot has gone through safeN, so only a missing strike
\* blocks for the price.
AbOrderOf(spot, atm, regime, behavior, confidence, call, put) ==
    LET plans == Matrix(regime, behavior)
    IN  IF atm = Null THEN Order("blocked", Watch("WAIT"), NoSecond)
        ELSE IF confidence < 40 THEN Order("blocked", Watch(Leaning(behavior)), NoSecond)
        ELSE IF FlowTooClose(call, put) \/ regime = "transitional"
        THEN Order("waiting", WaitPlan, NoSecond)
        ELSE Order(IF plans[1].direction # "WAIT" THEN "ready" ELSE "waiting", plans[1], plans[2])
=============================================================================
