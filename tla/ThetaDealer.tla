----------------------------- MODULE ThetaDealer -----------------------------
(***************************************************************************)
(* The dealer summary that the bridge computes from an option chain         *)
(* (scripts/spx-bridge.mjs, calculateThetaDealerSummary) and the conclusion *)
(* that the server draws from it (buildDealerConclusionEngine), both in     *)
(* decision_engine/dealer-conclusion-engine.js.                             *)
(*                                                                          *)
(* A contract is [strike, call, gamma, oi, mid]: gamma, open interest and   *)
(* price may be missing.  The factor spot * spot of every exposure is left  *)
(* out, except that it is 0 where the spot is 0.                            *)
(***************************************************************************)
EXTENDS Values, SequencesExt

CONSTANT GexThreshold    \* |net exposure| above which a regime has a sign

ASSUME ThetaAssumption == GexThreshold \in Nat

Gap(a, b) == IF a >= b THEN a - b ELSE b - a

-----------------------------------------------------------------------------
(* calculateThetaDealerSummary.                                             *)

StrikesOf(chain) == {chain[i].strike : i \in DOMAIN chain}

\* gexContribution; 0 stands for a contribution that is missing as well.
Exposure(c, spot) ==
    IF c.gamma = Null \/ c.oi = Null \/ spot \in {Null, 0} THEN 0
    ELSE (IF c.call THEN 1 ELSE -1) * c.gamma * c.oi

SumOver(chain, Worth(_)) == FoldLeft(LAMBDA sum, c : sum + Worth(c), 0, chain)

CallGex(chain, k, spot) ==
    SumOver(chain, LAMBDA c : IF c.call /\ c.strike = k THEN Exposure(c, spot) ELSE 0)
PutGex(chain, k, spot) ==
    SumOver(chain, LAMBDA c : IF ~c.call /\ c.strike = k THEN Exposure(c, spot) ELSE 0)
StrikeGex(chain, k, spot) == CallGex(chain, k, spot) + PutGex(chain, k, spot)

\* deriveGammaRegime
RegimeOf(net) ==
    IF net = Null THEN "unknown"
    ELSE IF net > GexThreshold THEN "positive"
    ELSE IF net < -GexThreshold THEN "negative"
    ELSE "critical"

\* The strike that stands first in the chain among those no other beats.  Every
\* strike of the chain has an exposure, if only 0, so that the walls never fall
\* back to the open interest.
FirstStrike(chain, Beats(_, _)) ==
    LET best(i) == \A j \in DOMAIN chain : ~Beats(chain[j].strike, chain[i].strike)
    IN  IF chain = <<>> THEN Null
        ELSE chain[CHOOSE i \in DOMAIN chain : best(i) /\ \A j \in 1 .. i - 1 : ~best(j)].strike

CallWall(chain, spot) ==
    FirstStrike(chain, LAMBDA a, b : CallGex(chain, a, spot) > CallGex(chain, b, spot))
PutWall(chain, spot) ==
    FirstStrike(chain, LAMBDA a, b : PutGex(chain, a, spot) < PutGex(chain, b, spot))

\* Where the exposure changes its sign between neighbours, or is 0 at the lower.
Crossings(chain, spot) ==
    LET ks == SetToSortSeq(StrikesOf(chain), <)
        g(i) == StrikeGex(chain, ks[i], spot)
        crosses(i) == g(i) = 0 \/ (g(i) > 0 /\ g(i + 1) < 0) \/ (g(i) < 0 /\ g(i + 1) > 0)
    IN  {IF g(i) = 0 THEN ks[i] ELSE (ks[i] + ks[i + 1]) \div 2 :
            i \in {j \in 1 .. Len(ks) - 1 : crosses(j)}}

\* computeZeroGamma: the crossing nearest to the spot, the lower of two.
ZeroGamma(chain, spot) ==
    LET all     == Crossings(chain, spot)
        nearest == {x \in all : \A y \in all : Gap(x, spot) <= Gap(y, spot)}
    IN  IF all = {} \/ spot = Null THEN Null
        ELSE CHOOSE x \in nearest : \A y \in nearest : x <= y

Payout(chain, k) ==
    SumOver(chain, LAMBDA c :
        IF c.oi = Null THEN 0
        ELSE IF c.call THEN (IF k > c.strike THEN k - c.strike ELSE 0) * c.oi
        ELSE (IF c.strike > k THEN c.strike - k ELSE 0) * c.oi)

\* computeMaxPain: the lowest of the strikes that pay the least.
MaxPain(chain) ==
    IF \A i \in DOMAIN chain : chain[i].oi = Null THEN Null
    ELSE CHOOSE k \in StrikesOf(chain) : \A j \in StrikesOf(chain) :
            \/ Payout(chain, k) < Payout(chain, j)
            \/ Payout(chain, k) = Payout(chain, j) /\ k <= j

\* computeExpectedMove: call and put at the strike nearest to the spot.
ExpectedMove(chain, spot) ==
    LET near == {k \in StrikesOf(chain) : \A j \in StrikesOf(chain) : Gap(k, spot) <= Gap(j, spot)}
        atm  == CHOOSE k \in near : \A j \in near : k <= j
        mid(call) == LET is == {i \in DOMAIN chain : chain[i].strike = atm /\ chain[i].call = call}
                     IN  IF is = {} THEN Null ELSE chain[CHOOSE i \in is : \A j \in is : i <= j].mid
    IN  IF spot = Null \/ chain = <<>> THEN Null
        ELSE IF Null \in {mid(TRUE), mid(FALSE)} THEN Null
        ELSE mid(TRUE) + mid(FALSE)

Within(spot, put, call) == Null \notin {spot, put, call} /\ spot >= put /\ spot <= call

\* deriveDealerBehavior
Behavior(regime, spot, call, put, zero) ==
    IF regime = "negative" THEN "expand"
    ELSE IF regime = "positive" /\ Within(spot, put, call) THEN "pin"
    ELSE IF Null \notin {spot, zero} /\ Gap(spot, zero) <= 10 THEN "mixed"
    ELSE "unknown"

\* deriveLeastResistancePath
PathOf(regime, spot, call, put, zero) ==
    IF regime = "negative" /\ Null \notin {spot, zero}
    THEN IF spot < zero THEN "down" ELSE "up"
    ELSE IF \/ regime = "positive" /\ Within(spot, put, call)
            \/ Null \notin {spot, call} /\ Gap(spot, call) <= 10
            \/ Null \notin {spot, put} /\ Gap(spot, put) <= 10
    THEN "range" ELSE "unknown"

\* The snapshot that the bridge sends for a chain.  It is not sent metadata.
Summary(chain, spot) ==
    LET regime == IF spot = Null \/ chain = <<>> THEN "unknown"
                  ELSE RegimeOf(SumOver(chain, LAMBDA c : Exposure(c, spot)))
        call   == CallWall(chain, spot)
        put    == PutWall(chain, spot)
        zero   == ZeroGamma(chain, spot)
        move   == ExpectedMove(chain, spot)
        status == IF chain = <<>> /\ spot # Null THEN "unavailable"
                  ELSE IF spot = Null THEN "partial" ELSE "live"
    IN  [status |-> status, spot |-> spot,
         regime |-> regime, call |-> call, put |-> put, pain |-> MaxPain(chain), zero |-> zero,
         upper |-> IF move = Null THEN Null ELSE spot + move,
         lower |-> IF move = Null THEN Null ELSE spot - move,
         behavior |-> IF status = "live" THEN Behavior(regime, spot, call, put, zero) ELSE "unknown",
         path     |-> IF status = "live" THEN PathOf(regime, spot, call, put, zero) ELSE "unknown"]
=============================================================================
