------------------------------ MODULE UwFactors ------------------------------
(***************************************************************************)
(* What the server reads out of a raw Unusual Whales snapshot               *)
(* (normalizer/uw-api-normalizer.js) and the walls and the conclusion that  *)
(* the final decision is made from (raw-note-v2/uw-conclusion.js).          *)
(*                                                                          *)
(* raw = [exposures, spots, price, greeks, ticks, volume, recent, alerts,   *)
(* prints, iv, tide, pain]:                                                 *)
(*   exposures, spots    rows [strike, call, put, net, vanna, charm] of     *)
(*                       greek_exposure_strike and of spot_gex              *)
(*   price               price of the first row of spot_gex                 *)
(*   greeks              [vanna, charm] of the first row of greek_exposure  *)
(*   ticks, recent       rows [call, put] and [call, premium, sweep]        *)
(*   volume, alerts      premiums [call, put] of today and of the alerts    *)
(*   prints              dark-pool prints [price, premium], in SPX points   *)
(*   iv                  [rank, realized], realized in tenths               *)
(*   tide                [call, put, net] of the first row of the tide      *)
(* Premiums are in units of 100,000 dollars; every number may be missing.   *)
(***************************************************************************)
EXTENDS Values, SequencesExt

Size(x) == IF x < 0 THEN -x ELSE x

\* sumRows: null only when every row lacks the field.
TotalOf(rows, Field(_)) ==
    FoldLeft(LAMBDA sum, r : IF Field(r) = Null THEN sum ELSE SafeNumber(sum) + Field(r), Null, rows)

\* The sum of two numbers of which one may be missing.
Both(a, b) == IF a = Null /\ b = Null THEN Null ELSE SafeNumber(a) + SafeNumber(b)

\* topByAbs(...)[0]: the first row of those with the largest absolute value.
StrongestStrike(rows, Value(_)) ==
    LET size(i) == Size(SafeNumber(Value(rows[i])))
        best    == {i \in DOMAIN rows : \A j \in DOMAIN rows : size(j) <= size(i)}
    IN  IF rows = <<>> THEN Null ELSE rows[CHOOSE i \in best : \A j \in best : i <= j].strike

-----------------------------------------------------------------------------
(* normalizeDealer and normalizeSpotGex, and the dealer engine on them.     *)

\* The engine asks for gex, dex and zero_gamma_or_flip, which the normalizer
\* names net_gex, delta_bias and gamma_flip: of the exposures only vanna and
\* charm reach it.
DealerFactors(raw) ==
    LET all == raw.spots \o raw.exposures
    IN  [rows  |-> raw.exposures # <<>>,
         vanna |-> Or(TotalOf(raw.exposures, LAMBDA r : r.vanna), raw.greeks.vanna),
         charm |-> Or(TotalOf(raw.exposures, LAMBDA r : r.charm), raw.greeks.charm),
         upper |-> StrongestStrike(raw.exposures, LAMBDA r : r.call),
         lower |-> StrongestStrike(raw.exposures, LAMBDA r : r.put),
         pivot |-> StrongestStrike(all, LAMBDA r : Or(r.call, r.put))]

\* gamma_flip: where the net exposure of two neighbours has no common sign, the
\* line through both is 0, rounded to a point.
FlipOfNets(points) ==
    LET cross == {i \in 1 .. Len(points) - 1 : points[i].net * points[i + 1].net <= 0}
        i     == CHOOSE k \in cross : \A j \in cross : k <= j
        rise  == points[i + 1].net - points[i].net
        step  == (points[i + 1].strike - points[i].strike) * Size(points[i].net)
    IN  IF cross = {} THEN Null
        ELSE IF rise = 0 THEN points[i].strike
        ELSE points[i].strike + (2 * step + Size(rise)) \div (2 * Size(rise))

GammaFlip(raw) ==
    LET nets == [i \in DOMAIN raw.exposures |->
                    [strike |-> raw.exposures[i].strike,
                     net    |-> Both(raw.exposures[i].call, raw.exposures[i].put)]]
    IN  FlipOfNets(Arranged(nets, {i \in DOMAIN nets : nets[i].net # Null},
                            [i \in DOMAIN nets |-> nets[i].strike]))

\* statusFrom of uw-dealer-engine.js
UwDealerStatus(provider, raw) ==
    LET f     == DealerFactors(raw)
        greek == f.vanna # Null \/ f.charm # Null
    IN  CASE provider \in {"error", "stale", "unavailable"}     -> provider
          [] f.rows /\ greek /\ provider = "live"               -> "live"
          [] OTHER                                              -> "partial"

\* runUwDealerEngine: without gex a readable dealer is neutral and mixed, and
\* its path is never known.
UwDealer(provider, raw) ==
    LET f        == DealerFactors(raw)
        readable == UwDealerStatus(provider, raw) \in {"live", "partial"}
    IN  [status   |-> UwDealerStatus(provider, raw),
         regime   |-> IF readable THEN "neutral" ELSE "unknown",
         behavior |-> IF readable THEN "mixed" ELSE "unknown",
         path     |-> "unknown",
         upper    |-> f.upper, lower |-> f.lower, flip |-> f.pivot]

-----------------------------------------------------------------------------
(* normalizeFlow, normalizeDarkpool, normalizeVolatility, normalizeSentiment. *)

\* The premium of a side: each side takes the first source that has it, so that
\* the two may come from different ones.
Premium(raw, call) ==
    LET side(r)  == IF call THEN r.call ELSE r.put
        trades   == SelectSeq(raw.recent, LAMBDA r : r.call = call)
    IN  Or(TotalOf(raw.ticks, side),
           Or(side(raw.volume), Or(TotalOf(trades, LAMBDA r : r.premium), side(raw.alerts))))

\* directionFromPremium
FlowDirection(raw) ==
    LET call == SafeNumber(Premium(raw, TRUE))
        put  == SafeNumber(Premium(raw, FALSE))
    IN  IF Premium(raw, TRUE) = Null /\ Premium(raw, FALSE) = Null THEN "none"
        ELSE IF 4 * call > 5 * put THEN "bullish"
        ELSE IF 4 * put > 5 * call THEN "bearish"
        ELSE "mixed"

NetPremium(raw) == SafeNumber(Premium(raw, TRUE)) - SafeNumber(Premium(raw, FALSE))
Sweeps(raw)     == Len(SelectSeq(raw.recent, LAMBDA r : r.sweep))
LargeTrades(raw) == Len(SelectSeq(raw.recent, LAMBDA r : r.premium # Null /\ r.premium >= 1))

\* The clusters of dark-pool prints: the heaviest print first, each joins the
\* first cluster within 5 points of it.
PrintClusters(raw) ==
    LET prints == Arranged(raw.prints, {i \in DOMAIN raw.prints : raw.prints[i].price # Null},
                           [i \in DOMAIN raw.prints |-> -SafeNumber(raw.prints[i].premium)])
        join(clusters, p) ==
            LET near == {i \in DOMAIN clusters : Size(clusters[i].price - p.price) <= 5}
                i    == CHOOSE k \in near : \A j \in near : k <= j
            IN  IF near = {} THEN Append(clusters, [price |-> p.price, premium |-> SafeNumber(p.premium)])
                ELSE [clusters EXCEPT ![i].premium = @ + SafeNumber(p.premium)]
        opened == FoldLeft(join, <<>>, prints)
    IN  SortedBy(opened, [i \in DOMAIN opened |-> -opened[i].premium])

\* darkpool_bias: the heaviest cluster is the support and the next one the
\* resistance, wherever the price stands, so that no snapshot resists.
DarkpoolBias(raw) ==
    CASE Len(PrintClusters(raw)) = 0 -> "unknown" [] Len(PrintClusters(raw)) = 1 -> "support" [] OTHER -> "neutral"

\* normalizeIvValue, in tenths of a percent: up to 1.5 a value is a share.
IvPercent(x) == IF x # Null /\ x <= 15 THEN 100 * x ELSE x

TideState(raw) ==
    LET t    == raw.tide
        both == IF t.call = Null /\ t.put = Null THEN Null ELSE SafeNumber(t.call) - SafeNumber(t.put)
        net  == Or(t.net, both)
    IN  IF net = Null THEN "unavailable"
        ELSE IF net > 0 THEN "risk_on" ELSE IF net < 0 THEN "risk_off" ELSE "mixed"

-----------------------------------------------------------------------------
(* buildUwWallDiagnostics.                                                  *)

NetGamma(r) == Or(r.net, SafeNumber(r.call) - Size(SafeNumber(r.put)))

\* boundsFor, in hundredths: 15 % about the spot, else 20 % about the max pain,
\* else 20 % about the median of the strikes.
WallRows(raw, spot) ==
    LET ref    == Or(spot, raw.price)
        sorted == SortedBy(raw.spots, [i \in DOMAIN raw.spots |-> raw.spots[i].strike])
        median == sorted[(Len(sorted) \div 2) + 1].strike
        within(k, center, pct) ==
            100 * k >= (100 - pct) * center /\ 100 * k <= (100 + pct) * center
        keeps(k) == IF ref # Null THEN within(k, ref, 15)
                    ELSE IF raw.pain # Null THEN within(k, raw.pain, 20)
                    ELSE within(k, median, 20)
    IN  SelectSeq(raw.spots, LAMBDA r : r.strike > 0 /\ keeps(r.strike))

\* findZeroGamma: the first strike at which the running sum changes its sign.
RunningZero(rows) ==
    LET sorted == SortedBy(rows, [i \in DOMAIN rows |-> rows[i].strike])
        sum(i) == FoldLeft(LAMBDA s, r : s + NetGamma(r), 0, SubSeq(sorted, 1, i))
        sign(x) == IF x > 0 THEN 1 ELSE IF x < 0 THEN -1 ELSE 0
        turns  == {i \in 2 .. Len(sorted) : sum(i - 1) # 0 /\ sign(sum(i - 1)) # sign(sum(i))}
    IN  IF turns = {} THEN Null ELSE sorted[CHOOSE i \in turns : \A j \in turns : i <= j].strike

\* A wall needs a row that has the exposure.
WallOf(rows, Value(_)) == StrongestStrike(SelectSeq(rows, LAMBDA r : Value(r) # Null), Value)

Walls(raw, spot) ==
    LET rows == WallRows(raw, spot)
        call == WallOf(rows, LAMBDA r : r.call)
        put  == WallOf(rows, LAMBDA r : r.put)
    IN  [call |-> call, put |-> put, zero |-> RunningZero(rows),
         confidence |-> IF Len(rows) >= 5 /\ Null \notin {call, put} THEN "high"
                        ELSE IF rows # <<>> THEN "medium" ELSE "low"]

-----------------------------------------------------------------------------
(* buildUwConclusionV2.                                                     *)

\* The sum of the five strongest net exposures, 0 of no rows: an exposure is
\* never missing, and the greeks always count as available.
NetExposure(raw, spot) ==
    LET rows   == WallRows(raw, spot)
        sorted == SortedBy(rows, [i \in DOMAIN rows |-> -Size(NetGamma(rows[i]))])
        most   == IF Len(sorted) < 5 THEN Len(sorted) ELSE 5
    IN  FoldLeft(LAMBDA s, r : s + NetGamma(r), 0, SubSeq(sorted, 1, most))

UwConclusion(provider, raw, alert, dark, tide, spot) ==
    LET net  == NetExposure(raw, spot)
        bias == IF alert.direction # "none" THEN alert.direction
                ELSE IF FlowDirection(raw) = "mixed" THEN "neutral" ELSE FlowDirection(raw)
        flow == bias \in {"bullish", "bearish", "neutral"}
    IN  [status |-> CASE provider \in {"unavailable", "stale", "error"} -> provider
                      [] provider = "live" /\ flow                      -> "live"
                      [] OTHER                                          -> "partial",
         regime |-> CASE net > 0 -> "positive" [] net < 0 -> "negative" [] OTHER -> "neutral",
         call   |-> Walls(raw, spot).call, put |-> Walls(raw, spot).put, zero |-> Walls(raw, spot).zero,
         flow   |-> IF flow THEN bias ELSE "unavailable",
         dark   |-> CASE dark = "support" -> "bullish" [] OTHER -> dark,
         tide   |-> CASE tide = "risk_on" -> "bullish" [] tide = "risk_off" -> "bearish"
                      [] tide = "mixed" -> "neutral" [] OTHER -> "unavailable",
         rank   |-> raw.iv.rank]
=============================================================================
