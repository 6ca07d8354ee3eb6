----------------------------- MODULE DealerWalls -----------------------------
(***************************************************************************)
(* The walls of the dealers and of the dark pools:                          *)
(* algorithms/dealer-wall-engine.js, darkpool-gravity-engine.js,            *)
(* darkpool-behavior-engine.js and wall-zone-engine.js.                     *)
(*                                                                          *)
(* An exposure row is a strike with the exposure of its calls and its puts  *)
(* (0 where the vendor gives none), in thousands.  Levels are whole points; *)
(* an interpolated flip is rounded down.  Dark-pool premium is in hundreds  *)
(* of thousands of dollars.                                                 *)
(***************************************************************************)
EXTENDS GammaRegime, SequencesExt

Gamma(row) == row.call + row.put

\* The strike of the first row of the largest weight at some places of rows;
\* Null if there are none.
Strongest(rows, among, Weighs(_)) ==
    IF among = {} THEN Null
    ELSE rows[FirstHeaviest(among, [i \in among |-> Weighs(rows[i])])].strike

\* findFarCallWall, findGexLocalCallWall: from just above the spot
CallWallWithin(rows, spot, gap, reach) ==
    Strongest(rows, {i \in DOMAIN rows : /\ rows[i].strike > spot + gap
                                         /\ rows[i].strike <= spot + reach},
              LAMBDA r : Abs(r.call))

\* A mutant of PutWallWithin: the strike of the money counts as a put wall.
PutWallWithinReach(rows, spot, gap, reach) ==
    Strongest(rows, {i \in DOMAIN rows : Abs(rows[i].strike - spot) <= reach},
              LAMBDA r : Abs(r.put))

PutWallWithin(rows, spot, gap, reach) ==
    Strongest(rows, {i \in DOMAIN rows : /\ rows[i].strike < spot - gap
                                         /\ rows[i].strike >= spot - reach},
              LAMBDA r : Abs(r.put))

-----------------------------------------------------------------------------
\* Where the line between two neighbouring strikes is 0.
Interpolated(low, high) ==
    IF Gamma(low) = 0 THEN low.strike
    ELSE low.strike + (Abs(Gamma(low)) * (high.strike - low.strike)) \div Abs(Gamma(high) - Gamma(low))

\* gammaFlip: where exposure changes sign between neighbouring strikes, the
\* lowest such place, else the strike of the least exposure.
FlipAlong(points) ==
    LET Turns(i) == \/ Gamma(points[i]) = 0
                    \/ Gamma(points[i]) < 0 /\ Gamma(points[i + 1]) > 0
                    \/ Gamma(points[i]) > 0 /\ Gamma(points[i + 1]) < 0
        turning == {i \in 1 .. Len(points) - 1 : Turns(i)}
        at      == CHOOSE i \in turning : \A j \in turning : i <= j
    IN  IF turning # {} THEN [level |-> Interpolated(points[at], points[at + 1]), confidence |-> "high"]
        ELSE IF points = <<>> THEN [level |-> Null, confidence |-> "unavailable"]
        ELSE [level |-> Strongest(points, DOMAIN points, LAMBDA r : -Abs(Gamma(r))),
              confidence |-> "low_confidence_flip"]

NearestSide(spot, call, put) ==
    IF call = Null /\ put = Null THEN "unknown"
    ELSE IF call = Null THEN "lower"
    ELSE IF put = Null THEN "upper"
    ELSE IF call - spot <= spot - put THEN "upper" ELSE "lower"

\* gammaFlip of the strikes within 15 % of the spot
FlipNear(spot, rows) ==
    FlipAlong(Arranged(rows,
                       {i \in DOMAIN rows : /\ spot # Null
                                            /\ 20 * Abs(rows[i].strike - spot) <= 3 * spot},
                       [i \in DOMAIN rows |-> rows[i].strike]))

\* buildDealerWallMap about a spot that may be missing, over the rows all of
\* which flip is made, with the far walls call and put.
WallMapOf(spot, all, call, put, flip) ==
    [spot       |-> spot,
     call       |-> call,
     put        |-> put,
     localCall  |-> IF spot = Null THEN Null ELSE CallWallWithin(all, spot, 0, 30),
     localPut   |-> IF spot = Null THEN Null ELSE PutWallWithin(all, spot, 0, 30),
     status     |-> CASE call # Null /\ put # Null -> "valid"
                      [] call = Null /\ put = Null -> "unavailable"
                      [] OTHER                     -> "partial",
     flip       |-> flip.level,
     flipFar    |-> spot # Null /\ flip.level # Null /\ Abs(spot - flip.level) > 200,
     regime     |-> IF spot = Null \/ flip.level = Null THEN "unknown"
                    ELSE IF spot > flip.level THEN "positive_gamma_magnet"
                    ELSE "negative_gamma_slide",
     nearest    |-> NearestSide(spot, call, put),
     confidence |-> IF Null \notin {call, put, flip.level} THEN flip.confidence ELSE "unavailable"]

\* ... over the factor rows, or the rows of the exposure by spot if there are none.
WallMap(spot, factorRows, spotRows) ==
    LET all == IF factorRows # <<>> THEN factorRows ELSE spotRows
    IN  WallMapOf(spot, all,
                  IF spot = Null THEN Null ELSE CallWallWithin(all, spot, 5, 500),
                  IF spot = Null THEN Null ELSE PutWallWithin(all, spot, 5, 500),
                  FlipNear(spot, all))

\* The walls the final output shows: none while the price gate is closed or a
\* wall is missing (getCurrentSignal, _callWallGated and _wallStatus).
Gated(map, gateOpen) ==
    IF gateOpen /\ map.status = "valid" THEN map
    ELSE [map EXCEPT !.call = Null, !.put = Null,
                     !.status = IF gateOpen THEN map.status ELSE "unavailable"]

-----------------------------------------------------------------------------
(* Dark pools.  A print: its price, its premium, whether it is of SPY.      *)

\* SPY prices count ten times.
Mapped(print) == IF print.spy THEN 10 * print.price ELSE print.price

TierOf(premium) ==
    IF premium >= 10 THEN "major_wall"
    ELSE IF premium >= 5 THEN "watch_zone"
    ELSE IF premium >= 1 THEN "footprint"
    ELSE "none"

NoPrint == [price |-> Null, premium |-> 0, spy |-> TRUE, age |-> 0]

\* State of buildDarkpoolGravity.  A spot of null has become 0.
GravityState(largest, bins, spot) ==
    LET mapped == IF largest.price = Null THEN Null ELSE Mapped(largest)
        near   == /\ mapped # Null
                  /\ SafeNumber(spot) # 0
                  /\ 200 * Abs(spot - mapped) <= spot
    IN  IF near /\ mapped < spot THEN "lower_brake_zone"
        ELSE IF near /\ mapped > spot THEN "upper_brake_zone"
        ELSE IF \E i \in DOMAIN bins : bins[i] >= 30 THEN "cluster_wall"
        ELSE TierOf(largest.premium)

\* classifyCluster
ClusterBehavior(center, spot) ==
    IF center < spot THEN IF spot - center <= 8 THEN "breakout" ELSE "support"
    ELSE IF center > spot THEN IF center - spot <= 8 THEN "breakdown" ELSE "resistance"
    ELSE "unknown"

\* A mutant of Joined: the old center keeps the weight of the whole.
JoinedUnweighted(clusters, print) ==
    LET near  == {i \in DOMAIN clusters : Abs(clusters[i].center - print.level) <= 5}
        at    == CHOOSE i \in near : \A j \in near : i <= j
        total == clusters[at].premium + print.premium
    IN  IF near = {} THEN Append(clusters, [center |-> print.level, premium |-> print.premium])
        ELSE [clusters EXCEPT ![at] =
                 [center  |-> (clusters[at].center * total + print.level * print.premium) \div total,
                  premium |-> total]]

\* clusterPrints: a print joins the first cluster whose center is within five
\* points, and moves that center by its weight.
Joined(clusters, print) ==
    LET near  == {i \in DOMAIN clusters : Abs(clusters[i].center - print.level) <= 5}
        at    == CHOOSE i \in near : \A j \in near : i <= j
        total == clusters[at].premium + print.premium
    IN  IF near = {} THEN Append(clusters, [center |-> print.level, premium |-> print.premium])
        ELSE [clusters EXCEPT ![at] =
                 [center  |-> (clusters[at].center * clusters[at].premium
                               + print.level * print.premium) \div total,
                  premium |-> total]]

\* ... from the lowest print up, in the order the clusters were opened.
Clusters(prints) ==
    LET sorted == SortedBy(prints, [i \in DOMAIN prints |-> prints[i].level])
        after[k \in 0 .. Len(sorted)] ==
            IF k = 0 THEN <<>> ELSE Joined(after[k - 1], sorted[k])
    IN  after[Len(sorted)]

\* Prices below 1000 are taken for those of SPY.
Scaled(p) == IF p.price # Null /\ p.price < 1000 THEN 10 * p.price ELSE p.price

\* Prints of a million and more: the raw rows, else the levels of the factors.
LargePrints(raw, levels) ==
    LET Large(rows) == Picked(rows, {i \in DOMAIN rows : /\ rows[i].level # Null
                                                         /\ rows[i].premium >= 10})
        fromRaw     == Large([i \in DOMAIN raw |->
                                 [level |-> Mapped(raw[i]), premium |-> raw[i].premium]])
    IN  IF fromRaw # <<>> THEN fromRaw
        ELSE Large([i \in DOMAIN levels |->
                       [level |-> Scaled(levels[i]), premium |-> levels[i].premium]])

ClusterTier(premium) ==
    IF premium >= 500 THEN "tier1"
    ELSE IF premium >= 200 THEN "tier2"
    ELSE IF premium >= 50 THEN "tier3"
    ELSE "none"

\* The heaviest cluster the price has just crossed, else the heaviest on either
\* side.
Primary(clusters, spot) ==
    LET at(kinds) == {i \in DOMAIN clusters : ClusterBehavior(clusters[i].center, spot) \in kinds}
        crossed   == at({"breakout", "breakdown"})
        among     == IF crossed # {} THEN crossed ELSE at({"support", "resistance"})
    IN  IF among = {} THEN Null
        ELSE FirstHeaviest(among, [i \in among |-> clusters[i].premium])

\* buildDarkpoolBehaviorEngine on large prints
ReadOf(prints, clusters, at, spot) ==
    LET none    == [behavior |-> "unknown", level |-> Null, tier |-> "none",
                    quality  |-> "insufficient"]
        quality == IF Len(prints) >= 10 THEN "good"
                   ELSE IF Len(prints) >= 3 THEN "partial" ELSE "sparse"
    IN  IF prints = <<>> \/ spot = Null THEN none
        ELSE IF at = Null THEN [none EXCEPT !.quality = quality]
        ELSE [behavior |-> ClusterBehavior(clusters[at].center, spot),
              level    |-> clusters[at].center,
              tier     |-> ClusterTier(clusters[at].premium),
              quality  |-> quality]

DarkpoolRead(prints, spot) ==
    ReadOf(prints, Clusters(prints), Primary(Clusters(prints), spot), spot)

-----------------------------------------------------------------------------
\* buildDarkpoolZone: prints of a hundred thousand and more, in bins of five
\* points, each worth half every two hours (age is in half-lives).
ZoneOf(print) == 5 * RoundDiv(Mapped(print), 5)

ZoneWorth(prints, center) ==
    FoldLeft(LAMBDA sum, p : IF p.premium >= 1 /\ ZoneOf(p) = center
                             THEN sum + p.premium \div 2 ^ p.age ELSE sum,
             0, prints)

ZoneTier(worth) ==
    IF worth >= 100 THEN "major_cluster_wall"
    ELSE IF worth >= 30 THEN "cluster_wall"
    ELSE TierOf(worth)

Zones(prints) == {ZoneOf(prints[i]) : i \in {j \in DOMAIN prints : prints[j].premium >= 1}}

\* nearest_upper_zone and nearest_lower_zone of buildWallZonePanel
UpperZone(prints, spot) ==
    LET above == {z \in Zones(prints) : z > spot}
    IN  IF above = {} THEN Null ELSE CHOOSE z \in above : \A y \in above : z <= y

LowerZone(prints, spot) ==
    LET below == {z \in Zones(prints) : z < spot}
    IN  IF below = {} THEN Null ELSE CHOOSE z \in below : \A y \in below : y <= z
=============================================================================
