---------------------------- MODULE PriceContract ----------------------------
(***************************************************************************)
(* The SPX price of a signal: algorithms/price-contract.js, and the second  *)
(* extraction of a spot that getCurrentSignal (current-signal.js) makes for *)
(* its wall and dark-pool maps.                                             *)
(*                                                                          *)
(* Prices are whole points.  A row of a vendor answer keeps its price, its  *)
(* age and, for trades, whether it is an SPX row.                           *)
(***************************************************************************)
EXTENDS Values

CONSTANTS
    FlowLiveAge,    \* a trade is live below this age (300 s)
    GexLiveAge      \* an exposure row is live below this age (3600 s)

ASSUME PriceAssumption == FlowLiveAge \in Nat /\ GexLiveAge \in Nat

SpxMin == 6000
SpxMax == 8500

\* validateSpxPrice
ValidSpx(p) == IF p \in SpxMin .. SpxMax THEN p ELSE Null

\* looksLikeSpyPrice
LooksLikeSpy(p) == p # Null /\ p >= 200 /\ p < SpxMin

-----------------------------------------------------------------------------
\* The newest row, the first of equals; a row without a timestamp is oldest.
Newest(rows) ==
    LET Older(i, j) == rows[j].age # Null /\ (rows[i].age = Null \/ rows[i].age > rows[j].age)
        best == CHOOSE i \in DOMAIN rows :
                    /\ \A j \in DOMAIN rows : ~Older(i, j)
                    /\ \A j \in 1 .. i - 1 : Older(j, i)
    IN  rows[best]

SpxRows(rows) == SelectSeq(rows, LAMBDA r : r.spx)

NoSpot == [price |-> Null, source |-> "none", status |-> "unavailable"]

SpotOf(row, source, bound) ==
    [price |-> ValidSpx(row.price), source |-> source,
     status |-> IF row.age # Null /\ row.age < bound THEN "live" ELSE "stale"]

\* extractUwSpotPrice: the newest SPX trade, or the newest trade if none is
\* SPX; then the newest exposure row.
UwSpot(raw) ==
    LET spx  == SpxRows(raw.flowRecent)
        rows == IF spx # <<>> THEN spx ELSE raw.flowRecent
    IN  IF rows # <<>> /\ ValidSpx(Newest(rows).price) # Null
        THEN SpotOf(Newest(rows), "uw_flow_recent", FlowLiveAge)
        ELSE IF raw.spotGex # <<>> /\ ValidSpx(Newest(raw.spotGex).price) # Null
        THEN SpotOf(Newest(raw.spotGex), "uw_spot_gex", GexLiveAge)
        ELSE NoSpot

\* buildPriceContract: the candidates in their order of priority, of which the
\* first with a valid price wins.
Candidates(in) ==
    << UwSpot(in.raw),
       [price |-> IF in.tvFresh THEN ValidSpx(in.tv) ELSE Null,
        source |-> "tradingview", status |-> "live"],
       [price |-> IF in.fmpReal THEN ValidSpx(in.fmp) ELSE Null,
        source |-> "fmp", status |-> "live"],
       [price |-> ValidSpx(in.darkpool),
        source |-> "spy_darkpool_x10", status |-> "fallback"] >>

LivePrice(in) ==
    LET priced == SelectSeq(Candidates(in), LAMBDA c : c.price # Null)
    IN  IF priced = <<>> THEN NoSpot ELSE Head(priced)

ContractOf(in, live) ==
    [price |-> live.price, source |-> live.source, status |-> live.status,
     gateOpen |-> live.price # Null,
     degraded |-> live.price = Null \/ live.status = "fallback",
     contaminated |-> LooksLikeSpy(in.fmp) \/ LooksLikeSpy(in.tv)]

Contract(in) == ContractOf(in, LivePrice(in))

-----------------------------------------------------------------------------
\* _extractEarlySpot: the first row with a valid price, in the order delivered.
FirstValid(rows) ==
    LET valid == {i \in DOMAIN rows : ValidSpx(rows[i].price) # Null}
    IN  IF valid = {} THEN Null ELSE rows[CHOOSE i \in valid : \A j \in valid : i <= j].price

EarlySpot(raw, spxSource) ==
    Or(FirstValid(raw.flowRecent), Or(FirstValid(raw.spotGex), spxSource))
=============================================================================
