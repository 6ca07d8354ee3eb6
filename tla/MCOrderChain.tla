----------------------------- MODULE MCOrderChain -----------------------------
(***************************************************************************)
(* Data for OrderChain.  Around 7000: rows delivered out of order, rows of  *)
(* another ticker, stale rows, no rows; exposure of both signs, on both      *)
(* sides or one, or missing; flows on both sides, mixed, close, or missing; *)
(* a cold tape, a trap, buying, and a quiet rise with cheap volatility.     *)
(***************************************************************************)
EXTENDS OrderChain

Trade(price, age, spx) == [price |-> price, age |-> age, spx |-> spx]
Price(flowRecent, spotGex, tv, fmp) ==
    [raw |-> [flowRecent |-> flowRecent, spotGex |-> spotGex],
     tv |-> tv, tvFresh |-> tv # Null, fmp |-> fmp, fmpReal |-> fmp # Null, spxSource |-> fmp]

MCPrices == {
    Price(<<Trade(7000, 10, TRUE), Trade(7003, 5, TRUE)>>, <<>>, Null, Null),
    Price(<<Trade(7300, 0, FALSE), Trade(7000, 400, TRUE)>>, <<>>, Null, 7001),
    Price(<<Trade(7300, 0, FALSE)>>, <<Trade(7000, 4000, TRUE)>>, Null, Null),
    Price(<<>>, <<Trade(7000, 4000, TRUE)>>, Null, 7001),
    Price(<<>>, <<Trade(590, 0, TRUE)>>, 7000, 590),
    Price(<<>>, <<>>, Null, Null) }

Row(strike, call, put) == [strike |-> strike, call |-> call, put |-> put]
NoCharm == [s \in {} |-> 0]
DarkPrint(price, premium, age) == [price |-> price, premium |-> premium, spy |-> TRUE, age |-> age]
Level(price, premium) == [price |-> price, premium |-> premium]
Structure(rows, netGex, dealerGex, zeroGamma, largest, uwStatus, prints, levels) ==
    [prints |-> prints, levels |-> levels, rows |-> rows, spotRows |-> <<>>,
     netGex |-> netGex, dealerGex |-> dealerGex,
     zeroGamma |-> zeroGamma, callWall |-> Null, putWall |-> Null,
     largest |-> largest, bins |-> <<>>, charm |-> NoCharm, uwStatus |-> uwStatus]

MCStructures == {
    \* dealers long of gamma, walls on both sides, flip at 6995; two clusters of
    \* levels, one of them just crossed
    Structure(<<Row(7050, 300, -20), Row(7000, 60, -10), Row(6990, 10, -60), Row(6950, 5, -200)>>,
              200, 60, Null, NoPrint, "live", <<>>,
              <<Level(6950, 120), Level(6991, 100), Level(6996, 60)>>),
    \* the same with walls near by, heavy prints on both sides
    Structure(<<Row(6980, 10, -200), Row(6990, 10, -60), Row(7000, 60, -10), Row(7020, 300, -20)>>,
              200, 60, Null, NoPrint, "live",
              <<DarkPrint(698, 40, 0), DarkPrint(698, 400, 2), DarkPrint(702, 8, 1)>>,
              <<Level(7040, 250)>>),
    \* dealers short of gamma, flip at 7045
    Structure(<<Row(6950, 5, -200), Row(7000, 10, -60), Row(7040, 10, -60), Row(7050, 70, -20)>>,
              -200, Null, Null, NoPrint, "partial", <<>>, <<>>),
    \* a negative regime under a positive exposure, one wall, a zone that brakes
    Structure(<<Row(7020, 90, -10), Row(7050, 20, -10)>>,
              100, 60, 7100, DarkPrint(699, 20, 0), "live", <<>>,
              <<Level(6990, 20), Level(6970, 9)>>),
    \* no rows, no levels
    Structure(<<>>, Null, 60, Null, NoPrint, "unavailable", <<>>, <<>>) }

Flow(net, call, put, pc) == [net |-> net, call |-> call, put |-> put, pc |-> pc]

MCFlows == {
    Flow(12, 30, -10, 5),
    Flow(-14, 10, -30, 20),
    Flow(3, 10, -20, 10),
    Flow(12, 10, -30, 12),
    Flow(3, 10, -9, 5),
    Flow(Null, Null, Null, Null) }

Ask(type, premium) == [side |-> "ASK", type |-> type, premium |-> premium, age |-> 0]
Tape(size, delta, trades, ivRank) ==
    [history |-> [size |-> size, d1 |-> delta, d5 |-> delta, d15 |-> delta],
     trades |-> trades, ivRank |-> ivRank]

MCTapes == {
    Tape(0, Null, <<>>, Null),
    Tape(20, 8, <<Ask("put", 2), Ask("put", 2), Ask("put", 1)>>, 50),
    Tape(20, 8, <<Ask("call", 3), Ask("call", 3), Ask("call", 1)>>, 50),
    Tape(20, 8, <<>>, 10) }
=============================================================================
