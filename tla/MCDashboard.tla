---------------------------- MODULE MCDashboard ----------------------------
(***************************************************************************)
(* Data for Dashboard, about 7000.  Events of every kind, late ones, with    *)
(* and without a price, a level and a price of the future; chains that pin,  *)
(* fall, balance or are empty; calendars that reach the gate as time passes;  *)
(* Unusual Whales bought hard, sold hard, stale, in error and away.          *)
(***************************************************************************)
EXTENDS Dashboard

Event(event, price, level, es, late) ==
    [event |-> event, price |-> price, level |-> level, es |-> es, late |-> late]

MCTvEvents == {
    Event("heartbeat", 7000, Null, Null, 0),
    Event("breakout_confirmed", 7000, 6985, 7020, 0),
    Event("breakdown_confirmed", 7000, 7012, Null, 0),
    Event("breakdown_confirmed", 7000, 7012, 7020, 1),
    Event("breakdown_confirmed", Null, Null, 7020, 0),
    Event("retest_failed", 6995, Null, 7020, 0),
    Event("pullback_holding", 6995, 6985, Null, 0),
    Event("structure_invalidated", 6980, Null, Null, 0) }

Put(strike, gamma, oi, mid)  == [strike |-> strike, call |-> FALSE, gamma |-> gamma, oi |-> oi, mid |-> mid]
Call(strike, gamma, oi, mid) == [strike |-> strike, call |-> TRUE, gamma |-> gamma, oi |-> oi, mid |-> mid]

MCChains == {
    \* dealers long of gamma, spot between the walls
    <<Put(6980, 2, 2, 4), Call(7000, 3, 1, 12), Put(7000, 1, 1, 12), Call(7020, 2, 5, 5)>>,
    \* dealers short of gamma, the exposure changes its sign above the spot
    <<Put(6980, 2, 9, 4), Call(7000, 1, 1, 12), Put(7000, 2, 4, 12), Call(7020, 2, 3, 5)>>,
    \* hardly any exposure, prices missing
    <<Put(6980, 1, 1, Null), Call(7000, 1, 1, 12), Put(7000, Null, 1, Null), Call(7020, 1, 1, 5)>>,
    \* one strike, no open interest
    <<Call(7000, 1, Null, 12), Put(7000, 1, Null, 12)>>,
    <<>> }

Scenario(gamma, levels, iv, lean, structure, biases, stale) ==
    [gamma |-> gamma, risk |-> "low", iv |-> iv, theta |-> lean, structure |-> structure,
     spot |-> levels[1], flip |-> levels[2], call |-> levels[3], put |-> levels[4], pain |-> levels[5],
     flow |-> biases[1], dark |-> biases[2], dealer |-> biases[3], vanna |-> biases[4], charm |-> biases[5],
     tvStale |-> stale, uwStale |-> FALSE]

MCDefault ==
    Scenario("negative", <<5252, 5285, 5320, 5225, 5275>>, "elevated", "bearish_pressure",
             "pullback_not_confirmed", <<"bullish", "neutral", "defensive", "negative", "negative">>, FALSE)

MCDemos == [
    negative |-> MCDefault,
    flip     |-> Scenario("critical", <<5281, 5280, 5310, 5258, 5280>>, "mixed", "bullish_pullback",
                          "breakdown_confirmed", <<"bullish", "neutral", "supportive", "positive", "flat">>, FALSE),
    grind    |-> Scenario("positive", <<5304, 5282, 5330, 5272, 5298>>, "cooling", "bullish_pullback",
                          "breakout_confirmed_pullback_ready",
                          <<"bullish", "bullish", "supportive", "positive", "positive">>, FALSE) ]

Fmp(key, up, price, calendar) == [key |-> key, up |-> up, price |-> price, calendar |-> calendar]
Soon == {[high |-> TRUE, at |-> -32]}      \* enters the three hours at left = 4
Past == {[high |-> TRUE, at |-> 10]}       \* leaves the half hour at left = 3
Calm == {[high |-> FALSE, at |-> 3]}

Row(strike, call, put) ==
    [strike |-> strike, call |-> call, put |-> put, net |-> Null, vanna |-> 1, charm |-> Null]
Rows == <<Row(6900, 10, -90), Row(6980, 10, -60), Row(7000, 20, -20), Row(7040, 90, -10), Row(7100, 20, -5)>>
NoRaw == [exposures |-> <<>>, spots |-> <<>>, price |-> Null, greeks |-> [vanna |-> Null, charm |-> Null],
          ticks |-> <<>>, volume |-> [call |-> Null, put |-> Null], recent |-> <<>>,
          alerts |-> [call |-> Null, put |-> Null], prints |-> <<>>,
          iv |-> [rank |-> Null, realized |-> Null],
          tide |-> [call |-> Null, put |-> Null, net |-> Null], pain |-> Null]
Trade(call, premium) == [call |-> call, premium |-> premium, sweep |-> TRUE]
Bought == [NoRaw EXCEPT !.exposures = Rows, !.spots = Rows, !.price = 7000,
                        !.ticks = <<[call |-> 90, put |-> 10]>>,
                        !.recent = <<Trade(TRUE, 5)>>, !.prints = <<[price |-> 6990, premium |-> 3]>>,
                        !.iv = [rank |-> 60, realized |-> 120],
                        !.tide = [call |-> 9, put |-> 2, net |-> Null]]
Sold   == [NoRaw EXCEPT !.exposures = Rows, !.spots = <<Row(6995, 5, -60), Row(7080, 9, -70)>>,
                        !.volume = [call |-> 10, put |-> 60],
                        !.recent = <<Trade(FALSE, 5), Trade(FALSE, 1)>>,
                        !.prints = <<[price |-> 6990, premium |-> 3], [price |-> 7010, premium |-> 4]>>,
                        !.iv = [rank |-> 85, realized |-> 120],
                        !.tide = [call |-> Null, put |-> Null, net |-> -3]]

MCFeeds == {
    [fmp |-> Fmp(TRUE, TRUE, 7000, Calm),  uw |-> [provider |-> "live", raw |-> Sold]],
    [fmp |-> Fmp(TRUE, TRUE, 7000, Soon),  uw |-> [provider |-> "live", raw |-> Bought]],
    [fmp |-> Fmp(TRUE, TRUE, Null, Past),  uw |-> [provider |-> "live", raw |-> Sold]],
    [fmp |-> Fmp(TRUE, FALSE, 6995, {}),   uw |-> [provider |-> "partial", raw |-> Sold]],
    [fmp |-> Fmp(TRUE, TRUE, 6990, {}),    uw |-> [provider |-> "stale", raw |-> Bought]],
    [fmp |-> Fmp(TRUE, TRUE, 7000, {}),    uw |-> [provider |-> "error", raw |-> NoRaw]],
    [fmp |-> Fmp(FALSE, FALSE, Null, {}),  uw |-> [provider |-> "unavailable", raw |-> NoRaw]] }
=============================================================================
