------------------------------ MODULE OrderChain ------------------------------
(***************************************************************************)
(* The chain from vendor data to the order on the home page: the institu-   *)
(* tional part of getCurrentSignal (decision_engine/current-signal.js),    *)
(* which calls the engines of PriceContract, GammaRegime, DealerWalls,      *)
(* FlowBehavior, PriceValidation, AbOrder, MarketRegime and HomeView in      *)
(* their order, and keeps the premium queue from one call to the next.      *)
(*                                                                          *)
(* One call runs at a time here; SignalJobs has calls that overlap.  The    *)
(* data of a call are any combination of the members of four small sets.    *)
(***************************************************************************)
EXTENDS HomeView, DealerWalls

CONSTANTS
    Prices,      \* price rows and vendor prices
    Structures,  \* exposure, walls, dark-pool prints
    Flows,       \* premiums and ratios
    Tapes,       \* price history, recent trades, rank of volatility
    AgeBound     \* ages of queue entries are counted up to this

ASSUME ChainAssumption == AgeBound \in Nat /\ AgeBound > LongWindow

\* Numbers of the vendors, each of which may be missing (Null).
PriceRows    == Seq([price : Int, age : Int, spx : BOOLEAN])
ExposureRows == Seq([strike : Int, call : Int, put : Int])
PrintLevels  == Seq([price : Int, premium : Int])

ASSUME DataAssumption ==
    /\ \A p \in Prices : /\ p.raw.flowRecent \in PriceRows /\ p.raw.spotGex \in PriceRows
                         /\ p.spxSource \in Int
    /\ \A s \in Structures : /\ s.rows \in ExposureRows /\ s.spotRows \in ExposureRows
                             /\ s.levels \in PrintLevels /\ s.dealerGex \in Int
    /\ Flows \subseteq [net : Int, call : Int, put : Int, pc : Int]

VARIABLES
    queue,       \* premiumAccelerationQueue._queue
    page         \* the answer of a call until the client has it

chainVars == <<queue, page>>

NoPage == [made |-> FALSE]

-----------------------------------------------------------------------------
(* The steps of a call that combine engines.                                *)

\* gamma_flip, call_wall and put_wall fall back to the conclusion of the vendor
\* data, without the price gate.
FlipOf(map, s) == Or(map.flip, s.zeroGamma)
InputOf(map, s, f) ==
    [net |-> f.net, call |-> f.call, put |-> f.put, pc |-> f.pc,
     callWall |-> Or(map.call, s.callWall), putWall |-> Or(map.put, s.putWall),
     braking |-> GravityState(s.largest, s.bins, map.spot) = "lower_brake_zone"]

\* The spot of a call, the walls about it and the price; the second extraction
\* of a spot does not look at the price contract.
Located(p, s) ==
    LET early == EarlySpot(p.raw, p.spxSource)
        dark  == IF s.largest.price = Null THEN Null ELSE Mapped(s.largest)
    IN  [early |-> early,
         map   |-> WallMap(early, s.rows, s.spotRows),
         price |-> Contract([raw |-> p.raw, tv |-> p.tv, tvFresh |-> p.tvFresh, fmp |-> p.fmp,
                             fmpReal |-> p.fmpReal, darkpool |-> dark])]

\* What the engines make of the place, the windows on the queue q as it was
\* before this call.
Judged(p, s, f, q, at) ==
    LET spot    == at.price.price
        atm     == Atm(spot)
        pin     == PinRisk(spot, atm, s.netGex, 390)
        regime  == Regime(spot, FlipOf(at.map, s), s.netGex)
        leaning == DirectionScore(AtmTrend(<<>>, atm), 0, spot, atm, f.pc, f.net)
        in      == InputOf(at.map, s, f)
    IN  [map |-> at.map, early |-> at.early, price |-> at.price,
         spot |-> spot, atm |-> atm, pin |-> pin, regime |-> regime, in |-> in,
         trust |-> ExecutionConfidence(spot, s.uwStatus, p.fmpReal, s.netGex, leaning, pin),
         flow  |-> FlowRead(in, q, regime, spot)]

\* The order, its trigger and the market it meets.
Ordered(s, f, t, j) ==
    LET tape == Microstructure(t.trades, s.charm, Or(s.dealerGex, 0), Null)
    IN  [order    |-> AbOrderOf(j.spot, j.atm, j.regime, j.flow.behavior, j.trust, f.call, f.put),
         trigger  |-> IF j.atm = Null THEN "locked" ELSE TriggerStatus(j.spot, TriggerLines(j.atm)),
         trueFlow |-> tape.flow,
         market   |-> MarketOf(tape.flow, tape.veto, j.regime, Or(s.dealerGex, SafeNumber(s.netGex)),
                               t.history.d5, t.ivRank, j.map.spot, j.map.localPut),
         diverges |-> Divergence(f.pc, f.call, f.put, j.flow.behavior)]

\* The page.  The dark-pool reading gets no raw rows: they are looked for in
\* uwApi.raw, which the normalizer names uw_raw.
Page(p, s, f, t, q, j, o) ==
    LET order    == o.order
        card     == CardDirection(order, o.trigger, j.flow.behavior)
        status   == DisplayStatus(order, card, o.market \in ForcedWait)
        allowed  == ExecAllowed(status, j.flow, j.price.gateOpen)
        capital  == CapitalGate(j.flow, o.diverges)
        walls    == Gated(j.map, j.price.gateOpen)
        scenes   == Scenes(t.history, f, Len(s.levels), j.regime, j.pin)
        prints   == IF s.prints # <<>> THEN s.prints ELSE <<s.largest>>
    IN  [made     |-> TRUE,
         trades   |-> p.raw.flowRecent,
         d5       |-> t.history.d5,
         trueFlow |-> o.trueFlow,
         gex      |-> s.dealerGex,
         prints   |-> LargePrints(<<>>, s.levels),
         dark     |-> DarkpoolRead(LargePrints(<<>>, s.levels), j.spot),
         zones    |-> <<LowerZone(prints, j.map.spot), UpperZone(prints, j.map.spot)>>,
         worths   |-> {<<z, ZoneTier(ZoneWorth(prints, z))>> : z \in Zones(prints)},
         scene    |-> Dominant(scenes),
         alert    |-> AlertLevel(scenes),
         position |-> SpotPosition(j.spot, FlipOf(j.map, s), j.in.callWall, j.in.putWall),
         pace     |-> Acceleration(Pushed(q, f)),
         label    |-> MarketLabel(o.diverges, f.pc, f.call, f.put),
         stance   |-> Stance(o.market),
         price    |-> j.spot,
         source   |-> j.price.source,
         early    |-> j.early,
         call     |-> walls.call,
         put      |-> walls.put,
         regime   |-> j.regime,
         behavior |-> j.flow.behavior,
         windows  |-> <<j.flow.short, j.flow.long>>,
         fresh    |-> ~j.flow.shortFallback /\ ~j.flow.longFallback,
         trust    |-> j.trust,
         status   |-> order.status,
         a        |-> order.a,
         market   |-> o.market,
         home     |-> status,
         shows    |-> HomeShowsDirection(status, j.flow),
         planA    |-> PlanState(order.a, allowed, capital),
         planB    |-> PlanState(order.b, allowed, capital),
         mode     |-> PlanMode(order, allowed, j.flow),
         locked   |-> HealthLocked(walls.status, t.history)]

\* The whole answer, stage by stage.
PageOn(p, s, f, t, q, j) == Page(p, s, f, t, q, j, Ordered(s, f, t, j))

PageOf(p, s, f, t, q) == PageOn(p, s, f, t, q, Judged(p, s, f, q, Located(p, s)))

-----------------------------------------------------------------------------
ChainInit == queue = <<>> /\ page = NoPage

\* getCurrentSignal: the answer, and the snapshot pushed after it was made.
ServePage ==
    /\ ~page.made
    /\ \E p \in Prices, s \in Structures, f \in Flows, t \in Tapes :
          /\ page' = PageOf(p, s, f, t, queue)
          /\ queue' = Pushed(queue, f)

\* The client has read the answer.
DeliverPage ==
    /\ page.made
    /\ page' = NoPage
    /\ UNCHANGED queue

\* Time passes.
AgeQueue ==
    /\ ~page.made
    /\ \E i \in DOMAIN queue : queue[i].age < AgeBound
    /\ queue' = [i \in DOMAIN queue |->
                    [queue[i] EXCEPT !.age = IF @ < AgeBound THEN @ + 1 ELSE AgeBound]]
    /\ UNCHANGED page

ChainNext == ServePage \/ DeliverPage \/ AgeQueue

ChainSpec == ChainInit /\ [][ChainNext]_chainVars

-----------------------------------------------------------------------------
(* Properties.                                                              *)

\* The queue keeps to its bound and to the order of time: every window reads
\* its first and last entry as its oldest and newest.
TypeOK ==
    /\ queue \in Seq([net : Int \ {Null}, age : 0 .. AgeBound])
    /\ Len(queue) <= MaxEntries
    /\ \A i, j \in DOMAIN queue : i < j => queue[i].age >= queue[j].age
    /\ page.made \in BOOLEAN

Bans(direction) == IF direction = "LONG" THEN "CALL" ELSE "PUT"

\* Neither the state of the home page nor an executable plan A goes against
\* prohibit_direction of the flow behaviour of the same answer, although they
\* are computed from the matrix, the card and the gates and never read it.
HomeObeysFlow ==
    page.made =>
        /\ page.home = "LONG_READY"  => "CALL" \notin Prohibited(page.behavior)
        /\ page.home = "SHORT_READY" => "PUT" \notin Prohibited(page.behavior)
        /\ page.planA = "READY" => Bans(PlanSide(page.a)) \notin Prohibited(page.behavior)

\* A ready order has a price, a gamma regime and the confidence it asks for,
\* and buys options outright only where dealers amplify moves.
ReadyIsGrounded ==
    (page.made /\ page.status = "ready") =>
        /\ page.price # Null
        /\ page.trust >= 40
        /\ page.regime \in {"positive", "negative"}
        /\ page.regime = "positive" => page.a.instrument = "spread"

\* A plan may be executed only if both windows are computed from entries of
\* their own and agree on a direction, the page shows that direction and there
\* is a price: the gates of the home view and of the capital reading together.
ExecutableIsConfirmed ==
    (page.made /\ "READY" \in {page.planA, page.planB}) =>
        /\ page.fresh
        /\ page.windows \in {<<"bullish", "bullish">>, <<"bearish", "bearish">>}
        /\ page.shows
        /\ page.price # Null

\* When the price rises against bought puts under a heavy exposure, outside the
\* negative regime, the page does not offer a trade.
TrapHoldsBack ==
    (page.made /\ page.d5 # Null /\ page.d5 > 3 /\ page.trueFlow < -3 /\ page.gex > 50)
        => page.home \notin ReadyHomes

\* The walls of an answer come in pairs and lie on either side of the spot they
\* were computed from, the call wall at a distance above and the put wall below.
WallsBracketSpot ==
    (page.made /\ {page.call, page.put} # {Null}) =>
        /\ page.call > page.early + 5
        /\ page.put # Null /\ page.put < page.early - 5

\* The dark-pool level of an answer is one that traded: however the centers of
\* the clusters moved as prints were added, a large print lies within five points
\* of it, and the price is on the side that the reading says.
DarkpoolLevelIsTraded ==
    (page.made /\ page.dark.level # Null) =>
        /\ \E i \in DOMAIN page.prints :
               Abs(page.prints[i].level - page.dark.level) <= 5
        /\ page.price # Null
        /\ IF page.dark.behavior \in {"support", "breakout"}
           THEN page.dark.level < page.price ELSE page.dark.level > page.price

=============================================================================
