------------------------------ MODULE Dashboard ------------------------------
(***************************************************************************)
(* The route GET /signals/current over its stored and fetched inputs: the   *)
(* TradingView webhook and the Theta bridge store what they send, the feeds *)
(* of FMP and Unusual Whales change, time passes, and every request is      *)
(* decided anew from what is there (getCurrentSignal).                      *)
(*                                                                          *)
(* A tick is 5 minutes.  A request is short against a tick and is one step. *)
(* An event of the FMP calendar stands at the tick in which it is published, *)
(* counted like left: at = left is now, at = left - 1 a tick ahead.          *)
(***************************************************************************)
EXTENDS CommandCentre

CONSTANTS
    Default,       \* the mock scenario under every live call
    Demos,         \* the mock scenarios that a page may ask for
    TvEvents,      \* events of the webhook
    Chains,        \* option chains of the bridge
    Feeds,         \* [fmp, uw], the calendar of fmp as [high, at]
    FirstLeft      \* ticks to the close at the start

ASSUME DashboardAssumption == FirstLeft \in Nat

\* Calendars and prices as the snapshot of FMP has them.
ASSUME FeedsAssumption ==
    \A f \in Feeds : f.fmp \in [key : BOOLEAN, up : BOOLEAN, price : Int,
                               calendar : SUBSET [high : BOOLEAN, at : Int]]

\* The greeks of the scenario under every live call: that of the mock data which
\* getCurrentSignal falls back to has both of them negative.
ASSUME DefaultAssumption ==
    /\ {"flow", "dark", "dealer", "vanna", "charm"} \subseteq DOMAIN Default
    /\ Default.vanna = "negative" /\ Default.charm = "negative"

VARIABLES
    tv,            \* the stored event
    theta,         \* the stored snapshot of Theta, with its age in ticks
    feeds,         \* what FMP and Unusual Whales answer
    left,          \* ticks to the close
    signal         \* the answer on its way, with what it was asked for

vars == <<tv, theta, feeds, left, signal>>

NoSignal == [scenario |-> "none"]

-----------------------------------------------------------------------------
New(snapshot) == With(snapshot, "age", 0)

\* The minutes until the events of the calendar are published.
FmpNow ==
    [feeds.fmp EXCEPT !.calendar = {[high |-> e.high, minutes |-> 5 * (left - e.at)] : e \in @}]

Input(scenario) ==
    [demo |-> scenario # "live", scenario |-> IF scenario = "live" THEN Default ELSE Demos[scenario],
     tv |-> tv, theta |-> theta, fmp |-> FmpNow]

Init ==
    /\ tv = NoEvent
    /\ theta = NoTheta
    /\ feeds \in Feeds
    /\ left = FirstLeft
    /\ signal = NoSignal

\* POST of the TradingView webhook: an event it does not accept is refused.
Webhook(event) ==
    /\ signal = NoSignal
    /\ event.event \in Events
    /\ tv' = event
    /\ UNCHANGED <<theta, feeds, left, signal>>

\* The bridge reads the stored event, asks Theta and posts its summary.
BridgePush(chain) ==
    /\ signal = NoSignal
    /\ theta' = New(Summary(chain, BridgeSpot(tv)))
    /\ UNCHANGED <<tv, feeds, left, signal>>

\* The bridge gets no chain and posts a snapshot without one.
BridgeFails ==
    /\ signal = NoSignal
    /\ theta' = New(Unread(BridgeSpot(tv)))
    /\ UNCHANGED <<tv, feeds, left, signal>>

Feed(f) ==
    /\ signal = NoSignal
    /\ feeds' = f
    /\ UNCHANGED <<tv, theta, left, signal>>

\* An age beyond the threshold is not told apart.
Tick ==
    /\ signal = NoSignal
    /\ left > 0
    /\ left' = left - 1
    /\ theta' = IF theta = NoTheta \/ theta.age > ThetaStale THEN theta
                ELSE [theta EXCEPT !.age = @ + 1]
    /\ UNCHANGED <<tv, feeds, signal>>

Signal(scenario) ==
    /\ signal = NoSignal
    /\ signal' = [scenario |-> scenario, answer |-> Answer(Input(scenario), feeds.uw, left)]
    /\ UNCHANGED <<tv, theta, feeds, left>>

Deliver ==
    /\ signal # NoSignal
    /\ signal' = NoSignal
    /\ UNCHANGED <<tv, theta, feeds, left>>

Next ==
    \/ \E event \in TvEvents : Webhook(event)
    \/ \E chain \in Chains : BridgePush(chain)
    \/ BridgeFails
    \/ \E f \in Feeds : Feed(f)
    \/ Tick
    \/ \E scenario \in {"live"} \cup DOMAIN Demos : Signal(scenario)
    \/ Deliver

Spec == Init /\ [][Next]_vars

-----------------------------------------------------------------------------
(* Properties.                                                              *)

Asked == signal # NoSignal
Live  == Asked /\ signal.scenario = "live"
PlanReady == Asked /\ signal.answer.plan.status = "ready"

\* A plan becomes ready only on a snapshot of Theta that was read in full within
\* the last ThetaStale ticks, however the webhook, the bridge and the clock
\* follow each other.
ReadyNeedsFreshTheta ==
    PlanReady => theta.status = "live" /\ theta.age <= ThetaStale

\* No plan is ready from three hours before a high-impact event of a calendar
\* that FMP delivers until half an hour after it.
NoPlanNearEvents ==
    PlanReady /\ feeds.fmp.key /\ feeds.fmp.up =>
        \A e \in FmpNow.calendar : ~(e.high /\ e.minutes \in -30 .. 180)

\* A mock scenario, whatever real data stand beside it, makes no plan, permits
\* nothing and ends blocked or waiting.
ScenarioNeverTrades ==
    Asked /\ ~Live =>
        /\ ~PlanReady /\ signal.answer.permitted = {}
        /\ signal.answer.blank /\ signal.answer.action \in {"wait", "no_trade"}

\* The greeks of the default scenario count in every live answer as a bearish
\* flow of Unusual Whales: no long plan is ever ready.
LivePlansAreShort ==
    Live /\ PlanReady => DirectionOf(signal.answer.plan.code) = "bearish"

\* The final decision is not blocked only on a real price of FMP, which in a live
\* answer no snapshot of Theta stands before, and with at least a quarter of an
\* hour to the close; so that it is blocked beside every ready plan.
UnblockedIsGrounded ==
    Asked /\ signal.answer.final # "blocked" =>
        /\ ~PlanReady /\ (Live => theta = NoTheta) /\ left >= 3
        /\ feeds.fmp.key /\ feeds.fmp.price # Null
        /\ feeds.uw.provider # "unavailable"

\* No answer authorises a trade: no strategy is permitted, no share of a position
\* is given, the gate of readiness stays shut and nothing counts as executable.
NothingIsAuthorised ==
    Asked => /\ signal.answer.permitted = {} /\ signal.answer.share = 0
             /\ ~signal.answer.ready /\ signal.answer.score < 80
             /\ signal.answer.degraded # "DEGRADED_CANDIDATE"
             /\ signal.answer.command # "actionable"

\* The inductive invariant behind them: an answer on its way was decided from what
\* is stored now, and a snapshot of Theta has an age.
DashboardInv ==
    /\ feeds \in Feeds
    /\ left \in Nat
    /\ "age" \in DOMAIN theta /\ theta.age \in Nat
    /\ Asked => \E scenario \in {"live"} \cup DOMAIN Demos :
                    signal = [scenario |-> scenario,
                              answer |-> Answer(Input(scenario), feeds.uw, left)]
=============================================================================
