--------------------------- MODULE Decision_proofs ---------------------------
(***************************************************************************)
(* What holds of the two decision chains for every set of inputs: of the     *)
(* dashboard (the master pass, its rules and the command centre) by an       *)
(* invariant that ties the answer on its way to what is stored, and of the   *)
(* chain of orders by what a page that is made says of itself.               *)
(***************************************************************************)
EXTENDS OrderChain, Dashboard, SequenceTheorems, FiniteSetTheorems, WellFoundedInduction, TLAPS

-----------------------------------------------------------------------------
(* The record on its way through the master pass.                           *)

\* The fields of the normalized record.
Fields == {"demo", "spot", "fmpReal", "spotReal", "flip", "call", "put", "pain", "gamma", "theta",
           "status", "dealer", "event", "level", "structure", "risk", "fmp", "stale", "anyStale",
           "iv", "biases"}

\* ... are all of them.
LEMMA NormalizedFields ==
    ASSUME NEW in
    PROVE  DOMAIN Normalized(in) = Fields
  BY DEF Normalized, Fields

\* What the engines add to them.
Findings == {"coherence", "conflict", "open", "bias", "sentinel", "plan", "resolution"}

\* ... which none of them holds before.
LEMMA FindingsAreNew == \A f \in Fields : f \notin Findings
  BY DEF Fields, Findings

\* The stages of a record: each keeps the fields of n, and what an engine has
\* found stays what it found on the record before it.
LEMMA Stages ==
    ASSUME NEW in, NEW n, n = Normalized(in),
           NEW c, c = Checked(n), NEW o, o = Opened(c), NEW b, b = Biased(o),
           NEW w, w = Watched(b), NEW m, m = Mastered(n)
    PROVE  /\ \A f \in Fields : c[f] = n[f] /\ o[f] = n[f] /\ b[f] = n[f] /\ w[f] = n[f] /\ m[f] = n[f]
           /\ c.coherence = Coherence(n) /\ m.coherence = Coherence(n)
           /\ o.open = EnvironmentAllows(c) /\ w.open = EnvironmentAllows(c)
           /\ m.open = EnvironmentAllows(c)
           /\ w.bias = Bias(o) /\ m.bias = Bias(o)
           /\ w.sentinel = Sentinel(b) /\ m.sentinel = Sentinel(b)
           /\ m.plan = Plan(w)
  <1> DEFINE a == With(n, "coherence", Coherence(n))
             p == With(w, "plan", Plan(w))
  <1>1. /\ c = With(a, "conflict", ConflictLevel(n))
        /\ o = With(c, "open", EnvironmentAllows(c))
        /\ b = With(o, "bias", Bias(o))
        /\ w = With(b, "sentinel", Sentinel(b))
        /\ m = With(p, "resolution", Resolution(p))
    BY DEF Checked, Opened, Biased, Watched, Planned, Resolved, Mastered
  <1>2. DOMAIN n = Fields
    BY NormalizedFields
  <1> HIDE DEF a
  <1>3. /\ DOMAIN a = Fields \cup {"coherence"}
        /\ a.coherence = Coherence(n)
        /\ \A f \in Fields : a[f] = n[f]
    BY <1>2, FindingsAreNew DEF a, With, Findings
  <1>4. /\ DOMAIN c = Fields \cup {"coherence", "conflict"}
        /\ c.coherence = Coherence(n)
        /\ \A f \in Fields : c[f] = n[f]
    BY <1>1, <1>3, FindingsAreNew DEF With, Findings
  <1>5. /\ DOMAIN o = Fields \cup {"coherence", "conflict", "open"}
        /\ o.coherence = Coherence(n) /\ o.open = EnvironmentAllows(c)
        /\ \A f \in Fields : o[f] = n[f]
    BY <1>1, <1>4, FindingsAreNew DEF With, Findings
  <1>6. /\ DOMAIN b = Fields \cup {"coherence", "conflict", "open", "bias"}
        /\ b.coherence = Coherence(n) /\ b.open = EnvironmentAllows(c) /\ b.bias = Bias(o)
        /\ \A f \in Fields : b[f] = n[f]
    BY <1>1, <1>5, FindingsAreNew DEF With, Findings
  <1>7. /\ DOMAIN w = Fields \cup {"coherence", "conflict", "open", "bias", "sentinel"}
        /\ w.coherence = Coherence(n) /\ w.open = EnvironmentAllows(c) /\ w.bias = Bias(o)
        /\ w.sentinel = Sentinel(b)
        /\ \A f \in Fields : w[f] = n[f]
    BY <1>1, <1>6, FindingsAreNew DEF With, Findings
  <1> HIDE DEF p
  <1>8. /\ DOMAIN p = Fields \cup {"coherence", "conflict", "open", "bias", "sentinel", "plan"}
        /\ p.coherence = Coherence(n) /\ p.open = EnvironmentAllows(c) /\ p.bias = Bias(o)
        /\ p.sentinel = Sentinel(b) /\ p.plan = Plan(w)
        /\ \A f \in Fields : p[f] = n[f]
    BY <1>7, FindingsAreNew DEF p, With, Findings
  <1>9. /\ m.coherence = Coherence(n) /\ m.open = EnvironmentAllows(c) /\ m.bias = Bias(o)
        /\ m.sentinel = Sentinel(b) /\ m.plan = Plan(w)
        /\ \A f \in Fields : m[f] = n[f]
    BY <1>1, <1>8, FindingsAreNew DEF With, Findings
  <1> QED
    BY <1>3, <1>4, <1>5, <1>6, <1>7, <1>8, <1>9

-----------------------------------------------------------------------------
(* What the engines find, whatever the inputs.                              *)

\* The sentinel is handed no setups and matches none.
LEMMA NothingMatches ==
    ASSUME NEW in, NEW n, n = Normalized(in), NEW m, m = Mastered(n)
    PROVE  m.sentinel.matched = FALSE
  <1>1. m.sentinel = Sentinel(Biased(Opened(Checked(n))))
    BY Stages
  <1>2. Sentinel(Biased(Opened(Checked(n)))).matched = FALSE
    BY DEF Sentinel, SentinelSetups
  <1> QED
    BY <1>1, <1>2

\* The environment opens only on fresh data of dealers who may be acted on, with
\* no event near, and on a coherent picture.
LEMMA OpenNeeds ==
    ASSUME NEW in, NEW n, n = Normalized(in), EnvironmentAllows(Checked(n))
    PROVE  /\ RiskGate(n) # "blocked"
           /\ DealerExecutable(n.dealer)
           /\ Coherence(n).executable
  <1> DEFINE c == Checked(n)
  <1>1. c.coherence = Coherence(n) /\ \A f \in Fields : c[f] = n[f]
    BY Stages
  <1>2. c.risk = n.risk /\ c.dealer = n.dealer
    BY <1>1 DEF Fields
  <1> HIDE DEF c
  <1>3. RiskGate(c) = RiskGate(n)
    BY <1>2 DEF RiskGate
  <1> QED
    BY <1>1, <1>2, <1>3 DEF EnvironmentAllows, c

\* A plan is ready only in an open environment, with a code that the bias permits.
LEMMA ReadyNeeds ==
    ASSUME NEW in, NEW n, n = Normalized(in), NEW m, m = Mastered(n), m.plan.status = "ready"
    PROVE  /\ EnvironmentAllows(Checked(n))
           /\ m.plan.code \in PermittedCodes(Watched(Biased(Opened(Checked(n)))))
  <1> DEFINE w == Watched(Biased(Opened(Checked(n))))
  <1>1. m.plan = Plan(w) /\ w.open = EnvironmentAllows(Checked(n))
    BY Stages
  <1> HIDE DEF w
  <1>2. w.open /\ Plan(w).code \in PermittedCodes(w)
    BY <1>1 DEF Plan, NoPlan
  <1> QED
    BY <1>1, <1>2 DEF w

\* Beyond an open environment there is only a plan that waits.
LEMMA ClosedWaits ==
    ASSUME NEW in, NEW n, n = Normalized(in), NEW m, m = Mastered(n), ~EnvironmentAllows(Checked(n))
    PROVE  m.plan.status # "ready" /\ m.plan.action = "wait"
  <1> DEFINE w == Watched(Biased(Opened(Checked(n))))
  <1>1. m.plan = Plan(w) /\ w.open = EnvironmentAllows(Checked(n))
    BY Stages
  <1> HIDE DEF w
  <1>2. ~w.open
    BY <1>1
  <1>3. \/ Plan(w) = NoPlan("invalidated", "invalidated")
        \/ Plan(w) = NoPlan("blocked", "blocked")
    BY <1>2 DEF Plan
  <1> QED
    BY <1>1, <1>3 DEF NoPlan

-----------------------------------------------------------------------------
(* The answer.                                                              *)

\* What an answer takes over from the master pass and from the engines.
LEMMA AnswerTakes ==
    ASSUME NEW in, NEW uw, NEW ticks, NEW m, m = Mastered(Normalized(in)),
           NEW u, u = Noted(m, Manned(uw)), NEW answer, answer = Answer(in, uw, ticks)
    PROVE  /\ answer.plan = m.plan /\ answer.blank = CardsBlank(m)
           /\ answer.action = RecommendedAction(m)
           /\ answer.ready = ReadyGate(m) /\ answer.degraded = Degradation(m)
           /\ answer.score = ConfidenceScore(m)
           /\ answer.command = CommandState(m, u, in.tv.es)
           /\ answer.permitted = Permitted(m, u, in.tv.es)
           /\ answer.final = FinalState(m, u, ticks)
           /\ answer.share = Multiplier(m, u, ticks)
  BY DEF Answer, AnswerWith, AnswerOf

\* A dealer may be acted on, in a coherent picture, only beside a snapshot of
\* Theta that is live and not stale, and never in a mock scenario.
LEMMA ExecutableNeeds ==
    ASSUME NEW in, NEW n, n = Normalized(in), Coherence(n).executable, DealerExecutable(n.dealer)
    PROVE  /\ ~in.demo
           /\ in.theta # NoTheta
           /\ in.theta.status = "live"
           /\ ~(in.theta.age > ThetaStale)
  <1>1. ~n.demo /\ n.status \in {"live", "unavailable"}
    BY DEF Coherence
  <1>2. n.demo = in.demo /\ n.status = ThetaStatus(in.theta)
    BY DEF Normalized
  <1>3. in.theta # NoTheta
    <2>1. SUFFICES ASSUME in.theta = NoTheta PROVE FALSE
      OBVIOUS
    <2>2. n.dealer = NoDealer("unavailable")
      BY <2>1 DEF Normalized
    <2> QED
      BY <2>2 DEF DealerExecutable, NoDealer
  <1>4. ThetaStatus(in.theta) # "unavailable"
    <2>1. SUFFICES ASSUME ThetaStatus(in.theta) = "unavailable" PROVE FALSE
      OBVIOUS
    <2>2. PICK external : n.dealer = Conclusion(in.theta, external)
      BY <1>3 DEF Normalized
    <2>3. n.dealer = NoDealer("unavailable")
      BY <2>1, <2>2 DEF Conclusion
    <2> QED
      BY <2>3 DEF DealerExecutable, NoDealer
  <1>5. ThetaStatus(in.theta) = "live"
    BY <1>1, <1>2, <1>4
  <1>6. in.theta.status = "live" /\ ~(in.theta.age > ThetaStale)
    BY <1>3, <1>5 DEF ThetaStatus
  <1> QED
    BY <1>1, <1>2, <1>3, <1>6

\* What is permitted, whatever the inputs.
LEMMA NothingPermitted ==
    ASSUME NEW in, NEW m, m = Mastered(Normalized(in)), NEW u, NEW es, NEW ticks
    PROVE  /\ Permitted(m, u, es) = {} /\ Multiplier(m, u, ticks) = 0
           /\ ~ReadyGate(m)
           /\ ConfidenceScore(m) < 80
           /\ Degradation(m) # "DEGRADED_CANDIDATE"
           /\ CommandState(m, u, es) # "actionable"
  <1>1. ~m.sentinel.matched
    BY NothingMatches
  <1>2. Permitted(m, u, es) = {}
    BY <1>1 DEF Permitted
  <1>3. FinalState(m, u, ticks) # "actionable"
    BY <1>1 DEF FinalState
  <1>4. ~ReadyGate(m)
    BY <1>1 DEF ReadyGate
  <1>5. ConfidenceScore(m) < 80
    BY <1>1 DEF ConfidenceScore
  <1>6. Degradation(m) # "DEGRADED_CANDIDATE"
    BY <1>1 DEF Degradation
  <1>7. CommandState(m, u, es) # "actionable"
    BY DEF CommandState
  <1> QED
    BY <1>2, <1>3, <1>4, <1>5, <1>6, <1>7 DEF Multiplier

-----------------------------------------------------------------------------
(* The invariant of the route: the answer on its way was decided from what  *)
(* is stored now.                                                           *)

\* It holds of an empty store, ...
LEMMA FirstDashboard == Init => DashboardInv
  BY DashboardAssumption DEF Init, DashboardInv, NoTheta, Asked

\* ... a new snapshot has no age, ...
LEMMA NewIsNew ==
    ASSUME NEW snapshot
    PROVE  "age" \in DOMAIN New(snapshot) /\ New(snapshot).age = 0
  BY DEF New, With

\* ... and every step of the route keeps it.
LEMMA DashboardStep == DashboardInv /\ [Next]_vars => DashboardInv'
  <1> SUFFICES ASSUME DashboardInv, [Next]_vars PROVE DashboardInv'
    OBVIOUS
  <1> USE DEF DashboardInv, Asked
  <1>1. CASE \E event \in TvEvents : Webhook(event)
    BY <1>1 DEF Webhook
  <1>2. CASE \E chain \in Chains : BridgePush(chain)
    BY <1>2, NewIsNew DEF BridgePush
  <1>3. CASE BridgeFails
    BY <1>3, NewIsNew DEF BridgeFails
  <1>4. CASE \E f \in Feeds : Feed(f)
    BY <1>4 DEF Feed
  <1>5. CASE Tick
    <2>1. left' \in Nat /\ signal' = signal /\ feeds' = feeds /\ signal = NoSignal
      BY <1>5 DEF Tick
    <2>2. "age" \in DOMAIN theta' /\ theta'.age \in Nat
      BY <1>5 DEF Tick
    <2> QED
      BY <2>1, <2>2
  <1>6. CASE \E scenario \in {"live"} \cup DOMAIN Demos : Signal(scenario)
    <2>1. PICK scenario \in {"live"} \cup DOMAIN Demos : Signal(scenario)
      BY <1>6
    <2>2. /\ feeds' = feeds /\ left' = left /\ theta' = theta /\ tv' = tv
          /\ signal' = [scenario |-> scenario, answer |-> Answer(Input(scenario), feeds.uw, left)]
      BY <2>1 DEF Signal
    <2>3. Input(scenario)' = Input(scenario)
      BY <2>2 DEF Input, FmpNow
    <2>4. Answer(Input(scenario), feeds.uw, left)' = Answer(Input(scenario), feeds.uw, left)
      BY <2>2, <2>3
    <2> QED
      BY <2>2, <2>4
  <1>7. CASE Deliver
    BY <1>7 DEF Deliver
  <1>8. CASE UNCHANGED vars
    BY <1>8 DEF vars, Input, FmpNow
  <1> QED
    BY <1>1, <1>2, <1>3, <1>4, <1>5, <1>6, <1>7, <1>8 DEF Next

\* An answer on its way is the one to the question, whatever came before it.
THEOREM DashboardInvariant == Spec => []DashboardInv
  BY FirstDashboard, DashboardStep, PTL DEF Spec

-----------------------------------------------------------------------------
(* The properties of the answer.                                            *)

\* The record behind an answer on its way.
LEMMA AskedOf ==
    ASSUME DashboardInv, Asked
    PROVE  \E in, m :
              /\ m = Mastered(Normalized(in))
              /\ in.theta = theta /\ in.fmp = FmpNow
              /\ in.demo = (signal.scenario # "live")
              /\ ~in.demo => in.scenario = Default
              /\ signal.answer = Answer(in, feeds.uw, left)
  <1>1. PICK scenario \in {"live"} \cup DOMAIN Demos :
            signal = [scenario |-> scenario, answer |-> Answer(Input(scenario), feeds.uw, left)]
    BY DEF DashboardInv
  <1>2. signal.scenario = scenario /\ signal.answer = Answer(Input(scenario), feeds.uw, left)
    BY <1>1
  <1>3. /\ Input(scenario).theta = theta /\ Input(scenario).fmp = FmpNow
        /\ Input(scenario).demo = (scenario # "live")
        /\ ~Input(scenario).demo => Input(scenario).scenario = Default
    BY DEF Input
  <1> QED
    BY <1>2, <1>3

\* A ready plan stands in an open environment.
LEMMA ReadyIsOpen ==
    ASSUME NEW in, NEW n, n = Normalized(in), NEW m, m = Mastered(n), m.plan.status = "ready"
    PROVE  /\ ~in.demo
           /\ in.theta # NoTheta /\ in.theta.status = "live" /\ ~(in.theta.age > ThetaStale)
           /\ RiskGate(n) # "blocked"
  BY ReadyNeeds, OpenNeeds, ExecutableNeeds

\* In no state of the route is a plan ready on a snapshot of Theta that was not
\* read in full within the last ThetaStale ticks.
THEOREM ReadyOnFreshTheta == Spec => []ReadyNeedsFreshTheta
  <1>1. DashboardInv => ReadyNeedsFreshTheta
    <2> SUFFICES ASSUME DashboardInv, PlanReady
                 PROVE  theta.status = "live" /\ theta.age <= ThetaStale
      BY DEF ReadyNeedsFreshTheta
    <2>1. PICK in, m : /\ m = Mastered(Normalized(in)) /\ in.theta = theta
                       /\ signal.answer = Answer(in, feeds.uw, left)
      BY AskedOf DEF PlanReady
    <2>2. m.plan.status = "ready"
      BY <2>1, AnswerTakes DEF PlanReady
    <2>3. theta.status = "live" /\ ~(theta.age > ThetaStale)
      BY <2>1, <2>2, ReadyIsOpen
    <2> QED
      BY <2>3, InputsAssumption DEF DashboardInv
  <1> QED
    BY <1>1, DashboardInvariant, PTL

\* A calendar with a high-impact event near closes the environment.
LEMMA EventsClose ==
    ASSUME NEW in, in.fmp.key = TRUE, in.fmp.up = TRUE,
           NEW e \in in.fmp.calendar, e.high, e.minutes \in -30 .. 180
    PROVE  RiskGate(Normalized(in)) = "blocked"
  <1>1. FmpRisk(in.fmp.calendar) = "high"
    BY DEF FmpRisk
  <1>2. FmpEvent(in.fmp).risk = "high" /\ FmpEvent(in.fmp).failed = FALSE
    BY <1>1 DEF FmpEvent
  <1>3. \A risk : EventRisk(FmpEvent(in.fmp), risk) = "high"
    BY <1>2 DEF EventRisk
  <1>4. Normalized(in).risk = "high"
    BY <1>3 DEF Normalized
  <1> QED
    BY <1>4 DEF RiskGate

\* In no state of the route is a plan ready beside a high-impact event of a
\* calendar that FMP delivers.
THEOREM EventsHoldPlans == Spec => []NoPlanNearEvents
  <1>1. DashboardInv => NoPlanNearEvents
    <2> SUFFICES ASSUME DashboardInv, PlanReady, feeds.fmp.key, feeds.fmp.up,
                        NEW e \in FmpNow.calendar, e.high, e.minutes \in -30 .. 180
                 PROVE  FALSE
      BY DEF NoPlanNearEvents
    <2>1. PICK in, m : /\ m = Mastered(Normalized(in)) /\ in.fmp = FmpNow
                       /\ signal.answer = Answer(in, feeds.uw, left)
      BY AskedOf DEF PlanReady
    <2>2. m.plan.status = "ready"
      BY <2>1, AnswerTakes DEF PlanReady
    <2>3. feeds.fmp \in [key : BOOLEAN, up : BOOLEAN, price : Int,
                         calendar : SUBSET [high : BOOLEAN, at : Int]]
      BY FeedsAssumption DEF DashboardInv
    <2>4. FmpNow.key = TRUE /\ FmpNow.up = TRUE
      BY <2>3 DEF FmpNow
    <2> QED
      BY <2>1, <2>2, <2>4, EventsClose, ReadyIsOpen
  <1> QED
    BY <1>1, DashboardInvariant, PTL

\* In no state of the route does a mock scenario have a plan, a permission or an
\* action.
THEOREM ScenariosDoNotTrade == Spec => []ScenarioNeverTrades
  <1>1. DashboardInv => ScenarioNeverTrades
    <2> SUFFICES ASSUME DashboardInv, Asked, ~Live
                 PROVE  /\ ~PlanReady /\ signal.answer.permitted = {}
                        /\ signal.answer.blank /\ signal.answer.action \in {"wait", "no_trade"}
      BY DEF ScenarioNeverTrades
    <2>1. PICK in, m : /\ m = Mastered(Normalized(in))
                       /\ in.demo = (signal.scenario # "live")
                       /\ signal.answer = Answer(in, feeds.uw, left)
      BY AskedOf
    <2>2. in.demo
      BY <2>1 DEF Live
    <2>3. ~EnvironmentAllows(Checked(Normalized(in)))
      BY <2>2, OpenNeeds, ExecutableNeeds
    <2>4. m.plan.status # "ready" /\ m.plan.action = "wait"
      BY <2>1, <2>3, ClosedWaits
    <2>5. /\ signal.answer.plan = m.plan /\ signal.answer.blank = CardsBlank(m)
          /\ signal.answer.action = RecommendedAction(m)
          /\ signal.answer.permitted = {}
      BY <2>1, AnswerTakes, NothingPermitted
    <2>6. CardsBlank(m)
      <3>1. m.open = EnvironmentAllows(Checked(Normalized(in)))
        BY <2>1, Stages
      <3> QED
        BY <2>3, <3>1 DEF CardsBlank
    <2>7. RecommendedAction(m) \in {"wait", "no_trade"}
      BY <2>4 DEF RecommendedAction
    <2> QED
      BY <2>4, <2>5, <2>6, <2>7 DEF PlanReady
  <1> QED
    BY <1>1, DashboardInvariant, PTL

\* In no state of the route does an answer authorise a trade.
THEOREM NoAuthorisation == Spec => []NothingIsAuthorised
  <1>1. DashboardInv => NothingIsAuthorised
    <2> SUFFICES ASSUME DashboardInv, Asked
                 PROVE  /\ signal.answer.permitted = {} /\ signal.answer.share = 0
                        /\ ~signal.answer.ready /\ signal.answer.score < 80
                        /\ signal.answer.degraded # "DEGRADED_CANDIDATE"
                        /\ signal.answer.command # "actionable"
      BY DEF NothingIsAuthorised
    <2>1. PICK in, m : /\ m = Mastered(Normalized(in))
                       /\ signal.answer = Answer(in, feeds.uw, left)
      BY AskedOf
    <2> QED
      BY <2>1, AnswerTakes, NothingPermitted
  <1> QED
    BY <1>1, DashboardInvariant, PTL

\* The biases of a live call are those that the default scenario leaves it.
LEMMA LiveBiases ==
    ASSUME NEW in, ~in.demo, in.scenario = Default
    PROVE  Normalized(in).biases =
              [flow |-> "unavailable", dark |-> "unavailable", dealer |-> "unavailable",
               vanna |-> "negative", charm |-> "negative"]
  <1> DEFINE base == Started(in.scenario, in.demo)
  <1>1. /\ base.flow = "unavailable" /\ base.dark = "unavailable" /\ base.dealer = "unavailable"
        /\ base.vanna = "negative" /\ base.charm = "negative"
    BY DefaultAssumption DEF Started
  <1> HIDE DEF base
  <1>2. Normalized(in).biases = [flow |-> base.flow, dark |-> base.dark, dealer |-> base.dealer,
                                 vanna |-> base.vanna, charm |-> base.charm]
    BY DEF Normalized, base
  <1> QED
    BY <1>1, <1>2

\* They count as a bearish flow.
LEMMA LiveFlowIsBearish ==
    ASSUME NEW o,
           o.biases = [flow |-> "unavailable", dark |-> "unavailable", dealer |-> "unavailable",
                       vanna |-> "negative", charm |-> "negative"]
    PROVE  RegimeBias(o) = "short"
  <1>1. BiasScore("unavailable") = 0 /\ BiasScore("negative") = -1
    BY DEF BiasScore
  <1>2. UwSignal(o) = "bearish_flow"
    BY <1>1 DEF UwSignal
  <1> QED
    BY <1>2 DEF RegimeBias

\* In no state of the route does a live answer have a ready plan that is long.
THEOREM LiveIsShort == Spec => []LivePlansAreShort
  <1>1. DashboardInv => LivePlansAreShort
    <2> SUFFICES ASSUME DashboardInv, Live, PlanReady
                 PROVE  DirectionOf(signal.answer.plan.code) = "bearish"
      BY DEF LivePlansAreShort
    <2>1. PICK in, m : /\ m = Mastered(Normalized(in))
                       /\ in.demo = (signal.scenario # "live")
                       /\ ~in.demo => in.scenario = Default
                       /\ signal.answer = Answer(in, feeds.uw, left)
      BY AskedOf DEF PlanReady
    <2> DEFINE n == Normalized(in)
               o == Opened(Checked(n))
               w == Watched(Biased(o))
    <2>2. m.plan.status = "ready" /\ signal.answer.plan = m.plan
      BY <2>1, AnswerTakes DEF PlanReady
    <2>3. EnvironmentAllows(Checked(n)) /\ m.plan.code \in PermittedCodes(w)
      BY <2>1, <2>2, ReadyNeeds
    <2>4. /\ \A f \in Fields : o[f] = n[f]
          /\ o.open = EnvironmentAllows(Checked(n)) /\ w.bias = Bias(o)
      BY Stages
    <2>5. o.biases = n.biases
      BY <2>4 DEF Fields
    <2>6. RegimeBias(o) = "short"
      BY <2>1, <2>5, LiveBiases, LiveFlowIsBearish DEF Live
    <2> HIDE DEF o, w
    <2>7. w.bias = "short"
      BY <2>3, <2>4, <2>6 DEF Bias
    <2>8. m.plan.code \in {"A_SHORT_RETEST", "B_SHORT_RETEST"}
      BY <2>3, <2>7 DEF PermittedCodes
    <2> QED
      BY <2>2, <2>8 DEF DirectionOf
  <1> QED
    BY <1>1, DashboardInvariant, PTL

\* The status of UW reaches the final decision.
LEMMA NotedStatus ==
    ASSUME NEW n, NEW uw, uw.provider = "unavailable"
    PROVE  Noted(n, Manned(uw)).note.status = "unavailable"
  <1> DEFINE u == Manned(uw)
             v == With(u, "activation", Activation(u))
  <1>1. u.provider = "unavailable"
    BY DEF Manned
  <1>2. Noted(n, u) = With(v, "note", NoteOf(n, u))
    BY DEF Noted
  <1> HIDE DEF u, v
  <1>3. Noted(n, u).note = NoteOf(n, u)
    BY <1>2 DEF With
  <1>4. NoteOf(n, u).status = "unavailable"
    BY <1>1 DEF NoteOf, UwConclusion
  <1> QED
    BY <1>3, <1>4 DEF u

\* A spot for the final decision is a price of FMP, and in a live call nothing
\* of Theta stands before it.
LEMMA SpotReadNeeds ==
    ASSUME NEW in, NEW m, m = Mastered(Normalized(in)), SpotRead(m) # Null
    PROVE  /\ in.fmp.key /\ in.fmp.price # Null
           /\ ~in.demo => in.theta = NoTheta
  <1>1. m.spotReal = Normalized(in).spotReal
    BY Stages DEF Fields
  <1>2. Normalized(in).spotReal
    BY <1>1 DEF SpotRead
  <1>3. ExternalSpot(in.theta, in.demo) = Null /\ FmpPrice(in.fmp) # Null
    BY <1>2 DEF Normalized
  <1>4. in.fmp.key /\ in.fmp.price # Null
    BY <1>3 DEF FmpPrice
  <1>5. ~in.demo => in.theta = NoTheta
    BY <1>3 DEF ExternalSpot, SafeNumber, Null
  <1> QED
    BY <1>4, <1>5

\* In no state of the route is the final decision unblocked without its grounds.
THEOREM UnblockedStands == Spec => []UnblockedIsGrounded
  <1>1. DashboardInv => UnblockedIsGrounded
    <2> SUFFICES ASSUME DashboardInv, Asked, signal.answer.final # "blocked"
                 PROVE  /\ ~PlanReady /\ (Live => theta = NoTheta) /\ left >= 3
                        /\ feeds.fmp.key /\ feeds.fmp.price # Null
                        /\ feeds.uw.provider # "unavailable"
      BY DEF UnblockedIsGrounded
    <2>1. PICK in, m : /\ m = Mastered(Normalized(in))
                       /\ in.theta = theta /\ in.fmp = FmpNow
                       /\ in.demo = (signal.scenario # "live")
                       /\ signal.answer = Answer(in, feeds.uw, left)
      BY AskedOf
    <2> DEFINE u == Noted(m, Manned(feeds.uw))
    <2>2. signal.answer.final = FinalState(m, u, left) /\ signal.answer.plan = m.plan
      BY <2>1, AnswerTakes
    <2>3. ~HealthStops(m, u, left)
      BY <2>2 DEF FinalState
    <2>4. ~(left < 3) /\ SpotRead(m) # Null /\ u.note.status # "unavailable"
      BY <2>3 DEF HealthStops
    <2>5. left >= 3
      BY <2>4 DEF DashboardInv
    <2>6. feeds.uw.provider # "unavailable"
      BY <2>4, NotedStatus
    <2>7. in.fmp.key /\ in.fmp.price # Null /\ (~in.demo => in.theta = NoTheta)
      BY <2>1, <2>4, SpotReadNeeds
    <2>8. feeds.fmp.key /\ feeds.fmp.price # Null
      <3>1. feeds.fmp \in [key : BOOLEAN, up : BOOLEAN, price : Int,
                           calendar : SUBSET [high : BOOLEAN, at : Int]]
        BY FeedsAssumption DEF DashboardInv
      <3>2. FmpNow.key = feeds.fmp.key /\ FmpNow.price = feeds.fmp.price
        BY <3>1 DEF FmpNow
      <3> QED
        BY <2>1, <2>7, <3>2
    <2>9. Live => theta = NoTheta
      BY <2>1, <2>7 DEF Live
    <2>10. ~PlanReady
      <3> SUFFICES ASSUME PlanReady PROVE FALSE
        OBVIOUS
      <3>1. m.plan.status = "ready"
        BY <2>2 DEF PlanReady
      <3> QED
        BY <2>1, <2>7, <3>1, ReadyIsOpen
    <2> QED
      BY <2>5, <2>6, <2>8, <2>9, <2>10
  <1> QED
    BY <1>1, DashboardInvariant, PTL

-----------------------------------------------------------------------------
(* The chain of orders.  What the parts of a page say.                      *)

\* The reading of the market on a page, its order, ...
LEMMA PageReads ==
    ASSUME NEW p, NEW s, NEW f, NEW t, NEW q,
           NEW j, j = Judged(p, s, f, q, Located(p, s)),
           NEW o, o = Ordered(s, f, t, j),
           NEW g, g = PageOf(p, s, f, t, q)
    PROVE  /\ g.status = o.order.status /\ g.a = o.order.a
           /\ g.behavior = j.flow.behavior /\ g.regime = j.regime
           /\ g.trust = j.trust /\ g.price = j.spot /\ g.early = j.early
           /\ g.d5 = t.history.d5 /\ g.trueFlow = o.trueFlow /\ g.gex = s.dealerGex
  BY DEF PageOf, PageOn, Page

\* ... what it lets execute, and its walls.
LEMMA PageShows ==
    ASSUME NEW p, NEW s, NEW f, NEW t, NEW q,
           NEW j, j = Judged(p, s, f, q, Located(p, s)),
           NEW o, o = Ordered(s, f, t, j),
           NEW g, g = PageOf(p, s, f, t, q)
    PROVE  /\ g.home = DisplayStatus(o.order, CardDirection(o.order, o.trigger, j.flow.behavior),
                                     o.market \in ForcedWait)
           /\ g.shows = HomeShowsDirection(g.home, j.flow)
           /\ g.planA = PlanState(o.order.a, ExecAllowed(g.home, j.flow, j.price.gateOpen),
                                  CapitalGate(j.flow, o.diverges))
           /\ g.planB = PlanState(o.order.b, ExecAllowed(g.home, j.flow, j.price.gateOpen),
                                  CapitalGate(j.flow, o.diverges))
           /\ g.windows = <<j.flow.short, j.flow.long>>
           /\ g.fresh = (~j.flow.shortFallback /\ ~j.flow.longFallback)
           /\ g.call = Gated(j.map, j.price.gateOpen).call
           /\ g.put = Gated(j.map, j.price.gateOpen).put
  BY DEF PageOf, PageOn, Page

\* The order of a page, ...
LEMMA OrderIs ==
    ASSUME NEW s, NEW f, NEW t, NEW j, NEW o, o = Ordered(s, f, t, j)
    PROVE  o.order = AbOrderOf(j.spot, j.atm, j.regime, j.flow.behavior, j.trust, f.call, f.put)
  BY DEF Ordered

\* ... and what the engines made of the place.
LEMMA JudgedIs ==
    ASSUME NEW p, NEW s, NEW f, NEW q, NEW at, NEW j, j = Judged(p, s, f, q, at)
    PROVE  /\ j.spot = at.price.price /\ j.price = at.price /\ j.atm = Atm(at.price.price)
           /\ j.map = at.map /\ j.early = at.early
           /\ \E in, regime : j.flow = FlowRead(in, q, regime, j.spot)
           /\ \E status, real, gex, lean, pin :
                  j.trust = ExecutionConfidence(j.spot, status, real, gex, lean, pin)
  BY DEF Judged

\* A ready order has a strike and the confidence it asks for, and its plan A is
\* that of a row of the matrix which has a direction.
LEMMA ReadyOrder ==
    ASSUME NEW spot, NEW atm, NEW regime, NEW behavior, NEW trust, NEW call, NEW put,
           NEW order, order = AbOrderOf(spot, atm, regime, behavior, trust, call, put),
           order.status = "ready"
    PROVE  /\ atm # Null /\ ~(trust < 40)
           /\ order.a = Matrix(regime, behavior)[1]
           /\ Matrix(regime, behavior)[1].direction # "WAIT"
  BY DEF AbOrderOf, Order

\* The rows of the matrix that have a direction.
LEMMA MatrixRows ==
    ASSUME NEW regime, NEW behavior, NEW a, a = Matrix(regime, behavior)[1], a.direction # "WAIT"
    PROVE  \/ regime = "positive" /\ behavior \in {"put_squeezed", "call_effective"} /\ a = BullPutSpread
           \/ regime = "positive" /\ behavior = "call_capped" /\ a = BearCallSpread
           \/ regime = "negative" /\ behavior = "call_effective" /\ a = LongCall
           \/ regime = "negative" /\ behavior = "put_effective" /\ a = LongPut
  BY DEF Matrix, WaitPlan

\* A home page that offers a trade offers the side of plan A of a ready order.
LEMMA OfferedSide ==
    ASSUME NEW order, NEW trigger, NEW behavior, NEW wait, NEW home,
           home = DisplayStatus(order, CardDirection(order, trigger, behavior), wait),
           home \in ReadyHomes,
           order.status = "ready" => order.a.direction \in {"BULLISH", "BEARISH"}
    PROVE  /\ order.status = "ready" /\ ~wait
           /\ home = "LONG_READY" => order.a.direction = "BULLISH"
           /\ home = "SHORT_READY" => order.a.direction = "BEARISH"
  BY DEF DisplayStatus, CardDirection, ReadyHomes

\* What a ready order stands on.
LEMMA ReadyPage ==
    ASSUME NEW p, NEW s, NEW f, NEW t, NEW q, NEW g, g = PageOf(p, s, f, t, q), g.status = "ready"
    PROVE  /\ g.price # Null /\ ~(g.trust < 40)
           /\ \/ /\ g.regime = "positive" /\ g.behavior \in {"put_squeezed", "call_effective"}
                 /\ g.a = BullPutSpread
              \/ g.regime = "positive" /\ g.behavior = "call_capped" /\ g.a = BearCallSpread
              \/ g.regime = "negative" /\ g.behavior = "call_effective" /\ g.a = LongCall
              \/ g.regime = "negative" /\ g.behavior = "put_effective" /\ g.a = LongPut
  <1>1. PICK j : j = Judged(p, s, f, q, Located(p, s))
    OBVIOUS
  <1>2. PICK o : o = Ordered(s, f, t, j)
    OBVIOUS
  <1>3. /\ g.status = o.order.status /\ g.a = o.order.a /\ g.behavior = j.flow.behavior
        /\ g.regime = j.regime /\ g.trust = j.trust /\ g.price = j.spot
    BY <1>1, <1>2, PageReads
  <1>4. o.order = AbOrderOf(j.spot, j.atm, j.regime, j.flow.behavior, j.trust, f.call, f.put)
    BY <1>2, OrderIs
  <1>5. j.atm = Atm(j.spot)
    BY <1>1, JudgedIs
  <1>6. /\ j.atm # Null /\ ~(j.trust < 40)
        /\ o.order.a = Matrix(j.regime, j.flow.behavior)[1]
        /\ o.order.a.direction # "WAIT"
    BY <1>3, <1>4, ReadyOrder
  <1>7. j.spot # Null
    BY <1>5, <1>6 DEF Atm
  <1> QED
    BY <1>3, <1>6, <1>7, MatrixRows

\* What the home page offers is on the side of plan A of a ready order, and the
\* market does not make it wait.
LEMMA OfferIsReady ==
    ASSUME NEW p, NEW s, NEW f, NEW t, NEW q,
           NEW j, j = Judged(p, s, f, q, Located(p, s)),
           NEW o, o = Ordered(s, f, t, j),
           NEW g, g = PageOf(p, s, f, t, q),
           g.home \in ReadyHomes
    PROVE  /\ g.status = "ready" /\ o.market \notin ForcedWait
           /\ g.home = "LONG_READY" => g.a.direction = "BULLISH"
           /\ g.home = "SHORT_READY" => g.a.direction = "BEARISH"
  <1>1. g.status = o.order.status /\ g.a = o.order.a
    BY PageReads
  <1>2. g.home = DisplayStatus(o.order, CardDirection(o.order, o.trigger, j.flow.behavior),
                               o.market \in ForcedWait)
    BY PageShows
  <1>3. o.order.status = "ready" => o.order.a.direction \in {"BULLISH", "BEARISH"}
    BY <1>1, ReadyPage DEF BullPutSpread, BearCallSpread, LongCall, LongPut
  <1>4. PICK wait : wait = (o.market \in ForcedWait)
    OBVIOUS
  <1>5. g.home = DisplayStatus(o.order, CardDirection(o.order, o.trigger, j.flow.behavior), wait)
    BY <1>2, <1>4
  <1>6. /\ o.order.status = "ready" /\ ~wait
        /\ g.home = "LONG_READY" => o.order.a.direction = "BULLISH"
        /\ g.home = "SHORT_READY" => o.order.a.direction = "BEARISH"
    BY <1>3, <1>5, OfferedSide
  <1> QED
    BY <1>1, <1>4, <1>6

\* A plan that may be executed is on a page that offers a trade.
LEMMA PlanNeedsOffer ==
    ASSUME NEW p, NEW s, NEW f, NEW t, NEW q,
           NEW j, j = Judged(p, s, f, q, Located(p, s)),
           NEW o, o = Ordered(s, f, t, j),
           NEW g, g = PageOf(p, s, f, t, q),
           "READY" \in {g.planA, g.planB}
    PROVE  /\ g.home \in ReadyHomes /\ g.shows /\ j.price.gateOpen
           /\ CapitalGate(j.flow, o.diverges) = "PASS"
  <1>1. /\ g.shows = HomeShowsDirection(g.home, j.flow)
        /\ g.planA = PlanState(o.order.a, ExecAllowed(g.home, j.flow, j.price.gateOpen),
                               CapitalGate(j.flow, o.diverges))
        /\ g.planB = PlanState(o.order.b, ExecAllowed(g.home, j.flow, j.price.gateOpen),
                               CapitalGate(j.flow, o.diverges))
    BY PageShows
  <1>2. \A plan, allowed, gate : PlanState(plan, allowed, gate) = "READY" => allowed /\ gate = "PASS"
    BY DEF PlanState
  <1>3. /\ ExecAllowed(g.home, j.flow, j.price.gateOpen)
        /\ CapitalGate(j.flow, o.diverges) = "PASS"
    BY <1>1, <1>2
  <1> QED
    BY <1>1, <1>3 DEF ExecAllowed, HomeShowsDirection

\* What a step does to the page: a fact about every page that is made, and
\* true of none, is an invariant of the chain.
LEMMA PageStep ==
    ASSUME ChainNext
    PROVE  \/ page' = page
           \/ page' = NoPage
           \/ \E p \in Prices, s \in Structures, f \in Flows, t \in Tapes :
                  page' = PageOf(p, s, f, t, queue)
  BY DEF ChainNext, ServePage, DeliverPage, AgeQueue

\* A page that is made obeys the flow.
LEMMA HomeObeysStep ==
    ASSUME NEW p, NEW s, NEW f, NEW t, page' = PageOf(p, s, f, t, queue)
    PROVE  HomeObeysFlow'
  <1>1. PICK j : j = Judged(p, s, f, queue, Located(p, s))
    OBVIOUS
  <1>2. PICK o : o = Ordered(s, f, t, j)
    OBVIOUS
  <1>3. PICK g : g = PageOf(p, s, f, t, queue)
    OBVIOUS
  <1>4. g.home \in ReadyHomes =>
            /\ g.status = "ready"
            /\ g.home = "LONG_READY" => g.a.direction = "BULLISH"
            /\ g.home = "SHORT_READY" => g.a.direction = "BEARISH"
    BY <1>1, <1>2, <1>3, OfferIsReady
  <1>5. g.planA = "READY" => g.home \in ReadyHomes
    BY <1>1, <1>2, <1>3, PlanNeedsOffer
  <1>6. g.status = "ready" =>
            /\ g.a.direction = "BULLISH" => "CALL" \notin Prohibited(g.behavior)
            /\ g.a.direction = "BEARISH" => "PUT" \notin Prohibited(g.behavior)
            /\ g.a.direction \in {"BULLISH", "BEARISH"}
    BY <1>3, ReadyPage DEF Prohibited, BullPutSpread, BearCallSpread, LongCall, LongPut
  <1>7. g.planA = "READY" => Bans(PlanSide(g.a)) \notin Prohibited(g.behavior)
    BY <1>4, <1>5, <1>6 DEF Bans, PlanSide
  <1> QED
    BY <1>3, <1>4, <1>6, <1>7 DEF HomeObeysFlow, ReadyHomes

(* The home page does not go against the prohibition of the flow (home-     *)
(* view-model-builder.js against flow-behavior-engine.js).                  *)
THEOREM HomeObeys == ChainSpec => []HomeObeysFlow
  <1>1. ChainInit => HomeObeysFlow
    BY DEF ChainInit, NoPage, HomeObeysFlow
  <1>2. HomeObeysFlow /\ [ChainNext]_chainVars => HomeObeysFlow'
    <2> SUFFICES ASSUME HomeObeysFlow, [ChainNext]_chainVars
                 PROVE  HomeObeysFlow'
      OBVIOUS
    <2>1. CASE page' = page
      BY <2>1 DEF HomeObeysFlow
    <2>2. CASE page' = NoPage
      BY <2>2 DEF HomeObeysFlow, NoPage
    <2> QED
      BY <2>1, <2>2, PageStep, HomeObeysStep DEF chainVars
  <1> QED
    BY <1>1, <1>2, PTL DEF ChainSpec

-----------------------------------------------------------------------------
\* The confidence of an execution is a number.
LEMMA ConfidenceIsInt ==
    ASSUME NEW spot, NEW status, NEW real, NEW gex, NEW lean, NEW pin
    PROVE  ExecutionConfidence(spot, status, real, gex, lean, pin) \in Int
  <1>1. \A x \in Int : Clamp(x, 0, 100) \in Int
    BY DEF Clamp
  <1> DEFINE b == IF real THEN 15 ELSE 0
             c == CASE status = "live" -> 15 [] status = "partial" -> 5 [] OTHER -> 0
             d == IF Abs(lean) >= 50 THEN 15 ELSE IF Abs(lean) >= 30 THEN 8 ELSE 0
             e == IF SafeNumber(gex) < -100 THEN 10 ELSE IF SafeNumber(gex) > 500 THEN -5 ELSE 0
             h == IF pin >= 70 THEN 20 ELSE IF pin >= 40 THEN 10 ELSE 0
  <1>2. b \in Int /\ c \in Int /\ d \in Int /\ e \in Int /\ h \in Int
    OBVIOUS
  <1>3. ExecutionConfidence(spot, status, real, gex, lean, pin)
            = IF spot = Null THEN 0 ELSE Clamp(40 + b + c + d + e - h, 0, 100)
    BY DEF ExecutionConfidence
  <1> HIDE DEF b, c, d, e, h
  <1>4. 40 + b + c + d + e - h \in Int
    BY <1>2
  <1> QED
    BY <1>1, <1>3, <1>4

\* A page that is made with a ready order has what it stands on.
LEMMA GroundedStep ==
    ASSUME NEW p, NEW s, NEW f, NEW t, page' = PageOf(p, s, f, t, queue)
    PROVE  ReadyIsGrounded'
  <1>1. PICK j : j = Judged(p, s, f, queue, Located(p, s))
    OBVIOUS
  <1>2. PICK o : o = Ordered(s, f, t, j)
    OBVIOUS
  <1>3. PICK g : g = PageOf(p, s, f, t, queue)
    OBVIOUS
  <1>4. g.trust = j.trust
    BY <1>1, <1>2, <1>3, PageReads
  <1>5. g.trust \in Int
    BY <1>1, <1>4, JudgedIs, ConfidenceIsInt
  <1>6. g.status = "ready" =>
            /\ g.price # Null /\ g.trust >= 40
            /\ g.regime \in {"positive", "negative"}
            /\ g.regime = "positive" => g.a.instrument = "spread"
    BY <1>3, <1>5, ReadyPage DEF BullPutSpread, BearCallSpread
  <1> QED
    BY <1>3, <1>6 DEF ReadyIsGrounded

(* A ready order has what it stands on (ab-order-engine.js).                *)
THEOREM ReadyStands == ChainSpec => []ReadyIsGrounded
  <1>1. ChainInit => ReadyIsGrounded
    BY DEF ChainInit, NoPage, ReadyIsGrounded
  <1>2. ReadyIsGrounded /\ [ChainNext]_chainVars => ReadyIsGrounded'
    <2> SUFFICES ASSUME ReadyIsGrounded, [ChainNext]_chainVars
                 PROVE  ReadyIsGrounded'
      OBVIOUS
    <2>1. CASE page' = page
      BY <2>1 DEF ReadyIsGrounded
    <2>2. CASE page' = NoPage
      BY <2>2 DEF ReadyIsGrounded, NoPage
    <2> QED
      BY <2>1, <2>2, PageStep, GroundedStep DEF chainVars
  <1> QED
    BY <1>1, <1>2, PTL DEF ChainSpec

-----------------------------------------------------------------------------
\* The gate of the price is open where there is a price.
LEMMA GateIsPrice ==
    ASSUME NEW p, NEW s
    PROVE  Located(p, s).price.gateOpen => Located(p, s).price.price # Null
  <1>1. \A in, live : ContractOf(in, live).gateOpen => ContractOf(in, live).price # Null
    BY DEF ContractOf
  <1>2. \E in : Located(p, s).price = Contract(in)
    BY DEF Located
  <1> QED
    BY <1>1, <1>2 DEF Contract

\* The directions of a window.
LEMMA WindowSays ==
    ASSUME NEW q, NEW span
    PROVE  Window(q, span).direction \in {"unknown", "bullish", "bearish", "flat"}
  <1>1. \A d, r : Direction(d, r) \in {"bullish", "bearish", "flat"}
    BY DEF Direction
  <1> QED
    BY <1>1 DEF Window

\* Windows that are aligned agree on a direction.
LEMMA AlignedAgree ==
    ASSUME NEW in, NEW q, NEW regime, NEW spot, NEW flow, flow = FlowRead(in, q, regime, spot),
           flow.aligned
    PROVE  <<flow.short, flow.long>> \in {<<"bullish", "bullish">>, <<"bearish", "bearish">>}
  <1> DEFINE x == Window(q, ShortWindow).direction
             y == Window(q, LongWindow).direction
  <1>1. flow.short = x /\ flow.long = y
    BY DEF FlowRead
  <1>2. {x, y} \cap {"unknown", "flat"} = {} /\ x = y
    BY DEF FlowRead
  <1>3. x \in {"unknown", "bullish", "bearish", "flat"}
    BY WindowSays
  <1> HIDE DEF x, y
  <1>4. x \in {"bullish", "bearish"}
    BY <1>2, <1>3
  <1> QED
    BY <1>1, <1>2, <1>4

\* A page that is made with a plan to execute is confirmed.
LEMMA ConfirmedStep ==
    ASSUME NEW p, NEW s, NEW f, NEW t, page' = PageOf(p, s, f, t, queue)
    PROVE  ExecutableIsConfirmed'
  <1>1. PICK j : j = Judged(p, s, f, queue, Located(p, s))
    OBVIOUS
  <1>2. PICK o : o = Ordered(s, f, t, j)
    OBVIOUS
  <1>3. PICK g : g = PageOf(p, s, f, t, queue)
    OBVIOUS
  <1> SUFFICES ASSUME "READY" \in {g.planA, g.planB}
               PROVE  /\ g.fresh
                      /\ g.windows \in {<<"bullish", "bullish">>, <<"bearish", "bearish">>}
                      /\ g.shows
                      /\ g.price # Null
    BY <1>3 DEF ExecutableIsConfirmed
  <1>4. g.shows /\ j.price.gateOpen /\ CapitalGate(j.flow, o.diverges) = "PASS"
    BY <1>1, <1>2, <1>3, PlanNeedsOffer
  <1>5. /\ ~j.flow.shortFallback /\ ~j.flow.longFallback /\ j.flow.aligned
    BY <1>4 DEF CapitalGate, WindowStatus
  <1>6. /\ g.windows = <<j.flow.short, j.flow.long>>
        /\ g.fresh = (~j.flow.shortFallback /\ ~j.flow.longFallback)
    BY <1>1, <1>2, <1>3, PageShows
  <1>7. g.windows \in {<<"bullish", "bullish">>, <<"bearish", "bearish">>}
    BY <1>1, <1>5, <1>6, JudgedIs, AlignedAgree
  <1>8. g.price = j.spot /\ j.spot = j.price.price /\ j.price = Located(p, s).price
    BY <1>1, <1>2, <1>3, PageReads, JudgedIs
  <1> QED
    BY <1>4, <1>5, <1>6, <1>7, <1>8, GateIsPrice

(* A plan that may be executed is confirmed by windows of its own, the page *)
(* and a price (capital-flow-reading-engine.js, home-view-model-builder.js). *)
THEOREM ExecutableStands == ChainSpec => []ExecutableIsConfirmed
  <1>1. ChainInit => ExecutableIsConfirmed
    BY DEF ChainInit, NoPage, ExecutableIsConfirmed
  <1>2. ExecutableIsConfirmed /\ [ChainNext]_chainVars => ExecutableIsConfirmed'
    <2> SUFFICES ASSUME ExecutableIsConfirmed, [ChainNext]_chainVars
                 PROVE  ExecutableIsConfirmed'
      OBVIOUS
    <2>1. CASE page' = page
      BY <2>1 DEF ExecutableIsConfirmed
    <2>2. CASE page' = NoPage
      BY <2>2 DEF ExecutableIsConfirmed, NoPage
    <2> QED
      BY <2>1, <2>2, PageStep, ConfirmedStep DEF chainVars
  <1> QED
    BY <1>1, <1>2, PTL DEF ChainSpec

-----------------------------------------------------------------------------
(* The walls of a page.                                                     *)

\* The order of the natural numbers as a relation.
Less == {ss \in Nat \X Nat : ss[1] < ss[2]}

\* A set of natural numbers that is not empty has a least member.
LEMMA LeastMember ==
    ASSUME NEW T \in SUBSET Nat, T # {}
    PROVE  \E m \in T : \A n \in T : m <= n
  <1>1. IsWellFoundedOn(Less, Nat)
    BY NatLessThanWellFounded DEF OpToRel, Less
  <1>2. PICK m \in T : \A n \in T : <<n, m>> \notin Less
    BY <1>1, WFMin
  <1>3. \A n \in T : ~(n < m)
    BY <1>2 DEF Less
  <1> QED
    BY <1>3

\* The first of the heaviest places of T.
Heaviest(i, T, weight) ==
    /\ i \in T
    /\ \A j \in T : weight[j] <= weight[i]
    /\ \A j \in T : j < i => weight[j] < weight[i]

\* Places that have weights have a first of the heaviest: the least bound of
\* places without one would be the last of these places, and that last place
\* outweighs the first of the heaviest of the others or it does not.
LEMMA FirstOfHeaviest ==
    ASSUME NEW n \in Nat, NEW T \in SUBSET (1 .. n), T # {},
           NEW weight, \A i \in T : weight[i] \in Int
    PROVE  \E i \in T : Heaviest(i, T, weight)
  <1> DEFINE Bad == {k \in Nat : \E S \in SUBSET (T \cap 1 .. k) :
                                     S # {} /\ \A i \in S : ~Heaviest(i, S, weight)}
  <1> SUFFICES ASSUME Bad # {}
               PROVE  FALSE
    <2>1. T \in SUBSET (T \cap 1 .. n)
      OBVIOUS
    <2> QED
      BY <2>1
  <1>1. PICK k \in Bad : \A m \in Bad : k <= m
    BY LeastMember
  <1>2. PICK S \in SUBSET (T \cap 1 .. k) : S # {} /\ \A i \in S : ~Heaviest(i, S, weight)
    OBVIOUS
  <1>3. k \in Nat /\ \A i \in S : i \in 1 .. k /\ weight[i] \in Int
    BY <1>2
  <1>4. k - 1 \in Nat /\ k - 1 \notin Bad
    <2> HIDE DEF Bad
    <2>1. k # 0
      <3>1. k = 0 => 1 .. k = {}
        BY <1>3
      <3> QED
        BY <1>2, <1>3, <3>1
    <2>2. k - 1 \in Nat /\ ~(k <= k - 1)
      BY <1>3, <2>1
    <2> QED
      BY <1>1, <2>2
  <1>5. k \in S
    <2> SUFFICES ASSUME k \notin S
                 PROVE  FALSE
      OBVIOUS
    <2>1. S \in SUBSET (T \cap 1 .. k - 1)
      BY <1>2, <1>3
    <2> QED
      BY <1>2, <1>4, <2>1
  <1>6. S \ {k} \in SUBSET (T \cap 1 .. k - 1)
    BY <1>2, <1>3
  <1>7. S \ {k} # {}
    <2> SUFFICES ASSUME S \ {k} = {}
                 PROVE  Heaviest(k, S, weight)
      BY <1>2, <1>5
    <2> QED
      BY <1>3, <1>5 DEF Heaviest
  <1>8. PICK i \in S \ {k} : Heaviest(i, S \ {k}, weight)
    BY <1>4, <1>6, <1>7
  <1> HIDE DEF Bad
  <1>9. CASE weight[i] < weight[k]
    <2>1. Heaviest(k, S, weight)
      BY <1>3, <1>5, <1>8, <1>9 DEF Heaviest
    <2> QED
      BY <1>2, <1>5, <2>1
  <1>10. CASE ~(weight[i] < weight[k])
    <2>1. Heaviest(i, S, weight)
      BY <1>3, <1>5, <1>8, <1>10 DEF Heaviest
    <2> QED
      BY <1>2, <2>1
  <1> QED
    BY <1>9, <1>10

\* ... which is the one that FirstHeaviest chooses.
LEMMA HeaviestIsIn ==
    ASSUME NEW n \in Nat, NEW T \in SUBSET (1 .. n), T # {},
           NEW weight, \A i \in T : weight[i] \in Int
    PROVE  FirstHeaviest(T, weight) \in T
  <1>1. \E i \in T : Heaviest(i, T, weight)
    BY FirstOfHeaviest
  <1> QED
    BY <1>1 DEF FirstHeaviest, Heaviest

\* The numbers of exposure rows.
LEMMA RowFields ==
    ASSUME NEW rows \in ExposureRows
    PROVE  /\ Len(rows) \in Nat /\ DOMAIN rows = 1 .. Len(rows)
           /\ \A i \in DOMAIN rows :
                  rows[i].strike \in Int /\ rows[i].call \in Int /\ rows[i].put \in Int
  <1> DEFINE Row == [strike : Int, call : Int, put : Int]
  <1>1. \A r \in Row : r.strike \in Int /\ r.call \in Int /\ r.put \in Int
    OBVIOUS
  <1> HIDE DEF Row
  <1>2. rows \in Seq(Row)
    BY DEF ExposureRows, Row
  <1>3. Len(rows) \in Nat /\ rows \in [1 .. Len(rows) -> Row]
    BY <1>2, LenProperties
  <1> QED
    BY <1>1, <1>3

\* A call wall lies above its gap, ...
LEMMA CallWallAbove ==
    ASSUME NEW rows \in ExposureRows, NEW spot, NEW gap, NEW reach,
           NEW wall, wall = CallWallWithin(rows, spot, gap, reach), wall # Null
    PROVE  wall \in Int /\ wall > spot + gap
  <1> DEFINE T == {i \in DOMAIN rows : /\ rows[i].strike > spot + gap
                                       /\ rows[i].strike <= spot + reach}
             weight == [i \in T |-> Abs(rows[i].call)]
             c == FirstHeaviest(T, weight)
  <1>1. Len(rows) \in Nat /\ DOMAIN rows = 1 .. Len(rows)
        /\ \A i \in DOMAIN rows : rows[i].strike \in Int /\ rows[i].call \in Int
    BY RowFields
  <1>2. T # {} /\ wall = rows[c].strike
    BY DEF CallWallWithin, Strongest
  <1>3. \A i \in T : weight[i] \in Int
    BY <1>1 DEF Abs
  <1>4. T \in SUBSET (1 .. Len(rows))
    BY <1>1
  <1> HIDE DEF weight
  <1>5. c \in T
    BY <1>1, <1>2, <1>3, <1>4, HeaviestIsIn
  <1> QED
    BY <1>1, <1>2, <1>5

\* ... a put wall below it.
LEMMA PutWallBelow ==
    ASSUME NEW rows \in ExposureRows, NEW spot, NEW gap, NEW reach,
           NEW wall, wall = PutWallWithin(rows, spot, gap, reach), wall # Null
    PROVE  wall \in Int /\ wall < spot - gap
  <1> DEFINE T == {i \in DOMAIN rows : /\ rows[i].strike < spot - gap
                                       /\ rows[i].strike >= spot - reach}
             weight == [i \in T |-> Abs(rows[i].put)]
             c == FirstHeaviest(T, weight)
  <1>1. Len(rows) \in Nat /\ DOMAIN rows = 1 .. Len(rows)
        /\ \A i \in DOMAIN rows : rows[i].strike \in Int /\ rows[i].put \in Int
    BY RowFields
  <1>2. T # {} /\ wall = rows[c].strike
    BY DEF PutWallWithin, Strongest
  <1>3. \A i \in T : weight[i] \in Int
    BY <1>1 DEF Abs
  <1>4. T \in SUBSET (1 .. Len(rows))
    BY <1>1
  <1> HIDE DEF weight
  <1>5. c \in T
    BY <1>1, <1>2, <1>3, <1>4, HeaviestIsIn
  <1> QED
    BY <1>1, <1>2, <1>5

\* The rows of a map, and its walls by the spot.
LEMMA MapIs ==
    ASSUME NEW p \in Prices, NEW s \in Structures, NEW map, map = Located(p, s).map,
           NEW spot, spot = Located(p, s).early
    PROVE  /\ spot = EarlySpot(p.raw, p.spxSource) /\ map.spot = spot
           /\ \E all \in ExposureRows :
                  /\ map.call     = IF spot = Null THEN Null ELSE CallWallWithin(all, spot, 5, 500)
                  /\ map.put      = IF spot = Null THEN Null ELSE PutWallWithin(all, spot, 5, 500)
                  /\ map.localPut = IF spot = Null THEN Null ELSE PutWallWithin(all, spot, 0, 30)
           /\ map.status = "valid" => map.call # Null /\ map.put # Null
           /\ \A open : Gated(map, open).call = IF open /\ map.status = "valid" THEN map.call ELSE Null
           /\ \A open : Gated(map, open).put = IF open /\ map.status = "valid" THEN map.put ELSE Null
  <1>1. spot = EarlySpot(p.raw, p.spxSource) /\ map = WallMap(spot, s.rows, s.spotRows)
    BY DEF Located
  <1>2. PICK all : all = IF s.rows # <<>> THEN s.rows ELSE s.spotRows
    OBVIOUS
  <1>3. all \in ExposureRows
    BY <1>2, DataAssumption
  <1>4. PICK call : call = IF spot = Null THEN Null ELSE CallWallWithin(all, spot, 5, 500)
    OBVIOUS
  <1>5. PICK put : put = IF spot = Null THEN Null ELSE PutWallWithin(all, spot, 5, 500)
    OBVIOUS
  <1>6. \E flip : map = WallMapOf(spot, all, call, put, flip)
    BY <1>1, <1>2, <1>4, <1>5 DEF WallMap
  <1>7. /\ map.spot = spot /\ map.call = call /\ map.put = put
        /\ map.localPut = IF spot = Null THEN Null ELSE PutWallWithin(all, spot, 0, 30)
        /\ map.status = "valid" => call # Null /\ put # Null
    BY <1>6 DEF WallMapOf
  <1>8. "call" \in DOMAIN map /\ "put" \in DOMAIN map
    BY <1>6 DEF WallMapOf
  <1>9. \A open : /\ Gated(map, open).call = IF open /\ map.status = "valid" THEN map.call ELSE Null
                  /\ Gated(map, open).put = IF open /\ map.status = "valid" THEN map.put ELSE Null
    BY <1>8 DEF Gated
  <1> QED
    BY <1>1, <1>3, <1>4, <1>5, <1>7, <1>9

\* The walls of a page that is made.
LEMMA WallsStep ==
    ASSUME NEW p \in Prices, NEW s \in Structures, NEW f, NEW t, page' = PageOf(p, s, f, t, queue)
    PROVE  WallsBracketSpot'
  <1>1. PICK j : j = Judged(p, s, f, queue, Located(p, s))
    OBVIOUS
  <1>2. PICK o : o = Ordered(s, f, t, j)
    OBVIOUS
  <1>3. PICK g : g = PageOf(p, s, f, t, queue)
    OBVIOUS
  <1>4. PICK map, spot : map = Located(p, s).map /\ spot = Located(p, s).early
    OBVIOUS
  <1>5. j.map = map /\ j.early = spot
    BY <1>1, <1>4, JudgedIs
  <1>6. PICK open : open = j.price.gateOpen
    OBVIOUS
  <1>7. /\ g.early = spot
        /\ g.call = Gated(map, open).call
        /\ g.put = Gated(map, open).put
    BY <1>1, <1>2, <1>3, <1>5, <1>6, PageReads, PageShows
  <1>8. {g.call, g.put} # {Null} =>
            g.call = map.call /\ g.put = map.put /\ map.call # Null /\ map.put # Null
    BY <1>4, <1>7, MapIs
  <1>9. /\ map.call # Null => map.call > spot + 5
        /\ map.put # Null => map.put < spot - 5
    BY <1>4, MapIs, CallWallAbove, PutWallBelow
  <1> QED
    BY <1>3, <1>7, <1>8, <1>9 DEF WallsBracketSpot

(* The walls of an answer lie on either side of its spot (dealer-wall-      *)
(* engine.js and the gate of getCurrentSignal).                             *)
THEOREM WallsBracket == ChainSpec => []WallsBracketSpot
  <1>1. ChainInit => WallsBracketSpot
    BY DEF ChainInit, NoPage, WallsBracketSpot
  <1>2. WallsBracketSpot /\ [ChainNext]_chainVars => WallsBracketSpot'
    <2> SUFFICES ASSUME WallsBracketSpot, [ChainNext]_chainVars
                 PROVE  WallsBracketSpot'
      OBVIOUS
    <2>1. CASE page' = page
      BY <2>1 DEF WallsBracketSpot
    <2>2. CASE page' = NoPage
      BY <2>2 DEF WallsBracketSpot, NoPage
    <2> QED
      BY <2>1, <2>2, PageStep, WallsStep DEF chainVars
  <1> QED
    BY <1>1, <1>2, PTL DEF ChainSpec

-----------------------------------------------------------------------------
(* Arranged rows, and the dark-pool clusters.                               *)

\* Places that have numbers as keys have all ranks: the places before a place
\* are fewer than those before any later one.
LEMMA AllRanks ==
    ASSUME NEW S \in SUBSET Int, IsFiniteSet(S), NEW key, \A i \in S : key[i] \in Int
    PROVE  \A k \in 1 .. Cardinality(S) :
               \E i \in S : Cardinality({j \in S : Before(key, j, i)}) = k - 1
  <1> DEFINE below(i) == {j \in S : Before(key, j, i)}
             n == Cardinality(S)
             rank == [i \in S |-> Cardinality(below(i))]
  <1>1. n \in Nat
    BY FS_CardinalityType
  <1>2. ASSUME NEW i \in S
        PROVE  /\ below(i) \in SUBSET S /\ i \notin below(i)
               /\ IsFiniteSet(below(i)) /\ Cardinality(below(i)) \in 0 .. n - 1
    <2>1. below(i) \in SUBSET S /\ i \notin below(i)
      BY DEF Before
    <2> HIDE DEF below
    <2>2. IsFiniteSet(below(i)) /\ Cardinality(below(i)) <= Cardinality(S)
          /\ (Cardinality(S) = Cardinality(below(i)) => S = below(i))
      BY <2>1, FS_Subset
    <2>3. Cardinality(below(i)) \in Nat
      BY <2>2, FS_CardinalityType
    <2>4. S # below(i)
      BY <2>1
    <2>5. Cardinality(S) # Cardinality(below(i))
      BY <2>2, <2>4
    <2>6. Cardinality(below(i)) \in 0 .. n - 1
      BY <1>1, <2>2, <2>3, <2>5
    <2> QED
      BY <2>1, <2>2, <2>6
  <1>3. ASSUME NEW i \in S, NEW j \in S, Before(key, i, j)
        PROVE  rank[i] # rank[j]
    <2>1. below(i) \in SUBSET below(j) /\ i \in below(j)
      <3>1. /\ i \in Int /\ j \in Int /\ key[i] \in Int /\ key[j] \in Int
            /\ \A m \in S : m \in Int /\ key[m] \in Int
        OBVIOUS
      <3>2. \A m \in S : Before(key, m, i) => Before(key, m, j)
        BY <1>3, <3>1 DEF Before
      <3> QED
        BY <1>3, <3>2
    <2>2. IsFiniteSet(below(j)) /\ i \notin below(i)
      BY <1>2
    <2>3. rank[i] = Cardinality(below(i)) /\ rank[j] = Cardinality(below(j))
      OBVIOUS
    <2> HIDE DEF below, rank
    <2>4. below(j) # below(i)
      BY <2>1, <2>2
    <2>5. Cardinality(below(j)) = Cardinality(below(i)) => below(j) = below(i)
      BY <2>1, <2>2, FS_Subset
    <2> QED
      BY <2>3, <2>4, <2>5
  <1>4. \A i, j \in S : i # j => Before(key, i, j) \/ Before(key, j, i)
    BY DEF Before
  <1> HIDE DEF below
  <1>5. rank \in Injection(S, 0 .. n - 1)
    <2>1. rank \in [S -> 0 .. n - 1]
      BY <1>2
    <2>2. \A i, j \in S : rank[i] = rank[j] => i = j
      BY <1>3, <1>4
    <2> QED
      BY <2>1, <2>2 DEF Injection, IsInjective
  <1>6. IsFiniteSet(0 .. n - 1) /\ Cardinality(0 .. n - 1) = n
    <2> HIDE DEF n
    <2>1. n - 1 \in Int /\ (0 > n - 1 => n = 0) /\ (~(0 > n - 1) => n - 1 - 0 + 1 = n)
      BY <1>1
    <2> QED
      BY <2>1, FS_Interval
  <1>7. rank \in Surjection(S, 0 .. n - 1)
    BY <1>5, <1>6, FS_Injection
  <1>8. \A m \in 0 .. n - 1 : \E i \in S : rank[i] = m
    BY <1>7 DEF Surjection
  <1> HIDE DEF rank
  <1>9. \A k \in 1 .. n : k - 1 \in 0 .. n - 1
    BY <1>1
  <1> QED
    BY <1>8, <1>9 DEF rank, below

\* Arranged rows are rows of the places they were taken from.
LEMMA ArrangedRows ==
    ASSUME NEW S \in SUBSET Int, IsFiniteSet(S), NEW key, \A i \in S : key[i] \in Int,
           NEW rows, NEW R, \A i \in S : rows[i] \in R
    PROVE  Arranged(rows, S, key) \in Seq(R)
  <1> DEFINE at(k) == CHOOSE i \in S : Cardinality({j \in S : Before(key, j, i)}) = k - 1
             n == Cardinality(S)
  <1>1. n \in Nat
    BY FS_CardinalityType
  <1>2. \A k \in 1 .. n : at(k) \in S
    BY AllRanks
  <1>3. Arranged(rows, S, key) = [k \in 1 .. n |-> rows[at(k)]]
    BY DEF Arranged
  <1> HIDE DEF at, n
  <1>4. Arranged(rows, S, key) \in [1 .. n -> R]
    BY <1>2, <1>3
  <1> QED
    BY <1>1, <1>4, SeqDef

\* The places of rows are finitely many numbers.
LEMMA Places ==
    ASSUME NEW R, NEW rows \in Seq(R), NEW S \in SUBSET DOMAIN rows
    PROVE  /\ DOMAIN rows = 1 .. Len(rows) /\ Len(rows) \in Nat
           /\ S \in SUBSET Int /\ IsFiniteSet(S)
           /\ \A i \in S : rows[i] \in R
  <1>1. Len(rows) \in Nat /\ rows \in [1 .. Len(rows) -> R]
    BY LenProperties
  <1>2. IsFiniteSet(1 .. Len(rows))
    BY <1>1, FS_Interval
  <1> QED
    BY <1>1, <1>2, FS_Subset

\* Prints of at least a million at a level.
LargePrint == [level : Int, premium : {x \in Int : x >= 10}]

\* ... are what the engine clusters.
LEMMA LargePrintsAre ==
    ASSUME NEW levels \in PrintLevels
    PROVE  LargePrints(<<>>, levels) \in Seq(LargePrint)
  <1> DEFINE large(rows) == {i \in DOMAIN rows : /\ rows[i].level # Null
                                                 /\ rows[i].premium >= 10}
             Row == [level : Int, premium : Int]
             raw == [i \in DOMAIN <<>> |-> [level |-> Mapped(<<>>[i]), premium |-> <<>>[i].premium]]
             low == [i \in DOMAIN levels |->
                        [level |-> Scaled(levels[i]), premium |-> levels[i].premium]]
  <1>1. ASSUME NEW rows \in Seq(Row)
        PROVE  Picked(rows, large(rows)) \in Seq(LargePrint)
    <2> HIDE DEF Row
    <2>1. large(rows) \in SUBSET DOMAIN rows
      OBVIOUS
    <2>2. large(rows) \in SUBSET Int /\ IsFiniteSet(large(rows)) /\ \A i \in large(rows) : rows[i] \in Row
      BY <2>1, Places
    <2>3. \A r \in Row : r.premium >= 10 => r \in LargePrint
      BY DEF LargePrint, Row
    <2>4. \A i \in large(rows) : rows[i] \in LargePrint
      BY <2>2, <2>3
    <2> HIDE DEF large
    <2> DEFINE none == [i \in large(rows) |-> 0]
    <2>5. \A i \in large(rows) : none[i] \in Int
      OBVIOUS
    <2>6. Picked(rows, large(rows)) = Arranged(rows, large(rows), none)
      BY DEF Picked
    <2> HIDE DEF none
    <2> QED
      BY <2>2, <2>4, <2>5, <2>6, ArrangedRows
  <1>2. raw \in Seq(Row)
    <2>1. DOMAIN <<>> = {} 
      OBVIOUS
    <2>2. raw = <<>>
      BY <2>1
    <2> QED
      BY <2>2
  <1>3. low \in Seq(Row)
    <2> DEFINE Level == [price : Int, premium : Int]
    <2>1. levels \in Seq(Level)
      BY DEF PrintLevels
    <2>2. Len(levels) \in Nat /\ levels \in [1 .. Len(levels) -> Level]
      BY <2>1, LenProperties
    <2>3. \A l \in Level : [level |-> Scaled(l), premium |-> l.premium] \in Row
      BY DEF Scaled, Null
    <2>4. low \in [1 .. Len(levels) -> Row]
      BY <2>2, <2>3
    <2> HIDE DEF Level, Row, low
    <2> QED
      BY <2>2, <2>4, SeqDef
  <1>4. LargePrints(<<>>, levels) \in {Picked(raw, large(raw)), Picked(low, large(low))}
    BY DEF LargePrints
  <1> HIDE DEF raw, low, large
  <1> QED
    BY <1>1, <1>2, <1>3, <1>4

\* A weighted mean, rounded down, lies between the two.
LEMMA MeanBetween ==
    ASSUME NEW c \in Int, NEW l \in Int, NEW w \in Nat \ {0}, NEW p \in Nat \ {0},
           NEW q, q = (c * w + l * p) \div (w + p)
    PROVE  q \in Int /\ (c <= l => c <= q /\ q <= l) /\ (l <= c => l <= q /\ q <= c)
  <1> DEFINE t == w + p
             x == c * w + l * p
  <1>1. t \in Nat \ {0} /\ x \in Int
    OBVIOUS
  <1>2. x = c * t + (l - c) * p /\ x = l * t + (c - l) * w
    OBVIOUS
  <1>3. c <= l => c * t <= x /\ x <= l * t
    <2>1. c <= l => (l - c) * p >= 0 /\ (c - l) * w <= 0
      OBVIOUS
    <2> QED
      BY <1>1, <1>2, <2>1
  <1>4. l <= c => l * t <= x /\ x <= c * t
    <2>1. l <= c => (l - c) * p <= 0 /\ (c - l) * w >= 0
      OBVIOUS
    <2> QED
      BY <1>1, <1>2, <2>1
  <1> HIDE DEF t, x
  <1>5. q = x \div t
    BY DEF t, x
  <1>6. q \in Int /\ q * t <= x /\ x < (q + 1) * t
    BY <1>1, <1>5
  <1>7. \A y \in Int : (x <= y * t => q <= y) /\ (y * t <= x => y <= q)
    <2> SUFFICES ASSUME NEW y \in Int
                 PROVE  (x <= y * t => q <= y) /\ (y * t <= x => y <= q)
      OBVIOUS
    <2>1. q > y => q * t >= (y + 1) * t
      BY <1>1, <1>6
    <2>2. y > q => y * t >= (q + 1) * t
      BY <1>1, <1>6
    <2>3. (y + 1) * t > y * t
      BY <1>1
    <2> QED
      BY <1>1, <1>6, <2>1, <2>2, <2>3
  <1> QED
    BY <1>3, <1>4, <1>6, <1>7

\* Clusters each of which is near a level that traded.
Cluster == [center : Int, premium : {x \in Int : x >= 1}]
NearLevel(center, P) == \E l \in P : Abs(l - center) <= 5
AllTraded(clusters, P) ==
    /\ clusters \in Seq(Cluster)
    /\ \A i \in DOMAIN clusters : NearLevel(clusters[i].center, P)

\* A print that joins keeps them so: the center it moves stays between where it
\* was and the print, which was within five points of it.
LEMMA JoinedTraded ==
    ASSUME NEW P, NEW clusters, AllTraded(clusters, P), NEW print \in LargePrint, print.level \in P
    PROVE  AllTraded(Joined(clusters, print), P)
  <1> DEFINE near  == {i \in DOMAIN clusters : Abs(clusters[i].center - print.level) <= 5}
             at    == CHOOSE i \in near : \A j \in near : i <= j
             old   == clusters[at]
             total == old.premium + print.premium
             mean  == (old.center * old.premium + print.level * print.premium) \div total
             opened == [center |-> print.level, premium |-> print.premium]
             moved  == [center |-> mean, premium |-> total]
  <1>1. /\ Len(clusters) \in Nat /\ DOMAIN clusters = 1 .. Len(clusters)
        /\ \A i \in DOMAIN clusters : clusters[i] \in Cluster
    BY LenProperties DEF AllTraded
  <1>2. /\ print.level \in Int /\ print.premium \in Nat \ {0}
        /\ \A c \in Cluster : c.center \in Int /\ c.premium \in Nat \ {0}
    BY DEF LargePrint, Cluster
  <1>3. CASE near = {}
    <2>1. Joined(clusters, print) = Append(clusters, opened)
      BY <1>3 DEF Joined
    <2>2. opened \in Cluster
      BY <1>2 DEF Cluster
    <2>3. NearLevel(opened.center, P)
      BY <1>2 DEF NearLevel, Abs
    <2> HIDE DEF opened
    <2> DEFINE longer == Append(clusters, opened)
    <2>4. /\ longer \in Seq(Cluster) /\ Len(longer) = Len(clusters) + 1
          /\ \A i \in 1 .. Len(clusters) : longer[i] = clusters[i]
          /\ longer[Len(clusters) + 1] = opened
      BY <2>2, AppendProperties DEF AllTraded
    <2> HIDE DEF longer
    <2>5. DOMAIN longer = 1 .. Len(clusters) + 1
      BY <2>4, LenProperties
    <2>6. \A i \in DOMAIN longer : NearLevel(longer[i].center, P)
      BY <1>1, <2>3, <2>4, <2>5 DEF AllTraded
    <2> QED
      BY <2>1, <2>4, <2>6 DEF AllTraded, longer
  <1>4. CASE near # {}
    <2>1. Joined(clusters, print) = [clusters EXCEPT ![at] = moved]
      BY <1>4 DEF Joined
    <2>2. at \in near
      <3>1. near \in SUBSET Nat
        BY <1>1
      <3> HIDE DEF near
      <3> QED
        BY <1>4, <3>1, LeastMember
    <2>3. /\ at \in DOMAIN clusters /\ old \in Cluster
          /\ Abs(old.center - print.level) <= 5
      BY <1>1, <2>2
    <2> HIDE DEF near, at, old
    <2>4. old.center \in Int /\ old.premium \in Nat \ {0}
      BY <1>2, <2>3
    <2>5. /\ mean \in Int
          /\ old.center <= print.level => old.center <= mean /\ mean <= print.level
          /\ print.level <= old.center => print.level <= mean /\ mean <= old.center
      <3> DEFINE c == old.center
                 w == old.premium
                 l == print.level
                 p == print.premium
      <3>1. mean = (c * w + l * p) \div (w + p)
        OBVIOUS
      <3>2. c \in Int /\ l \in Int /\ w \in Nat \ {0} /\ p \in Nat \ {0}
        BY <1>2, <2>4
      <3> HIDE DEF mean, c, w, l, p
      <3>3. mean \in Int /\ (c <= l => c <= mean /\ mean <= l) /\ (l <= c => l <= mean /\ mean <= c)
        BY <3>1, <3>2, MeanBetween
      <3> QED
        BY <3>3 DEF c, l
    <2>6. total \in {x \in Int : x >= 1}
      BY <1>2, <2>4
    <2> HIDE DEF mean, total
    <2>7. moved \in Cluster
      BY <2>5, <2>6 DEF Cluster
    <2>8. Abs(print.level - mean) <= 5
      BY <1>2, <2>3, <2>4, <2>5 DEF Abs
    <2>9. NearLevel(moved.center, P)
      BY <2>8 DEF NearLevel
    <2> HIDE DEF moved
    <2> DEFINE after == [clusters EXCEPT ![at] = moved]
    <2>10. /\ DOMAIN after = DOMAIN clusters
           /\ \A i \in DOMAIN clusters : after[i] = IF i = at THEN moved ELSE clusters[i]
      BY <1>1
    <2> HIDE DEF after
    <2>11. after \in [1 .. Len(clusters) -> Cluster]
      <3>1. after = [i \in DOMAIN clusters |-> IF i = at THEN moved ELSE clusters[i]]
        BY DEF after
      <3> QED
        BY <1>1, <2>7, <3>1
    <2>12. after \in Seq(Cluster)
      BY <1>1, <2>11, SeqDef
    <2>13. \A i \in DOMAIN after : NearLevel(after[i].center, P)
      BY <2>9, <2>10 DEF AllTraded
    <2> QED
      BY <2>1, <2>12, <2>13 DEF AllTraded, after
  <1> QED
    BY <1>3, <1>4

\* The clusters after each print: the function that Clusters defines exists, for
\* the least number of prints without one would have one by one print more.
LEMMA ClustersExist ==
    ASSUME NEW n \in Nat, NEW sorted
    PROVE  \E f : f = [k \in 0 .. n |-> IF k = 0 THEN <<>> ELSE Joined(f[k - 1], sorted[k])]
  <1> DEFINE Step(f, k) == IF k = 0 THEN <<>> ELSE Joined(f[k - 1], sorted[k])
             Has(m) == \E f : f = [k \in 0 .. m |-> Step(f, k)]
             Bad == {m \in Nat : ~Has(m)}
  <1> SUFFICES ASSUME Bad # {}
               PROVE  FALSE
    OBVIOUS
  <1>1. PICK m \in Bad : \A x \in Bad : m <= x
    BY LeastMember
  <1>2. m \in Nat /\ ~Has(m)
    OBVIOUS
  <1>3. m # 0
    <2> SUFFICES ASSUME m = 0
                 PROVE  Has(0)
      BY <1>2
    <2> DEFINE f == [k \in 0 .. 0 |-> <<>>]
    <2>1. \A k \in 0 .. 0 : k = 0
      OBVIOUS
    <2>2. f = [k \in 0 .. 0 |-> Step(f, k)]
      BY <2>1
    <2> QED
      BY <2>2
  <1>4. m - 1 \in Nat /\ Has(m - 1)
    <2> HIDE DEF Has
    <2>1. m - 1 \in Nat /\ ~(m <= m - 1)
      BY <1>2, <1>3
    <2> QED
      BY <1>1, <2>1
  <1>5. PICK g : g = [k \in 0 .. m - 1 |-> Step(g, k)]
    BY <1>4
  <1> DEFINE last == Joined(g[m - 1], sorted[m])
             f == [k \in 0 .. m |-> IF k = m THEN last ELSE g[k]]
  <1>6. \A k \in 0 .. m : f[k] = Step(f, k)
    <2> SUFFICES ASSUME NEW k \in 0 .. m
                 PROVE  f[k] = Step(f, k)
      OBVIOUS
    <2>1. CASE k = m
      <3>1. m - 1 \in 0 .. m /\ m - 1 # m
        BY <1>2, <1>3
      <3>2. f[m - 1] = g[m - 1]
        BY <3>1
      <3>3. f[m] = last
        BY <1>2
      <3> HIDE DEF f
      <3> QED
        BY <1>3, <2>1, <3>2, <3>3
    <2>2. CASE k # m
      <3>1. k \in 0 .. m - 1 /\ f[k] = g[k]
        BY <1>2, <2>2
      <3>2. g[k] = Step(g, k)
        BY <1>5, <3>1
      <3>3. k # 0 => f[k - 1] = g[k - 1]
        BY <1>2, <2>2
      <3> HIDE DEF f
      <3> QED
        BY <3>1, <3>2, <3>3
    <2> QED
      BY <2>1, <2>2
  <1>7. f = [k \in 0 .. m |-> f[k]]
    OBVIOUS
  <1>8. f = [k \in 0 .. m |-> Step(f, k)]
    <2> HIDE DEF f, Step
    <2> QED
      BY <1>6, <1>7
  <1> QED
    BY <1>2, <1>8

\* However prints join, each cluster is near one of them.
LEMMA ClustersTraded ==
    ASSUME NEW prints \in Seq(LargePrint)
    PROVE  AllTraded(Clusters(prints), {prints[i].level : i \in DOMAIN prints})
  <1> DEFINE P      == {prints[i].level : i \in DOMAIN prints}
             Traded == {x \in LargePrint : x.level \in P}
             level  == [i \in DOMAIN prints |-> prints[i].level]
             sorted == SortedBy(prints, level)
             n      == Len(sorted)
             f      == CHOOSE f : f = [k \in 0 .. n |->
                                          IF k = 0 THEN <<>> ELSE Joined(f[k - 1], sorted[k])]
             Bad    == {k \in 0 .. n : ~AllTraded(f[k], P)}
  <1>1. Clusters(prints) = f[n]
    BY DEF Clusters
  <1>2. sorted \in Seq(Traded)
    <2> DEFINE places == DOMAIN prints
    <2>1. /\ places \in SUBSET Int /\ IsFiniteSet(places)
          /\ \A i \in places : prints[i] \in LargePrint
      BY Places
    <2>2. \A i \in places : level[i] \in Int /\ prints[i] \in Traded
      BY <2>1 DEF LargePrint
    <2>3. sorted = Arranged(prints, places, level)
      BY DEF SortedBy
    <2> HIDE DEF places, sorted, level, Traded
    <2> QED
      BY <2>1, <2>2, <2>3, ArrangedRows
  <1> HIDE DEF sorted
  <1>3. n \in Nat /\ \A k \in 1 .. n : sorted[k] \in Traded
    <2> HIDE DEF Traded
    <2> QED
      BY <1>2, LenProperties
  <1>4. f = [k \in 0 .. n |-> IF k = 0 THEN <<>> ELSE Joined(f[k - 1], sorted[k])]
    <2> HIDE DEF n
    <2> QED
      BY <1>3, ClustersExist
  <1> HIDE DEF f, n, P
  <1>5. f[0] = <<>> /\ \A k \in 1 .. n : f[k] = Joined(f[k - 1], sorted[k])
    BY <1>3, <1>4
  <1>6. AllTraded(f[0], P)
    BY <1>5 DEF AllTraded
  <1>7. ASSUME NEW k \in 1 .. n, AllTraded(f[k - 1], P)
        PROVE  AllTraded(f[k], P)
    BY <1>3, <1>5, <1>7, JoinedTraded
  <1>8. Bad = {}
    <2> SUFFICES ASSUME Bad # {}
                 PROVE  FALSE
      OBVIOUS
    <2>1. Bad \in SUBSET Nat
      BY <1>3
    <2>2. PICK m \in Bad : \A x \in Bad : m <= x
      BY <2>1, LeastMember
    <2>3. m # 0
      BY <1>6, <2>2
    <2>4. m \in 1 .. n /\ m - 1 \in 0 .. n /\ ~(m <= m - 1)
      BY <1>3, <2>2, <2>3
    <2>5. AllTraded(f[m - 1], P)
      BY <2>2, <2>4
    <2> QED
      BY <1>7, <2>2, <2>4, <2>5
  <1> QED
    <2>1. AllTraded(f[n], P)
      BY <1>3, <1>8
    <2> QED
      BY <1>1, <2>1 DEF P

\* The cluster a reading is about is one of them, and on a side of the spot.
LEMMA PrimaryIs ==
    ASSUME NEW P, NEW clusters, AllTraded(clusters, P), NEW spot,
           NEW at, at = Primary(clusters, spot), at # Null
    PROVE  /\ at \in DOMAIN clusters
           /\ ClusterBehavior(clusters[at].center, spot)
                  \in {"breakout", "breakdown", "support", "resistance"}
  <1> DEFINE on(kinds) == {i \in DOMAIN clusters :
                              ClusterBehavior(clusters[i].center, spot) \in kinds}
             crossed == on({"breakout", "breakdown"})
             among   == IF crossed # {} THEN crossed ELSE on({"support", "resistance"})
             weight  == [i \in among |-> clusters[i].premium]
  <1>1. among # {} /\ at = FirstHeaviest(among, weight)
    BY DEF Primary
  <1>2. /\ Len(clusters) \in Nat /\ DOMAIN clusters = 1 .. Len(clusters)
        /\ \A i \in DOMAIN clusters : clusters[i] \in Cluster
    BY LenProperties DEF AllTraded
  <1>3. \A c \in Cluster : c.premium \in Int
    BY DEF Cluster
  <1>4. /\ among \in SUBSET DOMAIN clusters
        /\ \A i \in among : ClusterBehavior(clusters[i].center, spot)
                                 \in {"breakout", "breakdown", "support", "resistance"}
    OBVIOUS
  <1> HIDE DEF among
  <1>5. at \in among
    BY <1>1, <1>2, <1>3, <1>4, HeaviestIsIn
  <1> QED
    BY <1>4, <1>5

\* A reading names a level only at a print, and says on which side of the spot.
LEMMA ReadIsTraded ==
    ASSUME NEW prints \in Seq(LargePrint), NEW spot,
           NEW read, read = DarkpoolRead(prints, spot), read.level # Null
    PROVE  /\ spot # Null
           /\ \E i \in DOMAIN prints : Abs(prints[i].level - read.level) <= 5
           /\ IF read.behavior \in {"support", "breakout"}
              THEN read.level < spot ELSE read.level > spot
  <1> DEFINE P  == {prints[i].level : i \in DOMAIN prints}
             cs == Clusters(prints)
             at == Primary(cs, spot)
             c  == cs[at].center
  <1>1. AllTraded(cs, P)
    BY ClustersTraded
  <1> HIDE DEF cs
  <1>2. read = ReadOf(prints, cs, at, spot)
    BY DEF DarkpoolRead, cs
  <1> HIDE DEF at
  <1>3. /\ spot # Null /\ at # Null
        /\ read.level = c /\ read.behavior = ClusterBehavior(c, spot)
    BY <1>2 DEF ReadOf
  <1>4. /\ at \in DOMAIN cs
        /\ ClusterBehavior(c, spot) \in {"breakout", "breakdown", "support", "resistance"}
    BY <1>1, <1>3, PrimaryIs DEF at
  <1>5. \E l \in P : Abs(l - c) <= 5
    BY <1>1, <1>4 DEF AllTraded, NearLevel
  <1> HIDE DEF c
  <1>6. IF ClusterBehavior(c, spot) \in {"support", "breakout"} THEN c < spot ELSE c > spot
    BY <1>4 DEF ClusterBehavior
  <1> QED
    BY <1>3, <1>5, <1>6

\* What a page says of the dark pools.
LEMMA PageReadsDark ==
    ASSUME NEW p, NEW s, NEW f, NEW t, NEW q, NEW j, NEW o, NEW g, g = Page(p, s, f, t, q, j, o)
    PROVE  /\ g.prints = LargePrints(<<>>, s.levels)
           /\ g.dark = DarkpoolRead(g.prints, j.spot)
           /\ g.price = j.spot
  BY DEF Page

\* A page that is made has such a reading.
LEMMA LevelStep ==
    ASSUME NEW p \in Prices, NEW s \in Structures, NEW f, NEW t, page' = PageOf(p, s, f, t, queue)
    PROVE  DarkpoolLevelIsTraded'
  <1>1. PICK j : j = Judged(p, s, f, queue, Located(p, s))
    OBVIOUS
  <1>2. PICK o : o = Ordered(s, f, t, j)
    OBVIOUS
  <1>3. PICK g : g = PageOf(p, s, f, t, queue)
    OBVIOUS
  <1>4. g = Page(p, s, f, t, queue, j, o)
    BY <1>1, <1>2, <1>3 DEF PageOf, PageOn
  <1>5. g.dark = DarkpoolRead(g.prints, j.spot) /\ g.price = j.spot
    BY <1>4, PageReadsDark
  <1>6. g.prints \in Seq(LargePrint)
    BY <1>4, PageReadsDark, LargePrintsAre, DataAssumption
  <1>7. g.dark.level # Null =>
            /\ g.price # Null
            /\ \E i \in DOMAIN g.prints : Abs(g.prints[i].level - g.dark.level) <= 5
            /\ IF g.dark.behavior \in {"support", "breakout"}
               THEN g.dark.level < g.price ELSE g.dark.level > g.price
    BY <1>5, <1>6, ReadIsTraded
  <1> QED
    BY <1>3, <1>7 DEF DarkpoolLevelIsTraded

(* The dark-pool level of an answer is one that traded (clusterPrints and    *)
(* the choice of the primary cluster in darkpool-behavior-engine.js).       *)
THEOREM LevelIsTraded == ChainSpec => []DarkpoolLevelIsTraded
  <1>1. ChainInit => DarkpoolLevelIsTraded
    BY DEF ChainInit, NoPage, DarkpoolLevelIsTraded
  <1>2. DarkpoolLevelIsTraded /\ [ChainNext]_chainVars => DarkpoolLevelIsTraded'
    <2> SUFFICES ASSUME DarkpoolLevelIsTraded, [ChainNext]_chainVars
                 PROVE  DarkpoolLevelIsTraded'
      OBVIOUS
    <2>1. CASE page' = page
      BY <2>1 DEF DarkpoolLevelIsTraded
    <2>2. CASE page' = NoPage
      BY <2>2 DEF DarkpoolLevelIsTraded, NoPage
    <2> QED
      BY <2>1, <2>2, PageStep, LevelStep DEF chainVars
  <1> QED
    BY <1>1, <1>2, PTL DEF ChainSpec

-----------------------------------------------------------------------------
(* The trap.  The spot of a call is a number, so that the put wall below it *)
(* cannot also be above it.                                                 *)

\* The first row with a valid price gives a number.
LEMMA FirstValidIsInt ==
    ASSUME NEW rows \in PriceRows
    PROVE  FirstValid(rows) \in Int
  <1> DEFINE valid == {i \in DOMAIN rows : ValidSpx(rows[i].price) # Null}
             first == CHOOSE i \in valid : \A m \in valid : i <= m
             Row == [price : Int, age : Int, spx : BOOLEAN]
  <1>1. \A r \in Row : r.price \in Int
    OBVIOUS
  <1>2. Len(rows) \in Nat /\ rows \in [1 .. Len(rows) -> Row]
    BY LenProperties DEF PriceRows
  <1>3. \A i \in DOMAIN rows : rows[i].price \in Int
    BY <1>1, <1>2
  <1>4. FirstValid(rows) = IF valid = {} THEN Null ELSE rows[first].price
    BY DEF FirstValid
  <1>5. valid # {} => first \in valid
    <2>1. valid \in SUBSET Nat
      BY <1>2
    <2> QED
      BY <2>1, LeastMember
  <1> QED
    BY <1>3, <1>4, <1>5 DEF Null

\* The spot of a call is a number.
LEMMA SpotIsInt ==
    ASSUME NEW p \in Prices
    PROVE  EarlySpot(p.raw, p.spxSource) \in Int
  <1>1. /\ p.raw.flowRecent \in PriceRows /\ p.raw.spotGex \in PriceRows /\ p.spxSource \in Int
    BY DataAssumption
  <1>2. FirstValid(p.raw.flowRecent) \in Int /\ FirstValid(p.raw.spotGex) \in Int
    BY <1>1, FirstValidIsInt
  <1> QED
    BY <1>1, <1>2 DEF EarlySpot, Or

\* The market that an order meets.
LEMMA MarketIs ==
    ASSUME NEW s, NEW f, NEW t, NEW j, NEW o, o = Ordered(s, f, t, j)
    PROVE  \E veto, iv :
               o.market = MarketOf(o.trueFlow, veto, j.regime, Or(s.dealerGex, SafeNumber(s.netGex)),
                                   t.history.d5, iv, j.map.spot, j.map.localPut)
  BY DEF Ordered

\* A rising price against bought puts under a heavy exposure makes the page
\* wait, unless the price is below its put wall.
LEMMA TrapWaits ==
    ASSUME NEW flow, NEW veto, NEW regime, NEW gex \in Int, NEW d5, NEW iv, NEW spot, NEW put,
           d5 # Null, d5 > 3, flow < -3, gex > 50,
           ~(put # Null /\ spot # Null /\ spot < put)
    PROVE  MarketOf(flow, veto, regime, gex, d5, iv, spot, put) \in ForcedWait
  BY DEF MarketOf, ForcedWait

\* A page that is made in a bull trap.
LEMMA TrapStep ==
    ASSUME NEW p \in Prices, NEW s \in Structures, NEW f, NEW t, page' = PageOf(p, s, f, t, queue)
    PROVE  TrapHoldsBack'
  <1>1. PICK j : j = Judged(p, s, f, queue, Located(p, s))
    OBVIOUS
  <1>2. PICK o : o = Ordered(s, f, t, j)
    OBVIOUS
  <1>3. PICK g : g = PageOf(p, s, f, t, queue)
    OBVIOUS
  <1> SUFFICES ASSUME g.d5 # Null, g.d5 > 3, g.trueFlow < -3, g.gex > 50, g.home \in ReadyHomes
               PROVE  FALSE
    BY <1>3 DEF TrapHoldsBack
  <1>4. /\ g.d5 = t.history.d5 /\ g.trueFlow = o.trueFlow /\ g.gex = s.dealerGex
    BY <1>1, <1>2, <1>3, PageReads
  <1>5. o.market \notin ForcedWait
    BY <1>1, <1>2, <1>3, OfferIsReady
  <1>6. PICK map, spot : map = Located(p, s).map /\ spot = Located(p, s).early
    OBVIOUS
  <1>7. j.map = map
    BY <1>1, <1>6, JudgedIs
  <1>8. map.spot = spot /\ spot \in Int
    BY <1>6, MapIs, SpotIsInt
  <1>9. map.localPut # Null => map.localPut \in Int /\ map.localPut < spot - 0
    BY <1>6, MapIs, PutWallBelow
  <1>10. ~(map.localPut # Null /\ map.spot # Null /\ map.spot < map.localPut)
    BY <1>8, <1>9
  <1>11. PICK gex : gex = Or(s.dealerGex, SafeNumber(s.netGex))
    OBVIOUS
  <1>12. gex \in Int /\ gex > 50
    BY <1>4, <1>11, DataAssumption DEF Or, Null
  <1>13. \E veto, iv : o.market = MarketOf(o.trueFlow, veto, j.regime, gex, t.history.d5, iv,
                                           map.spot, map.localPut)
    BY <1>2, <1>7, <1>11, MarketIs
  <1>14. o.market \in ForcedWait
    BY <1>4, <1>10, <1>12, <1>13, TrapWaits
  <1> QED
    BY <1>5, <1>14

(* A bull trap holds the page back (market-regime-engine.js: no earlier     *)
(* branch takes the case away from BULL_TRAP but one that waits too).       *)
THEOREM TrapHolds == ChainSpec => []TrapHoldsBack
  <1>1. ChainInit => TrapHoldsBack
    BY DEF ChainInit, NoPage, TrapHoldsBack
  <1>2. TrapHoldsBack /\ [ChainNext]_chainVars => TrapHoldsBack'
    <2> SUFFICES ASSUME TrapHoldsBack, [ChainNext]_chainVars
                 PROVE  TrapHoldsBack'
      OBVIOUS
    <2>1. CASE page' = page
      BY <2>1 DEF TrapHoldsBack
    <2>2. CASE page' = NoPage
      BY <2>2 DEF TrapHoldsBack, NoPage
    <2> QED
      BY <2>1, <2>2, PageStep, TrapStep DEF chainVars
  <1> QED
    BY <1>1, <1>2, PTL DEF ChainSpec

-----------------------------------------------------------------------------
(* The premium queue.                                                       *)

\* A queue in the order of time, within its bound.
InOrder(q) ==
    /\ q \in Seq([net : Int \ {Null}, age : 0 .. AgeBound])
    /\ Len(q) <= MaxEntries
    /\ \A i, j \in DOMAIN q : i < j => q[i].age >= q[j].age

\* A premium that is pushed is the newest, and the oldest makes room for it.
LEMMA PushedInOrder ==
    ASSUME NEW q, InOrder(q), NEW f \in Flows
    PROVE  InOrder(Pushed(q, f))
  <1> DEFINE Entry == [net : Int \ {Null}, age : 0 .. AgeBound]
             e == [net |-> f.net, age |-> 0]
             longer == Append(q, e)
  <1> SUFFICES ASSUME f.net # Null
               PROVE  InOrder(IF Len(longer) > MaxEntries THEN Tail(longer) ELSE longer)
    BY DEF Pushed
  <1>1. f.net \in Int
    BY DataAssumption
  <1>2. 0 \in 0 .. AgeBound
    BY ChainAssumption
  <1>3. e \in Entry /\ e.age = 0
    BY <1>1, <1>2
  <1>4. \A x \in Entry : x.age \in Nat
    BY ChainAssumption
  <1>5. q \in Seq(Entry) /\ Len(q) <= MaxEntries
        /\ \A i, j \in DOMAIN q : i < j => q[i].age >= q[j].age
    BY DEF InOrder
  <1> HIDE DEF Entry, e
  <1>6. /\ Len(q) \in Nat /\ DOMAIN q = 1 .. Len(q)
        /\ \A i \in 1 .. Len(q) : q[i].age \in Nat
    BY <1>4, <1>5, LenProperties
  <1>7. /\ longer \in Seq(Entry) /\ Len(longer) = Len(q) + 1
        /\ \A i \in 1 .. Len(q) : longer[i] = q[i]
        /\ longer[Len(q) + 1] = e
    BY <1>3, <1>5, AppendProperties
  <1> HIDE DEF longer
  <1>8. DOMAIN longer = 1 .. Len(q) + 1
    BY <1>7, LenProperties
  <1>9. \A i, j \in DOMAIN longer : i < j => longer[i].age >= longer[j].age
    <2> SUFFICES ASSUME NEW i \in 1 .. Len(q) + 1, NEW j \in 1 .. Len(q) + 1, i < j
                 PROVE  longer[i].age >= longer[j].age
      BY <1>8
    <2>1. i \in 1 .. Len(q)
      BY <1>6
    <2>2. CASE j = Len(q) + 1
      BY <1>3, <1>6, <1>7, <2>1, <2>2
    <2>3. CASE j # Len(q) + 1
      <3>1. j \in 1 .. Len(q)
        BY <1>6, <2>3
      <3> QED
        BY <1>5, <1>6, <1>7, <2>1, <3>1
    <2> QED
      BY <2>2, <2>3
  <1>10. CASE Len(longer) > MaxEntries
    <2>1. longer # <<>>
      BY <1>6, <1>7
    <2>2. /\ Tail(longer) \in Seq(Entry) /\ Len(Tail(longer)) = Len(q)
          /\ \A i \in 1 .. Len(q) : Tail(longer)[i] = longer[i + 1]
      BY <1>6, <1>7, <2>1, HeadTailProperties
    <2>3. DOMAIN Tail(longer) = 1 .. Len(q)
      BY <2>2, LenProperties
    <2>4. \A i \in 1 .. Len(q) : i + 1 \in DOMAIN longer
      BY <1>6, <1>8
    <2>5. \A i, j \in 1 .. Len(q) : i < j => i + 1 < j + 1
      BY <1>6
    <2>6. \A i, j \in DOMAIN Tail(longer) : i < j => Tail(longer)[i].age >= Tail(longer)[j].age
      BY <1>9, <2>2, <2>3, <2>4, <2>5
    <2> QED
      BY <1>5, <1>10, <2>2, <2>6 DEF InOrder, Entry
  <1>11. CASE ~(Len(longer) > MaxEntries)
    <2>1. Len(longer) <= MaxEntries
      BY <1>6, <1>7, <1>11, WindowAssumption
    <2> QED
      BY <1>7, <1>9, <1>11, <2>1 DEF InOrder, Entry
  <1> QED
    BY <1>10, <1>11

\* Time ages every entry alike.
LEMMA AgedInOrder ==
    ASSUME NEW q, InOrder(q),
           NEW r, r = [i \in DOMAIN q |->
                          [q[i] EXCEPT !.age = IF @ < AgeBound THEN @ + 1 ELSE AgeBound]]
    PROVE  InOrder(r)
  <1> DEFINE Entry == [net : Int \ {Null}, age : 0 .. AgeBound]
             Older(x) == [x EXCEPT !.age = IF @ < AgeBound THEN @ + 1 ELSE AgeBound]
  <1>1. \A x \in Entry : Older(x) \in Entry
    BY ChainAssumption
  <1>2. \A x, y \in Entry : x.age >= y.age => Older(x).age >= Older(y).age
    BY ChainAssumption
  <1>3. /\ q \in Seq(Entry) /\ Len(q) <= MaxEntries
        /\ \A i, j \in DOMAIN q : i < j => q[i].age >= q[j].age
    BY DEF InOrder
  <1>4. r = [i \in DOMAIN q |-> Older(q[i])]
    OBVIOUS
  <1> HIDE DEF Entry, Older
  <1>5. Len(q) \in Nat /\ DOMAIN q = 1 .. Len(q) /\ \A i \in DOMAIN q : q[i] \in Entry
    BY <1>3, LenProperties
  <1>6. r \in [1 .. Len(q) -> Entry]
    BY <1>1, <1>4, <1>5
  <1>7. r \in Seq(Entry) /\ Len(r) = Len(q) /\ DOMAIN r = 1 .. Len(q)
    BY <1>5, <1>6, SeqDef, LenProperties
  <1>8. \A i, j \in DOMAIN r : i < j => r[i].age >= r[j].age
    BY <1>2, <1>3, <1>4, <1>5, <1>7
  <1> QED
    BY <1>3, <1>7, <1>8 DEF InOrder, Entry

\* A page that is made says so.
LEMMA MadeIsBoolean ==
    ASSUME NEW p, NEW s, NEW f, NEW t, NEW q
    PROVE  PageOf(p, s, f, t, q).made = TRUE
  BY DEF PageOf, PageOn, Page

(* The queue of premiums keeps its bound and the order of time              *)
(* (premium-acceleration-queue.js).                                         *)
THEOREM ChainTypes == ChainSpec => []TypeOK
  <1>1. ChainInit => TypeOK
    <2> SUFFICES ASSUME ChainInit
                 PROVE  TypeOK
      OBVIOUS
    <2>1. queue = <<>> /\ page.made \in BOOLEAN
      BY DEF ChainInit, NoPage
    <2>2. Len(queue) = 0 /\ DOMAIN queue = {} /\ 0 <= MaxEntries
      BY <2>1, WindowAssumption
    <2> QED
      BY <2>1, <2>2 DEF TypeOK
  <1>2. TypeOK /\ [ChainNext]_chainVars => TypeOK'
    <2> SUFFICES ASSUME TypeOK, [ChainNext]_chainVars
                 PROVE  TypeOK'
      OBVIOUS
    <2>1. InOrder(queue) /\ page.made \in BOOLEAN
      BY DEF TypeOK, InOrder
    <2>2. InOrder(queue') /\ page'.made \in BOOLEAN
      <3>1. CASE ServePage
        <4>1. InOrder(queue')
          BY <2>1, <3>1, PushedInOrder DEF ServePage
        <4>2. page'.made = TRUE
          BY <3>1, MadeIsBoolean DEF ServePage
        <4> QED
          BY <4>1, <4>2
      <3>2. CASE DeliverPage
        BY <2>1, <3>2 DEF DeliverPage, NoPage
      <3>3. CASE AgeQueue
        BY <2>1, <3>3, AgedInOrder DEF AgeQueue
      <3>4. CASE UNCHANGED chainVars
        BY <2>1, <3>4 DEF chainVars
      <3> QED
        BY <3>1, <3>2, <3>3, <3>4 DEF ChainNext
    <2> QED
      BY <2>2 DEF TypeOK, InOrder
  <1> QED
    BY <1>1, <1>2, PTL DEF ChainSpec
=============================================================================
