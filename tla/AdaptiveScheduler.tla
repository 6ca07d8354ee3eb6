-------------------------- MODULE AdaptiveScheduler --------------------------
(***************************************************************************)
(* The adaptive refresh scheduler (scheduler/adaptive-refresh-scheduler.js):  *)
(* one chain of setTimeout timers per UW endpoint, whose delay depends on   *)
(* the market phase and on a speed mode that quota reports and price        *)
(* context drive.                                                           *)
(*                                                                          *)
(* Time is counted in ticks.  Instead of absolute instants the model keeps  *)
(* what is left until them (a timer's delay, turboUntil, backoff_until), so *)
(* the state stays finite without a bound on time.  A timer whose delay has *)
(* run out fires at some later moment, as in an event loop.                 *)
(***************************************************************************)
EXTENDS Integers, FiniteSets

CONSTANTS
    Endpoint,           \* names polled: the keys of NORMAL_INTERVALS
    MinimalEndpoints,   \* those still polled in minimal mode
    IntervalTable,      \* [ActivePhase -> [Endpoint -> ticks, Skip for null]]
    TurboInterval,      \* [Endpoint -> ticks]
    TurboHold,          \* ticks turbo is held once a key level is seen
    BackoffBase, BackoffMax,
    QuotaReports,       \* quota headers the provider can return
    MaxConcurrentRuns   \* bound: awaits of one endpoint outstanding at a time

ActivePhase == {"oi_burst", "trf_burst", "pre_open", "open_sprint", "midday", "closing"}
Phase == ActivePhase \cup {"closed"}
Mode  == {"normal", "turbo", "throttle", "minimal"}

\* What _detectKeyLevel answers from the price context: nothing, a level
\* (reasons 1-5 and 8) or a burst (reasons 6-7, valid for 30 s only).
Trigger == {"none", "level", "burst"}

Skip    == 0        \* a null interval
NoTimer == -1       \* no pending setTimeout

ASSUME EndpointAssumption == MinimalEndpoints \subseteq Endpoint
ASSUME IntervalAssumption ==
    /\ IntervalTable \in [ActivePhase -> [Endpoint -> Nat]]
    /\ TurboInterval \in [Endpoint -> Nat \ {0}]
    /\ \A e \in Endpoint : IntervalTable["midday"][e] # Skip
ASSUME DelayAssumption ==
    /\ TurboHold \in Nat
    /\ BackoffBase \in Nat \ {0}
    /\ BackoffMax \in Nat
    /\ BackoffBase <= BackoffMax
    /\ MaxConcurrentRuns \in Nat
ASSUME QuotaAssumption == QuotaReports \subseteq [daily_limit : Nat, remaining : Nat]

VARIABLES
    phase,      \* getMarketPhase(), read from the wall clock
    started,    \* _started
    mode,       \* _mode
    usage,      \* _quota.usage_pct
    turboLeft,  \* ticks until _turboUntil, 0 once it has passed
    trigger,    \* the answer of _detectKeyLevel
    due,        \* ticks until the timer of an endpoint, or NoTimer
    running,    \* number of awaits of onRefresh outstanding
    status,     \* _endpointState[name].status
    penalty,    \* last backoff length: base * 2^(consecutive_fails - 1), 0 for no fails
    backoff     \* ticks until backoff_until

clockVars    == <<phase>>
modeVars     == <<mode, usage, turboLeft, trigger>>
endpointVars == <<status, penalty, backoff>>
vars == <<phase, started, mode, usage, turboLeft, trigger, due, running, status, penalty, backoff>>

-----------------------------------------------------------------------------
(* Intervals, quota arithmetic and the choice of a mode.                    *)

Smaller(a, b) == IF a < b THEN a ELSE b

\* The table of the phase; three phases fall back on NORMAL_INTERVALS for null.
BaseInterval(e, p) ==
    IF p \in {"pre_open", "open_sprint", "closing"} /\ IntervalTable[p][e] = Skip
    THEN IntervalTable["midday"][e]
    ELSE IntervalTable[p][e]

Faster(e, p) == Smaller(BaseInterval(e, p), TurboInterval[e])
Slower(e, p) == 2 * BaseInterval(e, p)

\* A mutant of CurrentInterval: a closed market is polled as at midday.
CurrentIntervalNeverClosed(e, m, p) ==
    LET base == BaseInterval(e, IF p = "closed" THEN "midday" ELSE p)
    IN  IF m = "minimal" /\ e \notin MinimalEndpoints THEN Skip ELSE base

CurrentInterval(e, m, p) ==
    IF \/ p = "closed"
       \/ BaseInterval(e, p) = Skip
       \/ m = "minimal" /\ e \notin MinimalEndpoints
    THEN Skip
    ELSE IF m = "turbo" THEN Faster(e, p)
    ELSE IF m \in {"throttle", "minimal"} THEN Slower(e, p)
    ELSE BaseInterval(e, p)

\* Math.round of the share used, in percent; the share may be negative.
UsagePct(q) ==
    IF q.daily_limit > 0
    THEN (200 * (q.daily_limit - q.remaining) + q.daily_limit) \div (2 * q.daily_limit)
    ELSE 0

\* A mutant of EvaluatedMode: the hold is not consulted.
EvaluatedModeNoHold(u, hold, t) ==
    IF u >= 90 THEN "minimal"
    ELSE IF u >= 80 THEN "throttle"
    ELSE IF t # "none" THEN "turbo"
    ELSE "normal"

\* _evaluateMode: quota first, then the turbo hold, then key levels.
EvaluatedMode(u, hold, t) ==
    IF u >= 90 THEN "minimal"
    ELSE IF u >= 80 THEN "throttle"
    ELSE IF hold > 0 \/ t # "none" THEN "turbo"
    ELSE "normal"

EvaluatedHold(u, hold, t) ==
    IF u < 80 /\ hold = 0 /\ t # "none" THEN TurboHold ELSE hold

\* _scheduleEndpoint: the endpoint's old timer is cleared, and a new one is
\* set unless the endpoint is skipped at this moment.
Timer(e, delay, m, p) == IF CurrentInterval(e, m, p) = Skip THEN NoTimer ELSE delay

\* _setMode: a change of mode sets every timer of a started scheduler to fire at once.
EvaluateMode(u, t) ==
    LET m == EvaluatedMode(u, turboLeft, t)
    IN  /\ mode' = m
        /\ turboLeft' = EvaluatedHold(u, turboLeft, t)
        /\ due' = IF m # mode /\ started
                  THEN [e \in Endpoint |-> Timer(e, 0, m, phase)]
                  ELSE due

-----------------------------------------------------------------------------
Init ==
    /\ phase \in Phase
    /\ started = FALSE
    /\ mode = "normal"
    /\ usage = 0
    /\ turboLeft = 0
    /\ trigger = "none"
    /\ due = [e \in Endpoint |-> NoTimer]
    /\ running = [e \in Endpoint |-> 0]
    /\ status = [e \in Endpoint |-> "missing"]
    /\ penalty = [e \in Endpoint |-> 0]
    /\ backoff = [e \in Endpoint |-> 0]

Start ==
    /\ ~started
    /\ started' = TRUE
    /\ due' = [e \in Endpoint |-> Timer(e, 0, mode, phase)]
    /\ UNCHANGED <<clockVars, modeVars, endpointVars, running>>

\* stop: timers are cleared, outstanding awaits are not.
Stop ==
    /\ started' = FALSE
    /\ due' = [e \in Endpoint |-> NoTimer]
    /\ UNCHANGED <<clockVars, modeVars, endpointVars, running>>

UpdateQuota(q) ==
    /\ usage' = UsagePct(q)
    /\ EvaluateMode(UsagePct(q), trigger)
    /\ UNCHANGED <<clockVars, started, trigger, running, endpointVars>>

UpdatePriceContext(t) ==
    /\ trigger' = t
    /\ EvaluateMode(usage, t)
    /\ UNCHANGED <<clockVars, started, usage, running, endpointVars>>

\* A mutant of Gated: the backoff counts as long as the endpoint has failed.
GatedWhilePenalised(e) == phase = "closed" \/ penalty[e] > 0

Gated(e) == phase = "closed" \/ backoff[e] > 0

\* The next timer of an endpoint after _runEndpoint returns.
Rearmed(e) ==
    IF started THEN [due EXCEPT ![e] = Timer(e, CurrentInterval(e, mode, phase), mode, phase)]
    ELSE due

\* A mutant of TimerSkipsRun: the early return does not set the next timer.
TimerSkipsRunForGood(e) ==
    /\ due[e] = 0
    /\ Gated(e)
    /\ due' = [due EXCEPT ![e] = NoTimer]
    /\ UNCHANGED <<clockVars, started, modeVars, endpointVars, running>>

\* A timer fires and _runEndpoint returns early: market closed or in backoff.
TimerSkipsRun(e) ==
    /\ due[e] = 0
    /\ Gated(e)
    /\ due' = Rearmed(e)
    /\ UNCHANGED <<clockVars, started, modeVars, endpointVars, running>>

\* A mutant of TimerStartsRun: the next timer is set before the await, not after.
TimerStartsRunRearmed(e) ==
    /\ due[e] = 0
    /\ ~Gated(e)
    /\ running[e] < MaxConcurrentRuns
    /\ running' = [running EXCEPT ![e] = @ + 1]
    /\ due' = Rearmed(e)
    /\ UNCHANGED <<clockVars, started, modeVars, endpointVars>>

\* A timer fires and _runEndpoint awaits onRefresh.
TimerStartsRun(e) ==
    /\ due[e] = 0
    /\ ~Gated(e)
    /\ running[e] < MaxConcurrentRuns
    /\ running' = [running EXCEPT ![e] = @ + 1]
    /\ due' = [due EXCEPT ![e] = NoTimer]
    /\ UNCHANGED <<clockVars, started, modeVars, endpointVars>>

\* onRefresh resolves: recordSuccess, then the next timer.
RunSucceeds(e) ==
    /\ running[e] > 0
    /\ running' = [running EXCEPT ![e] = @ - 1]
    /\ status' = [status EXCEPT ![e] = "live"]
    /\ penalty' = [penalty EXCEPT ![e] = 0]
    /\ backoff' = [backoff EXCEPT ![e] = 0]
    /\ due' = Rearmed(e)
    /\ UNCHANGED <<clockVars, started, modeVars>>

NextPenalty(p) == IF p = 0 THEN BackoffBase ELSE Smaller(2 * p, BackoffMax)

\* onRefresh rejects: recordFailure, then the next timer.
RunFails(e) ==
    /\ running[e] > 0
    /\ running' = [running EXCEPT ![e] = @ - 1]
    /\ status' = [status EXCEPT ![e] = "error"]
    /\ penalty' = [penalty EXCEPT ![e] = NextPenalty(@)]
    /\ backoff' = [backoff EXCEPT ![e] = NextPenalty(penalty[e])]
    /\ due' = Rearmed(e)
    /\ UNCHANGED <<clockVars, started, modeVars>>

Elapse(left) == IF left > 0 THEN left - 1 ELSE left

\* One tick of the clock; a burst seen long enough ago no longer counts.
Tick ==
    /\ due' = [e \in Endpoint |-> Elapse(due[e])]
    /\ backoff' = [e \in Endpoint |-> Elapse(backoff[e])]
    /\ turboLeft' = Elapse(turboLeft)
    /\ trigger' \in {trigger} \cup (IF trigger = "burst" THEN {"none"} ELSE {})
    /\ UNCHANGED <<clockVars, started, mode, usage, running, status, penalty>>

\* The order of the day in getMarketPhase; the gaps between phases are closed.
PhaseAfter(p) ==
    IF p = "closed" THEN {"oi_burst", "trf_burst", "pre_open", "open_sprint"}
    ELSE IF p = "open_sprint" THEN {"midday"}
    ELSE IF p = "midday" THEN {"closing"}
    ELSE {"closed"}

AdvancePhase ==
    /\ phase' \in PhaseAfter(phase)
    /\ UNCHANGED <<started, modeVars, due, running, endpointVars>>

Next ==
    \/ Start
    \/ Stop
    \/ \E q \in QuotaReports : UpdateQuota(q)
    \/ \E t \in Trigger : UpdatePriceContext(t)
    \/ \E e \in Endpoint : TimerSkipsRun(e)
    \/ \E e \in Endpoint : TimerStartsRun(e)
    \/ \E e \in Endpoint : RunSucceeds(e)
    \/ \E e \in Endpoint : RunFails(e)
    \/ Tick
    \/ AdvancePhase

Spec == Init /\ [][Next]_vars

\* The event loop runs expired timers, every await settles, and time passes.
Fairness ==
    /\ WF_vars(Tick)
    /\ \A e \in Endpoint : WF_vars(TimerSkipsRun(e) \/ TimerStartsRun(e))
    /\ \A e \in Endpoint : WF_vars(RunSucceeds(e) \/ RunFails(e))

FairSpec == Spec /\ Fairness

-----------------------------------------------------------------------------
(* Properties.                                                              *)

\* Every part of the state keeps its range.
TypeOK ==
    /\ phase \in Phase
    /\ started \in BOOLEAN
    /\ mode \in Mode
    /\ usage \in Int
    /\ turboLeft \in Nat
    /\ trigger \in Trigger
    /\ due \in [Endpoint -> Nat \cup {NoTimer}]
    /\ running \in [Endpoint -> 0 .. MaxConcurrentRuns]
    /\ status \in [Endpoint -> {"missing", "live", "error"}]
    /\ penalty \in [Endpoint -> 0 .. BackoffMax]
    /\ backoff \in [Endpoint -> 0 .. BackoffMax]

\* Some timer or some outstanding await will look at the endpoint again.
Served(e) == due[e] # NoTimer \/ running[e] > 0
Wanted(e) == started /\ CurrentInterval(e, mode, phase) # Skip

\* The speed mode always reflects the last quota report, whatever price
\* context arrived since: minimal from 90 percent, throttle from 80.
ModeFollowsQuota ==
    /\ mode = "minimal" <=> usage >= 90
    /\ mode = "throttle" <=> usage >= 80 /\ usage < 90

\* A turbo hold survives quota excursions and price updates: as long as it
\* lasts and the quota allows it, the scheduler is in turbo.
TurboIsHeld == turboLeft > 0 /\ usage < 80 => mode = "turbo"

\* In minimal mode no timer of a non-critical endpoint is pending, not even
\* one set by a run that was outstanding when the mode changed.
MinimalModeSheds ==
    mode = "minimal" => \A e \in Endpoint \ MinimalEndpoints : due[e] = NoTimer

\* Timers exist only in a started scheduler: neither a late answer nor a mode
\* change sets one after stop.
StoppedIsQuiet == ~started => \A e \in Endpoint : due[e] = NoTimer

\* recordSuccess and recordFailure of overlapping runs never leave a mix: an
\* endpoint in backoff has failed last, and one with a success has no penalty.
BackoffMeansFailing ==
    \A e \in Endpoint :
        /\ backoff[e] <= penalty[e]
        /\ status[e] = "error" <=> penalty[e] > 0

\* The inductive invariant of the scheduler: quota and hold decide the mode in
\* whatever order reports and prices come, mode and stop decide which timers may
\* exist although runs return late, and status and backoff stay those of the
\* last run that returned.
SchedulerInv ==
    /\ TypeOK
    /\ ModeFollowsQuota
    /\ TurboIsHeld
    /\ MinimalModeSheds
    /\ StoppedIsQuiet
    /\ BackoffMeansFailing

\* An endpoint drops out of polling only in a step after which it is skipped
\* by the tables or the scheduler is stopped; overlapping runs, backoff and
\* cancelled timers never lose its chain of timers.
DropsOutOnlyWhenSkipped ==
    [][\A e \in Endpoint : Served(e) /\ ~Served(e)' => ~Wanted(e)']_vars

\* While an endpoint stays wanted and its chain of timers exists, it is asked
\* for again and again, through failures, backoff and changes of mode.
KeepsPolling ==
    \A e \in Endpoint : <>[](Wanted(e) /\ Served(e)) => []<>(running[e] > 0)

\* If the market closes for good, every timer and every await drains: no
\* endpoint is polled through a closed phase.
ClosedMarketDrains ==
    <>[](phase = "closed") => <>[](\A e \in Endpoint : ~Served(e))

=============================================================================
