------------------------- MODULE LiveRefresh_proofs -------------------------
(***************************************************************************)
(* What holds of the adaptive scheduler for every set of endpoints, every   *)
(* interval table and every backoff and turbo length; and what holds of the *)
(* live refresh loop around it, for every set of endpoints fetched along    *)
(* and every number of polls of one endpoint at a time.                     *)
(***************************************************************************)
EXTENDS LiveRefresh, FiniteSetTheorems, TLAPS

USE DEF NoTimer, Skip

(* An interval is a natural number, Skip (0) for a skipped endpoint:        *)
(* _currentInterval returns null or a positive delay.                       *)
LEMMA IntervalType ==
    ASSUME NEW e \in Endpoint, NEW m \in Mode, NEW p \in Phase
    PROVE  CurrentInterval(e, m, p) \in Nat
<1>1. CASE p = "closed"
  BY <1>1 DEF CurrentInterval
<1>2. CASE p \in ActivePhase
  <2>1. /\ IntervalTable[p][e] \in Nat
        /\ IntervalTable["midday"][e] \in Nat
        /\ TurboInterval[e] \in Nat
    BY <1>2, IntervalAssumption DEF ActivePhase
  <2>2. BaseInterval(e, p) \in Nat
    BY <2>1 DEF BaseInterval
  <2>3. Faster(e, p) \in Nat /\ Slower(e, p) \in Nat
    BY <2>1, <2>2 DEF Faster, Slower, Smaller
  <2> QED
    BY <2>2, <2>3 DEF CurrentInterval, Mode
<1> QED
  BY <1>1, <1>2 DEF Phase

(* _scheduleEndpoint leaves a pending timer or none.                        *)
LEMMA TimerType ==
    ASSUME NEW e \in Endpoint, NEW m \in Mode, NEW p \in Phase, NEW d \in Nat
    PROVE  Timer(e, d, m, p) \in Nat \cup {NoTimer}
BY DEF Timer

(* The answer of _evaluateMode is a mode, a legal hold, and agrees with the *)
(* quota and the hold it was computed from.                                 *)
LEMMA EvaluateModeFacts ==
    ASSUME NEW u \in Int, NEW h \in Nat, NEW t \in Trigger
    PROVE  /\ EvaluatedMode(u, h, t) \in Mode
           /\ EvaluatedHold(u, h, t) \in Nat
           /\ EvaluatedMode(u, h, t) = "minimal" <=> u >= 90
           /\ EvaluatedMode(u, h, t) = "throttle" <=> u >= 80 /\ u < 90
           /\ EvaluatedHold(u, h, t) > 0 /\ u < 80 => EvaluatedMode(u, h, t) = "turbo"
BY DelayAssumption DEF EvaluatedMode, EvaluatedHold, Mode

(* A backoff length stays between 0 and BackoffMax.                         *)
LEMMA PenaltyType ==
    ASSUME NEW p \in 0 .. BackoffMax
    PROVE  NextPenalty(p) \in 1 .. BackoffMax
BY DelayAssumption DEF NextPenalty, Smaller

(* Every timer _scheduleEndpoint replaces is again a pending timer or none. *)
LEMMA RearmedType ==
    ASSUME TypeOK, NEW e \in Endpoint
    PROVE  Rearmed(e) \in [Endpoint -> Nat \cup {NoTimer}]
BY IntervalType, TimerType DEF Rearmed, TypeOK

(* _evaluateMode keeps the range of everything it changes.                  *)
LEMMA EvaluateModeType ==
    ASSUME TypeOK, NEW u \in Int, NEW t \in Trigger, EvaluateMode(u, t)
    PROVE  /\ mode' \in Mode
           /\ turboLeft' \in Nat
           /\ due' \in [Endpoint -> Nat \cup {NoTimer}]
<1>1. /\ mode' = EvaluatedMode(u, turboLeft, t)
      /\ turboLeft' = EvaluatedHold(u, turboLeft, t)
  BY DEF EvaluateMode
<1>2. mode' \in Mode /\ turboLeft' \in Nat
  BY <1>1, EvaluateModeFacts DEF TypeOK
<1>3. \A e \in Endpoint : Timer(e, 0, mode', phase) \in Nat \cup {NoTimer}
  BY <1>2, TimerType DEF TypeOK
<1> QED
  BY <1>1, <1>2, <1>3 DEF EvaluateMode, TypeOK

(* A quota report yields a percentage.                                      *)
LEMMA UsageType ==
    ASSUME NEW q \in QuotaReports
    PROVE  UsagePct(q) \in Int
<1>1. q.daily_limit \in Nat /\ q.remaining \in Nat
  BY QuotaAssumption
<1>2. CASE q.daily_limit > 0
  <2> DEFINE n == 200 * (q.daily_limit - q.remaining) + q.daily_limit
             d == 2 * q.daily_limit
  <2>1. n \in Int /\ d \in Int /\ d > 0
    BY <1>1, <1>2
  <2> HIDE DEF n, d
  <2>2. n \div d \in Int
    BY <2>1
  <2> QED
    BY <1>2, <2>2 DEF UsagePct, n, d
<1>3. CASE ~(q.daily_limit > 0)
  BY <1>3 DEF UsagePct
<1> QED
  BY <1>2, <1>3

(* Every step keeps every variable in its range.                            *)
LEMMA TypeStep == TypeOK /\ [Next]_vars => TypeOK'
<1> SUFFICES ASSUME TypeOK, [Next]_vars
             PROVE  TypeOK'
  OBVIOUS
<1>1. CASE Start
  BY <1>1, TimerType DEF Start, TypeOK, clockVars, modeVars, endpointVars
<1>2. CASE Stop
  BY <1>2 DEF Stop, TypeOK, clockVars, modeVars, endpointVars
<1>3. ASSUME NEW q \in QuotaReports, UpdateQuota(q)
      PROVE  TypeOK'
  BY <1>3, UsageType, EvaluateModeType DEF UpdateQuota, TypeOK, clockVars, endpointVars
<1>4. ASSUME NEW t \in Trigger, UpdatePriceContext(t)
      PROVE  TypeOK'
  BY <1>4, EvaluateModeType DEF UpdatePriceContext, TypeOK, clockVars, endpointVars
<1>5. ASSUME NEW e \in Endpoint, TimerSkipsRun(e)
      PROVE  TypeOK'
  BY <1>5, RearmedType DEF TimerSkipsRun, TypeOK, clockVars, modeVars, endpointVars
<1>6. ASSUME NEW e \in Endpoint, TimerStartsRun(e)
      PROVE  TypeOK'
  BY <1>6, DelayAssumption DEF TimerStartsRun, TypeOK, clockVars, modeVars, endpointVars
<1>7. ASSUME NEW e \in Endpoint, RunSucceeds(e)
      PROVE  TypeOK'
  BY <1>7, RearmedType, DelayAssumption DEF RunSucceeds, TypeOK, clockVars, modeVars
<1>8. ASSUME NEW e \in Endpoint, RunFails(e)
      PROVE  TypeOK'
  <2>1. penalty[e] \in 0 .. BackoffMax
    BY DEF TypeOK
  <2>2. NextPenalty(penalty[e]) \in 0 .. BackoffMax
    BY <2>1, PenaltyType, DelayAssumption
  <2> QED
    BY <1>8, <2>2, RearmedType, DelayAssumption DEF RunFails, TypeOK, clockVars, modeVars
<1>9. CASE Tick
  <2>1. \A d \in Nat \cup {NoTimer} : Elapse(d) \in Nat \cup {NoTimer}
    BY DEF Elapse
  <2>2. \A b \in 0 .. BackoffMax : Elapse(b) \in 0 .. BackoffMax
    BY DelayAssumption DEF Elapse
  <2>3. Elapse(turboLeft) \in Nat
    BY DEF Elapse, TypeOK
  <2>4. trigger' \in Trigger
    BY <1>9 DEF Tick, TypeOK, Trigger
  <2> QED
    BY <1>9, <2>1, <2>2, <2>3, <2>4 DEF Tick, TypeOK, clockVars
<1>10. CASE AdvancePhase
  BY <1>10 DEF AdvancePhase, PhaseAfter, TypeOK, Phase, ActivePhase, modeVars, endpointVars
<1>11. CASE UNCHANGED vars
  BY <1>11 DEF vars, TypeOK
<1> QED
  BY <1>1, <1>2, <1>3, <1>4, <1>5, <1>6, <1>7, <1>8, <1>9, <1>10, <1>11 DEF Next

(* Type correctness of the scheduler: delays are natural numbers, backoff   *)
(* never exceeds BACKOFF_MAX_MS, runs stay within their bound.              *)
THEOREM TypeCorrect == Spec => []TypeOK
<1>1. Init => TypeOK
  <2> SUFFICES ASSUME Init PROVE TypeOK
    OBVIOUS
  <2>1. 0 \in 0 .. BackoffMax /\ 0 \in 0 .. MaxConcurrentRuns
    BY DelayAssumption
  <2>2. started \in BOOLEAN /\ mode \in Mode /\ trigger \in Trigger
    BY DEF Init, Mode, Trigger
  <2> QED
    BY <2>1, <2>2 DEF Init, TypeOK
<1> QED
  BY <1>1, TypeStep, PTL DEF Spec

-----------------------------------------------------------------------------
(* The mode, the timers and the backoff.                                    *)

TimersInv ==
    /\ ModeFollowsQuota
    /\ TurboIsHeld
    /\ MinimalModeSheds
    /\ StoppedIsQuiet
    /\ BackoffMeansFailing

(* _evaluateMode establishes the two mode conjuncts and, by resetting every *)
(* timer when the mode changes, sheds the non-critical ones.                *)
LEMMA EvaluateModeInv ==
    ASSUME TypeOK, TimersInv, NEW u \in Int, NEW t \in Trigger,
           EvaluateMode(u, t), usage' = u, started' = started
    PROVE  /\ ModeFollowsQuota'
           /\ TurboIsHeld'
           /\ MinimalModeSheds'
           /\ StoppedIsQuiet'
<1>1. /\ mode' = EvaluatedMode(u, turboLeft, t)
      /\ turboLeft' = EvaluatedHold(u, turboLeft, t)
      /\ turboLeft \in Nat
  BY DEF EvaluateMode, TypeOK
<1>2. ModeFollowsQuota' /\ TurboIsHeld'
  BY <1>1, EvaluateModeFacts DEF ModeFollowsQuota, TurboIsHeld
<1>3. MinimalModeSheds'
  <2>1. CASE mode' # mode /\ started
    <3>1. \A e \in Endpoint : due'[e] = Timer(e, 0, mode', phase)
      BY <2>1, <1>1 DEF EvaluateMode
    <3>2. mode' = "minimal" =>
            \A e \in Endpoint \ MinimalEndpoints : CurrentInterval(e, mode', phase) = Skip
      BY DEF CurrentInterval
    <3> QED
      BY <3>1, <3>2 DEF MinimalModeSheds, Timer
  <2>2. CASE mode' = mode
    BY <2>2, <1>1 DEF EvaluateMode, TimersInv, MinimalModeSheds
  <2>3. CASE ~started
    BY <2>3, <1>1 DEF EvaluateMode, TimersInv, MinimalModeSheds, StoppedIsQuiet
  <2> QED
    BY <2>1, <2>2, <2>3
<1>4. StoppedIsQuiet'
  BY <1>1 DEF EvaluateMode, TimersInv, StoppedIsQuiet
<1> QED
  BY <1>2, <1>3, <1>4

(* A run that returns sets no timer of a stopped scheduler or, in minimal   *)
(* mode, of a non-critical endpoint.                                        *)
LEMMA RearmedInv ==
    ASSUME TypeOK, TimersInv, NEW e \in Endpoint, due' = Rearmed(e),
           mode' = mode, started' = started
    PROVE  MinimalModeSheds' /\ StoppedIsQuiet'
<1>1. CASE started
  <2>1. \A f \in Endpoint :
          due'[f] = IF f = e
                    THEN Timer(e, CurrentInterval(e, mode, phase), mode, phase)
                    ELSE due[f]
    BY <1>1 DEF Rearmed, TypeOK
  <2>2. mode = "minimal" /\ e \notin MinimalEndpoints => CurrentInterval(e, mode, phase) = Skip
    BY DEF CurrentInterval
  <2> QED
    BY <1>1, <2>1, <2>2 DEF TimersInv, MinimalModeSheds, StoppedIsQuiet, Timer
<1>2. CASE ~started
  BY <1>2 DEF Rearmed, TimersInv, MinimalModeSheds, StoppedIsQuiet
<1> QED
  BY <1>1, <1>2

(* The five conjuncts are inductive together with the type invariant: the   *)
(* hold and the quota decide the mode, and the mode decides the timers.     *)
LEMMA TimersInvStep == TypeOK /\ TimersInv /\ [Next]_vars => TimersInv'
<1> SUFFICES ASSUME TypeOK, TimersInv, [Next]_vars
             PROVE  TimersInv'
  OBVIOUS
<1>1. CASE Start
  <2>1. \A e \in Endpoint : due'[e] = Timer(e, 0, mode, phase)
    BY <1>1 DEF Start
  <2>2. mode = "minimal" =>
          \A e \in Endpoint \ MinimalEndpoints : CurrentInterval(e, mode, phase) = Skip
    BY DEF CurrentInterval
  <2>3. MinimalModeSheds'
    BY <1>1, <2>1, <2>2 DEF Start, modeVars, MinimalModeSheds, Timer
  <2>4. ModeFollowsQuota' /\ TurboIsHeld' /\ BackoffMeansFailing'
    BY <1>1 DEF Start, modeVars, endpointVars, TimersInv, ModeFollowsQuota,
                TurboIsHeld, BackoffMeansFailing
  <2>5. StoppedIsQuiet'
    BY <1>1 DEF Start, StoppedIsQuiet
  <2> QED
    BY <2>3, <2>4, <2>5 DEF TimersInv
<1>2. CASE Stop
  <2>1. \A e \in Endpoint : due'[e] = NoTimer
    BY <1>2 DEF Stop
  <2> QED
    BY <1>2, <2>1 DEF Stop, modeVars, endpointVars, TimersInv, ModeFollowsQuota,
                TurboIsHeld, MinimalModeSheds, StoppedIsQuiet, BackoffMeansFailing
<1>3. ASSUME NEW q \in QuotaReports, UpdateQuota(q)
      PROVE  TimersInv'
  <2>1. trigger \in Trigger /\ UsagePct(q) \in Int
    BY UsageType DEF TypeOK
  <2>2. BackoffMeansFailing'
    BY <1>3 DEF UpdateQuota, endpointVars, TimersInv, BackoffMeansFailing
  <2> QED
    BY <1>3, <2>1, <2>2, EvaluateModeInv DEF UpdateQuota, TimersInv
<1>4. ASSUME NEW t \in Trigger, UpdatePriceContext(t)
      PROVE  TimersInv'
  <2>1. usage \in Int
    BY DEF TypeOK
  <2>2. BackoffMeansFailing'
    BY <1>4 DEF UpdatePriceContext, endpointVars, TimersInv, BackoffMeansFailing
  <2> QED
    BY <1>4, <2>1, <2>2, EvaluateModeInv DEF UpdatePriceContext, TimersInv
<1>5. ASSUME NEW e \in Endpoint, TimerSkipsRun(e)
      PROVE  TimersInv'
  <2>1. MinimalModeSheds' /\ StoppedIsQuiet'
    BY <1>5, RearmedInv DEF TimerSkipsRun, modeVars
  <2> QED
    BY <1>5, <2>1 DEF TimerSkipsRun, modeVars, endpointVars, TimersInv,
                      ModeFollowsQuota, TurboIsHeld, BackoffMeansFailing
<1>6. ASSUME NEW e \in Endpoint, TimerStartsRun(e)
      PROVE  TimersInv'
  <2>1. \A f \in Endpoint : due'[f] = NoTimer \/ due'[f] = due[f]
    BY <1>6 DEF TimerStartsRun, TypeOK
  <2> QED
    BY <1>6, <2>1 DEF TimerStartsRun, modeVars, endpointVars, TimersInv, ModeFollowsQuota,
                      TurboIsHeld, MinimalModeSheds, StoppedIsQuiet, BackoffMeansFailing
<1>7. ASSUME NEW e \in Endpoint, RunSucceeds(e)
      PROVE  TimersInv'
  <2>1. MinimalModeSheds' /\ StoppedIsQuiet'
    BY <1>7, RearmedInv DEF RunSucceeds, modeVars
  <2>2. BackoffMeansFailing'
    BY <1>7 DEF RunSucceeds, TimersInv, BackoffMeansFailing, TypeOK
  <2> QED
    BY <1>7, <2>1, <2>2 DEF RunSucceeds, modeVars, TimersInv, ModeFollowsQuota, TurboIsHeld
<1>8. ASSUME NEW e \in Endpoint, RunFails(e)
      PROVE  TimersInv'
  <2>1. MinimalModeSheds' /\ StoppedIsQuiet'
    BY <1>8, RearmedInv DEF RunFails, modeVars
  <2>2. NextPenalty(penalty[e]) \in 1 .. BackoffMax
    BY PenaltyType DEF TypeOK
  <2>3. BackoffMeansFailing'
    BY <1>8, <2>2 DEF RunFails, TimersInv, BackoffMeansFailing, TypeOK
  <2> QED
    BY <1>8, <2>1, <2>3 DEF RunFails, modeVars, TimersInv, ModeFollowsQuota, TurboIsHeld
<1>9. CASE Tick
  <2>1. \A e \in Endpoint : due[e] = NoTimer => due'[e] = NoTimer
    BY <1>9 DEF Tick, Elapse
  <2>2. \A e \in Endpoint : backoff'[e] <= backoff[e] /\ backoff'[e] \in Int
    BY <1>9 DEF Tick, Elapse, TypeOK
  <2>3. turboLeft' > 0 => turboLeft > 0
    BY <1>9 DEF Tick, Elapse, TypeOK
  <2>4. BackoffMeansFailing'
    BY <1>9, <2>2 DEF Tick, TimersInv, BackoffMeansFailing, TypeOK
  <2> QED
    BY <1>9, <2>1, <2>3, <2>4 DEF Tick, TimersInv, ModeFollowsQuota, TurboIsHeld,
                                  MinimalModeSheds, StoppedIsQuiet
<1>10. CASE AdvancePhase
  BY <1>10 DEF AdvancePhase, modeVars, endpointVars, TimersInv, ModeFollowsQuota,
               TurboIsHeld, MinimalModeSheds, StoppedIsQuiet, BackoffMeansFailing
<1>11. CASE UNCHANGED vars
  BY <1>11 DEF vars, TimersInv, ModeFollowsQuota,
               TurboIsHeld, MinimalModeSheds, StoppedIsQuiet, BackoffMeansFailing
<1> QED
  BY <1>1, <1>2, <1>3, <1>4, <1>5, <1>6, <1>7, <1>8, <1>9, <1>10, <1>11 DEF Next

(* The parts beside the types: mode follows quota and hold, minimal mode and *)
(* stop shed timers, backoff and status agree.                              *)
LEMMA TimersInvariant == Spec => []TimersInv
<1>1. Init => TimersInv
  BY DEF Init, TimersInv, ModeFollowsQuota, TurboIsHeld, MinimalModeSheds,
         StoppedIsQuiet, BackoffMeansFailing
<1> QED
  BY <1>1, TypeCorrect, TimersInvStep, PTL DEF Spec

(* The invariant of the scheduler holds for every set of endpoints, every   *)
(* table of intervals and every length of hold and backoff.                 *)
THEOREM SchedulerInvariant == Spec => []SchedulerInv
<1>1. TypeOK /\ TimersInv => SchedulerInv
  BY DEF SchedulerInv, TimersInv
<1> QED
  BY <1>1, TypeCorrect, TimersInvariant, PTL

(* In minimal mode the quota is kept for the critical endpoints: no other   *)
(* endpoint has a timer pending.                                            *)
THEOREM MinimalModeShedsTimers == Spec => []MinimalModeSheds
<1>1. TimersInv => MinimalModeSheds
  BY DEF TimersInv
<1> QED
  BY <1>1, TimersInvariant, PTL

(* A turbo hold outlives quota excursions and price updates.                *)
THEOREM TurboHoldRespected == Spec => []TurboIsHeld
<1>1. TimersInv => TurboIsHeld
  BY DEF TimersInv
<1> QED
  BY <1>1, TimersInvariant, PTL

-----------------------------------------------------------------------------
(* The chain of timers.                                                     *)

(* _scheduleEndpoint leaves an endpoint without a timer only if its         *)
(* interval is null at that moment.                                         *)
LEMMA TimerDropsOnlySkipped ==
    ASSUME NEW e \in Endpoint, NEW m \in Mode, NEW p \in Phase, NEW d \in Nat,
           Timer(e, d, m, p) = NoTimer
    PROVE  CurrentInterval(e, m, p) = Skip
BY DEF Timer

(* One step takes an endpoint out of polling only if it is skipped or the   *)
(* scheduler is stopped after the step.                                     *)
LEMMA DropStep ==
    ASSUME TypeOK, TypeOK', [Next]_vars, NEW e \in Endpoint, Served(e), ~Served(e)'
    PROVE  ~Wanted(e)'
<1>1. CASE Start
  BY <1>1, TimerDropsOnlySkipped DEF Start, modeVars, clockVars, TypeOK, Served, Wanted
<1>2. CASE Stop
  BY <1>2 DEF Stop, Wanted
<1>3. ASSUME NEW u \in Int, NEW t \in Trigger, EvaluateMode(u, t),
             UNCHANGED <<phase, running>>
      PROVE  ~Wanted(e)'
  <2>1. due' = [f \in Endpoint |-> Timer(f, 0, mode', phase)]
    BY <1>3 DEF EvaluateMode, Served
  <2> QED
    BY <1>3, <2>1, TimerDropsOnlySkipped DEF Served, Wanted, TypeOK
<1>4. ASSUME NEW f \in Endpoint, due' = Rearmed(f), UNCHANGED <<phase, mode, started>>,
             \A g \in Endpoint \ {f} : running'[g] = running[g]
      PROVE  ~Wanted(e)'
  <2>1. CASE ~started
    BY <1>4, <2>1 DEF Wanted
  <2>2. CASE started /\ e = f
    <3>1. due'[e] = Timer(e, CurrentInterval(e, mode, phase), mode, phase)
      BY <1>4, <2>2 DEF Rearmed, TypeOK
    <3>2. CurrentInterval(e, mode, phase) \in Nat
      BY IntervalType DEF TypeOK
    <3> QED
      BY <1>4, <3>1, <3>2, TimerDropsOnlySkipped DEF Served, Wanted, TypeOK
  <2>3. CASE started /\ e # f
    <3>1. due'[e] = due[e] /\ running'[e] = running[e]
      BY <1>4, <2>3 DEF Rearmed, TypeOK
    <3> QED
      BY <3>1 DEF Served
  <2> QED
    BY <2>1, <2>2, <2>3
<1>5. ASSUME NEW f \in Endpoint, TimerSkipsRun(f)
      PROVE  ~Wanted(e)'
  BY <1>5, <1>4 DEF TimerSkipsRun, clockVars, modeVars
<1>6. ASSUME NEW f \in Endpoint, TimerStartsRun(f)
      PROVE  ~Wanted(e)'
  <2>1. e = f => running'[e] > 0
    BY <1>6 DEF TimerStartsRun, TypeOK
  <2>2. e # f => due'[e] = due[e] /\ running'[e] = running[e]
    BY <1>6 DEF TimerStartsRun, TypeOK
  <2> QED
    BY <2>1, <2>2 DEF Served
<1>7. ASSUME NEW f \in Endpoint, RunSucceeds(f) \/ RunFails(f)
      PROVE  ~Wanted(e)'
  <2>1. \A g \in Endpoint \ {f} : running'[g] = running[g]
    BY <1>7 DEF RunSucceeds, RunFails, TypeOK
  <2> QED
    BY <1>7, <2>1, <1>4 DEF RunSucceeds, RunFails, clockVars, modeVars
<1>8. CASE Tick
  <2>1. due'[e] = Elapse(due[e]) /\ running'[e] = running[e]
    BY <1>8 DEF Tick
  <2> QED
    BY <2>1 DEF Served, Elapse, TypeOK
<1>9. CASE AdvancePhase \/ UNCHANGED vars
  BY <1>9 DEF AdvancePhase, vars, Served
<1>10. ASSUME NEW q \in QuotaReports, UpdateQuota(q)
       PROVE  ~Wanted(e)'
  BY <1>10, <1>3, UsageType DEF UpdateQuota, clockVars, TypeOK
<1>11. ASSUME NEW t \in Trigger, UpdatePriceContext(t)
       PROVE  ~Wanted(e)'
  BY <1>11, <1>3 DEF UpdatePriceContext, clockVars, TypeOK
<1> QED
  BY <1>1, <1>2, <1>5, <1>6, <1>7, <1>8, <1>9, <1>10, <1>11 DEF Next

(* The chain of timers of an endpoint is never lost to overlapping runs,    *)
(* backoff, failures or a change of mode.                                   *)
THEOREM ChainKept == Spec => DropsOutOnlyWhenSkipped
<1>1. TypeOK /\ TypeOK' /\ [Next]_vars =>
        [\A e \in Endpoint : Served(e) /\ ~Served(e)' => ~Wanted(e)']_vars
  BY DropStep
<1> QED
  BY <1>1, TypeCorrect, PTL DEF Spec, DropsOutOnlyWhenSkipped

-----------------------------------------------------------------------------
(* The live refresh loop.  Its steps are steps of the scheduler, so that the *)
(* scheduler's types and its rule for a stopped scheduler hold in it too.    *)

\* The price context of a scheduler stays one that _detectKeyLevel can answer.
TriggerOK == trigger \in Trigger

\* Every step of the scheduler keeps TriggerOK.
LEMMA TriggerStep == TriggerOK /\ [Next]_vars => TriggerOK'
BY DEF TriggerOK, Next, vars, modeVars, Start, Stop, UpdateQuota, UpdatePriceContext,
       TimerSkipsRun, TimerStartsRun, RunSucceeds, RunFails, Tick, AdvancePhase, Trigger

\* Every step of the loop is a step of the scheduler or leaves it alone.
LEMMA StepDrives == TriggerOK /\ [LoopNext]_loopVars => [Next]_vars
<1> SUFFICES ASSUME TriggerOK, [LoopNext]_loopVars
             PROVE  [Next]_vars
  OBVIOUS
<1>1. CASE SchedulerAlone
  BY <1>1 DEF SchedulerAlone, Next
<1>2. ASSUME NEW e \in Endpoint, NEW i \in Slot, PollStarts(e, i)
      PROVE  [Next]_vars
  BY <1>2 DEF PollStarts, Next
<1>3. CASE WarmupStarts \/ WarmupEnds
  BY <1>3 DEF WarmupStarts, WarmupEnds, vars
<1>4. ASSUME NEW p \in Poller, NEW failed \in SUBSET UwEndpoint, PollReports(p, failed)
      PROVE  [Next]_vars
  <2>1. CASE \E q \in QuotaReports : UpdateQuota(q)
    BY <2>1 DEF Next
  <2>2. CASE UpdatePriceContext(trigger)
    BY <2>2 DEF TriggerOK, Next
  <2> QED BY <1>4, <2>1, <2>2 DEF PollReports
<1>5. ASSUME NEW p \in Poller, PollSetsPrice(p)
      PROVE  [Next]_vars
  BY <1>5, LiveRefreshAssumption DEF PollSetsPrice, Next, Trigger
<1>6. ASSUME NEW e \in Endpoint, NEW i \in Slot, PollEnds(e, i)
      PROVE  [Next]_vars
  BY <1>6 DEF PollEnds, Next
<1>7. CASE LoopTick
  BY <1>7 DEF LoopTick, Next
<1>8. CASE UNCHANGED loopVars
  BY <1>8 DEF loopVars, vars
<1> QED
  BY <1>1, <1>2, <1>3, <1>4, <1>5, <1>6, <1>7, <1>8 DEF LoopNext

\* The scheduler inside the loop keeps its own invariant.
LEMMA LoopKeepsScheduler == LoopSpec => [](TypeOK /\ StoppedIsQuiet)
<1>1. LoopInit => Init /\ TriggerOK
  BY DEF LoopInit, Init, TriggerOK, Trigger
<1>2. LoopSpec => Spec
  BY <1>1, StepDrives, TriggerStep, PTL DEF LoopSpec, Spec
<1>3. SchedulerInv => TypeOK /\ StoppedIsQuiet
  BY DEF SchedulerInv
<1> QED
  BY <1>2, <1>3, SchedulerInvariant, PTL

\* The slots of an endpoint are finitely many, those in use too.
LEMMA SlotsFinite == \A e \in Endpoint : IsFiniteSet(SlotsOut(e)) /\ Cardinality(SlotsOut(e)) \in Nat
<1>1. IsFiniteSet(Slot)
  BY FS_Interval, DelayAssumption DEF Slot
<1>2. \A e \in Endpoint : IsFiniteSet(SlotsOut(e))
  BY <1>1, FS_Subset DEF SlotsOut
<1> QED
  BY <1>2, FS_CardinalityType

\* A poller is a slot of an endpoint or that of the warmups, which is no slot.
LEMMA PollerFacts ==
    /\ WarmupPoller \in Poller
    /\ \A e \in Endpoint, i \in Slot : <<e, i>> \in Poller /\ <<e, i>> # WarmupPoller
    /\ \A p \in Poller : p = WarmupPoller \/ \E e \in Endpoint, i \in Slot : p = <<e, i>>
BY DelayAssumption DEF Poller, WarmupPoller, Slot

\* A step of the loop keeps the types of what it adds to the scheduler.
LEMMA LoopTypeStep == LoopTypeOK /\ [LoopNext]_loopVars => LoopTypeOK'
<1> SUFFICES ASSUME LoopTypeOK, [LoopNext]_loopVars
             PROVE  LoopTypeOK'
  OBVIOUS
<1> USE DEF LoopTypeOK
<1>1. Idle \in PollRecord /\ [Idle EXCEPT !.pc = "reported"] \in PollRecord
  BY LiveRefreshAssumption DEF Idle, PollRecord
<1>2. ASSUME NEW p \in Poller, Asking(p)
      PROVE  poll' \in [Poller -> PollRecord]
  BY <1>2, LiveRefreshAssumption DEF Asking, Expired, PollRecord
<1>3. CASE SchedulerAlone
  BY <1>3 DEF SchedulerAlone
<1>4. ASSUME NEW e \in Endpoint, NEW i \in Slot, PollStarts(e, i)
      PROVE  LoopTypeOK'
  BY <1>4, <1>2, PollerFacts DEF PollStarts
<1>5. CASE WarmupStarts
  BY <1>5, <1>2, PollerFacts DEF WarmupStarts
<1>6. ASSUME NEW p \in Poller, NEW failed \in SUBSET UwEndpoint, PollReports(p, failed)
      PROVE  LoopTypeOK'
  <2>1. poll[p] \in PollRecord
    OBVIOUS
  <2>2. LeftOfAnswer(p) \in 0 .. Ttl /\ poll[p].kept \in [UwEndpoint -> 0 .. Ttl]
    BY <2>1, LiveRefreshAssumption DEF LeftOfAnswer, PollRecord
  <2>3. left' \in [UwEndpoint -> 0 .. Ttl]
    BY <1>6, <2>2 DEF PollReports
  <2>4. poll' \in [Poller -> PollRecord]
    BY <1>6, <1>1 DEF PollReports
  <2>5. spurred' \subseteq Endpoint
    BY <1>6 DEF PollReports, SpurredBy, Beside
  <2> QED BY <2>3, <2>4, <2>5
<1>7. ASSUME NEW p \in Poller, PollSetsPrice(p)
      PROVE  LoopTypeOK'
  <2>1. [poll[p] EXCEPT !.pc = "priced"] \in PollRecord
    BY DEF PollRecord
  <2> QED BY <1>7, <2>1 DEF PollSetsPrice, SpurredBy, Beside
<1>8. ASSUME NEW e \in Endpoint, NEW i \in Slot, PollEnds(e, i)
      PROVE  LoopTypeOK'
  BY <1>8, <1>1, PollerFacts DEF PollEnds
<1>9. CASE WarmupEnds
  BY <1>9, <1>1, PollerFacts DEF WarmupEnds
<1>10. CASE LoopTick
  <2>1. ASSUME NEW entries \in [UwEndpoint -> 0 .. Ttl]
        PROVE  Aged(entries) \in [UwEndpoint -> 0 .. Ttl]
    BY LiveRefreshAssumption DEF Aged, Elapse
  <2>2. ASSUME NEW p \in Poller
        PROVE  [poll[p] EXCEPT !.since = Smaller(@ + 1, Ttl), !.kept = Aged(@)] \in PollRecord
    <3>1. poll[p] \in PollRecord
      OBVIOUS
    <3>2. Smaller(poll[p].since + 1, Ttl) \in 0 .. Ttl
      BY <3>1, LiveRefreshAssumption DEF PollRecord, Smaller
    <3>3. Aged(poll[p].kept) \in [UwEndpoint -> 0 .. Ttl]
      BY <3>1, <2>1 DEF PollRecord
    <3> QED BY <3>1, <3>2, <3>3 DEF PollRecord
  <2> QED BY <1>10, <2>1, <2>2 DEF LoopTick
<1>11. CASE UNCHANGED loopVars
  BY <1>11 DEF loopVars
<1> QED
  BY <1>3, <1>4, <1>5, <1>6, <1>7, <1>8, <1>9, <1>10, <1>11 DEF LoopNext

\* The steps that neither start nor end a poll of an endpoint leave its slots.
LEMMA SlotsKept ==
    ASSUME LoopTypeOK, NEW e \in Endpoint,
           \A i \in Slot : Out(<<e, i>>)' <=> Out(<<e, i>>)
    PROVE  SlotsOut(e)' = SlotsOut(e)
BY DEF SlotsOut

\* A poll that settles, or runs on, stays out and is the one that runs on.
LEMMA SettlingKeepsSlots ==
    ASSUME LoopTypeOK, NEW p \in Poller, NEW failed \in SUBSET UwEndpoint,
           PollReports(p, failed) \/ PollSetsPrice(p)
    PROVE  /\ \A q \in Poller : Out(q)' <=> Out(q)
           /\ \A q \in Poller \ {p} : RunsOn(q)' <=> RunsOn(q)
           /\ RunsOn(p)'
<1>1. Out(p) /\ Out(p)' /\ RunsOn(p)'
  BY DEF PollReports, PollSetsPrice, Out, RunsOn, LoopTypeOK, Idle, PollRecord
<1>2. \A q \in Poller \ {p} : poll'[q] = poll[q]
  BY DEF PollReports, PollSetsPrice, LoopTypeOK
<1> QED
  BY <1>1, <1>2 DEF Out, RunsOn

\* The clock, a skipped run and a change of phase start and end no poll.
LEMMA OthersKeepSlots ==
    ASSUME LoopTypeOK, LoopTick \/ SchedulerAlone \/ UNCHANGED loopVars, NEW q \in Poller
    PROVE  (Out(q)' <=> Out(q)) /\ (RunsOn(q)' <=> RunsOn(q))
<1>1. LoopTick => poll'[q].pc = poll[q].pc
  <2>1. poll[q] \in PollRecord
    BY DEF LoopTypeOK
  <2> QED
    BY <2>1 DEF LoopTick, PollRecord
<1> QED
  BY <1>1 DEF SchedulerAlone, loopVars, Out, RunsOn

\* A poll that starts is out, waits for its answers, and leaves the others.
LEMMA AskingTakesSlot ==
    ASSUME LoopTypeOK, NEW p \in Poller, Asking(p)
    PROVE  Out(p)' /\ ~RunsOn(p)' /\ \A q \in Poller \ {p} : poll'[q] = poll[q]
BY DEF Asking, Out, RunsOn, LoopTypeOK

\* The scheduler's count goes with the polls: every step of the loop keeps it.
LEMMA CountStep ==
    LoopTypeOK /\ TypeOK /\ RunsAreCounted /\ [LoopNext]_loopVars => RunsAreCounted'
<1> SUFFICES ASSUME LoopTypeOK, TypeOK, RunsAreCounted, [LoopNext]_loopVars
             PROVE  RunsAreCounted'
  OBVIOUS
<1>1. ASSUME UNCHANGED running,
             \A e \in Endpoint, i \in Slot : Out(<<e, i>>)' <=> Out(<<e, i>>)
      PROVE  RunsAreCounted'
  BY <1>1, SlotsKept DEF RunsAreCounted
<1>2. CASE SchedulerAlone \/ LoopTick \/ UNCHANGED loopVars
  <2>1. UNCHANGED running
    BY <1>2 DEF SchedulerAlone, Start, AdvancePhase, TimerSkipsRun, LoopTick, Tick, loopVars, vars
  <2> QED
    BY <1>1, <1>2, <2>1, OthersKeepSlots, PollerFacts
<1>3. ASSUME NEW e \in Endpoint, NEW i \in Slot, PollStarts(e, i)
      PROVE  RunsAreCounted'
  <2>1. /\ ~Out(<<e, i>>) /\ Out(<<e, i>>)'
        /\ \A q \in Poller \ {<<e, i>>} : Out(q)' <=> Out(q)
    BY <1>3, AskingTakesSlot, PollerFacts DEF PollStarts, Out
  <2>2. SlotsOut(e)' = SlotsOut(e) \cup {i} /\ i \notin SlotsOut(e)
    BY <2>1, PollerFacts DEF SlotsOut
  <2>3. Cardinality(SlotsOut(e)') = Cardinality(SlotsOut(e)) + 1
    BY <2>2, SlotsFinite, FS_AddElement
  <2>4. running' = [running EXCEPT ![e] = @ + 1]
    BY <1>3 DEF PollStarts, TimerStartsRun
  <2>5. \A f \in Endpoint \ {e} : SlotsOut(f)' = SlotsOut(f)
    BY <2>1, PollerFacts DEF SlotsOut
  <2> QED
    BY <2>3, <2>4, <2>5 DEF RunsAreCounted, TypeOK
<1>4. ASSUME NEW e \in Endpoint, NEW i \in Slot, PollEnds(e, i)
      PROVE  RunsAreCounted'
  <2>1. /\ Out(<<e, i>>) /\ ~Out(<<e, i>>)'
        /\ \A q \in Poller \ {<<e, i>>} : Out(q)' <=> Out(q)
    BY <1>4, PollerFacts DEF PollEnds, Out, Idle, LoopTypeOK
  <2>2. SlotsOut(e)' = SlotsOut(e) \ {i} /\ i \in SlotsOut(e)
    BY <2>1, PollerFacts DEF SlotsOut
  <2>3. Cardinality(SlotsOut(e)') = Cardinality(SlotsOut(e)) - 1
    BY <2>2, SlotsFinite, FS_RemoveElement
  <2>4. running' = [running EXCEPT ![e] = @ - 1]
    BY <1>4 DEF PollEnds, RunSucceeds
  <2>5. \A f \in Endpoint \ {e} : SlotsOut(f)' = SlotsOut(f)
    BY <2>1, PollerFacts DEF SlotsOut
  <2> QED
    BY <2>3, <2>4, <2>5 DEF RunsAreCounted, TypeOK
<1>5. CASE WarmupStarts \/ WarmupEnds
  <2>1. \A e \in Endpoint, i \in Slot : poll'[<<e, i>>] = poll[<<e, i>>]
    BY <1>5, AskingTakesSlot, PollerFacts DEF WarmupStarts, WarmupEnds, LoopTypeOK
  <2> QED
    BY <1>1, <1>5, <2>1 DEF WarmupStarts, WarmupEnds, vars, Out
<1>6. ASSUME NEW p \in Poller, NEW failed \in SUBSET UwEndpoint,
             PollReports(p, failed) \/ PollSetsPrice(p)
      PROVE  RunsAreCounted'
  <2>1. UNCHANGED running
    BY <1>6 DEF PollReports, PollSetsPrice, UpdateQuota, UpdatePriceContext
  <2> QED
    BY <1>1, <1>6, <2>1, SettlingKeepsSlots, PollerFacts
<1> QED
  BY <1>2, <1>3, <1>4, <1>5, <1>6 DEF LoopNext

\* Before the start nothing is polled.
StopMeansNoPoll == ~started => \A e \in Endpoint : SlotsOut(e) = {}

\* Every step of the loop keeps the one chain of an endpoint that is not spurred.
LEMMA ChainStep ==
    LoopTypeOK /\ TypeOK /\ StoppedIsQuiet /\ StopMeansNoPoll /\ OneChainUnlessSpurred
      /\ [LoopNext]_loopVars => OneChainUnlessSpurred' /\ StopMeansNoPoll'
<1> SUFFICES ASSUME LoopTypeOK, TypeOK, StoppedIsQuiet, StopMeansNoPoll, OneChainUnlessSpurred,
                    [LoopNext]_loopVars
             PROVE  OneChainUnlessSpurred' /\ StopMeansNoPoll'
  OBVIOUS
<1>0. \A e \in Endpoint : SlotsOut(e) \subseteq Slot /\ SlotsOut(e)' \subseteq Slot
  BY DEF SlotsOut
<1>1. CASE SchedulerAlone
  <2>1. \A e \in Endpoint : /\ SlotsOut(e)' = SlotsOut(e)
                            /\ \A i \in Slot : RunsOn(<<e, i>>)' <=> RunsOn(<<e, i>>)
    BY <1>1, OthersKeepSlots, SlotsKept, PollerFacts
  <2>2. CASE Start
    BY <1>1, <2>1, <2>2 DEF Start, SchedulerAlone, StopMeansNoPoll, OneChainUnlessSpurred
  <2>3. CASE AdvancePhase
    BY <1>0, <1>1, <2>1, <2>3 DEF AdvancePhase, SchedulerAlone, StopMeansNoPoll, OneChainUnlessSpurred
  <2>4. ASSUME NEW f \in Endpoint, TimerSkipsRun(f)
        PROVE  OneChainUnlessSpurred' /\ StopMeansNoPoll'
    <3>1. f \notin spurred => SlotsOut(f) = {}
      BY <1>1, <2>4, PollerFacts
         DEF TimerSkipsRun, SchedulerAlone, EventLoopFree, OneChainUnlessSpurred, SlotsOut
    <3>2. \A e \in Endpoint \ {f} : due'[e] = due[e]
      BY <2>4 DEF TimerSkipsRun, Rearmed, TypeOK
    <3> QED
      BY <1>0, <1>1, <2>1, <2>4, <3>1, <3>2
         DEF TimerSkipsRun, SchedulerAlone, OneChainUnlessSpurred, StopMeansNoPoll
  <2> QED
    BY <1>1, <2>2, <2>3, <2>4 DEF SchedulerAlone
<1>2. ASSUME NEW f \in Endpoint, NEW k \in Slot, PollStarts(f, k)
      PROVE  OneChainUnlessSpurred' /\ StopMeansNoPoll'
  <2>1. /\ Out(<<f, k>>)' /\ ~RunsOn(<<f, k>>)'
        /\ \A q \in Poller \ {<<f, k>>} : (Out(q)' <=> Out(q)) /\ (RunsOn(q)' <=> RunsOn(q))
    BY <1>2, AskingTakesSlot, PollerFacts DEF PollStarts, Out, RunsOn
  <2>2. f \notin spurred => SlotsOut(f) = {}
    BY <1>2, PollerFacts DEF PollStarts, TimerStartsRun, EventLoopFree, OneChainUnlessSpurred, SlotsOut
  <2>3. f \notin spurred => SlotsOut(f)' = {k}
    BY <2>1, <2>2, PollerFacts DEF SlotsOut
  <2>4. \A e \in Endpoint \ {f} : /\ SlotsOut(e)' = SlotsOut(e)
                                  /\ \A i \in Slot : RunsOn(<<e, i>>)' <=> RunsOn(<<e, i>>)
    BY <2>1, PollerFacts DEF SlotsOut
  <2>5. /\ due' = [due EXCEPT ![f] = NoTimer] /\ started' = started /\ spurred' = spurred
        /\ started
    BY <1>2 DEF PollStarts, TimerStartsRun, StoppedIsQuiet
  <2> QED
    BY <1>0, <2>3, <2>4, <2>5 DEF OneChainUnlessSpurred, StopMeansNoPoll, TypeOK
<1>3. ASSUME NEW f \in Endpoint, NEW k \in Slot, PollEnds(f, k)
      PROVE  OneChainUnlessSpurred' /\ StopMeansNoPoll'
  <2>1. /\ Out(<<f, k>>) /\ ~Out(<<f, k>>)'
        /\ \A q \in Poller \ {<<f, k>>} : (Out(q)' <=> Out(q)) /\ (RunsOn(q)' <=> RunsOn(q))
    BY <1>3, PollerFacts DEF PollEnds, Out, RunsOn, Idle, LoopTypeOK
  <2>2. SlotsOut(f)' = SlotsOut(f) \ {k} /\ k \in SlotsOut(f)
    BY <2>1, PollerFacts DEF SlotsOut
  <2>3. f \notin spurred' => SlotsOut(f)' = {}
    <3>1. CASE f \in Beside(<<f, k>>)
      BY <1>3, <2>2, <3>1 DEF PollEnds, OneChainUnlessSpurred
    <3>2. CASE f \notin Beside(<<f, k>>)
      BY <2>2, <3>2 DEF Beside, SlotsOut
    <3> QED
      BY <3>1, <3>2
  <2>4. \A e \in Endpoint \ {f} : /\ SlotsOut(e)' = SlotsOut(e)
                                  /\ \A i \in Slot : RunsOn(<<e, i>>)' <=> RunsOn(<<e, i>>)
    BY <2>1, PollerFacts DEF SlotsOut
  <2>5. /\ \A e \in Endpoint \ {f} : due'[e] = due[e] /\ (e \in spurred' <=> e \in spurred)
        /\ started' = started
    BY <1>3 DEF PollEnds, RunSucceeds, Rearmed, TypeOK
  <2> QED
    BY <1>0, <2>2, <2>3, <2>4, <2>5 DEF OneChainUnlessSpurred, StopMeansNoPoll
<1>4. ASSUME NEW p \in Poller, NEW failed \in SUBSET UwEndpoint,
             PollReports(p, failed) \/ PollSetsPrice(p)
      PROVE  OneChainUnlessSpurred' /\ StopMeansNoPoll'
  <2>1. /\ \A q \in Poller : Out(q)' <=> Out(q)
        /\ \A q \in Poller \ {p} : RunsOn(q)' <=> RunsOn(q)
        /\ RunsOn(p)'
    BY <1>4, SettlingKeepsSlots
  <2>2. \A e \in Endpoint : SlotsOut(e)' = SlotsOut(e)
    BY <2>1, PollerFacts DEF SlotsOut
  <2>3. started' = started
    BY <1>4 DEF PollReports, PollSetsPrice, UpdateQuota, UpdatePriceContext
  <2>4. SpurredBy(p)
    BY <1>4 DEF PollReports, PollSetsPrice
  <2>5. \A e \in Endpoint, i \in Slot : RunsOn(<<e, i>>) => RunsOn(<<e, i>>)'
    BY <2>1, PollerFacts
  <2>6. CASE mode' = mode
    <3>1. due' = due
      BY <1>4, <2>6 DEF PollReports, PollSetsPrice, UpdateQuota, UpdatePriceContext, EvaluateMode
    <3>2. spurred' = spurred
      BY <2>4, <2>6 DEF SpurredBy
    <3> QED
      BY <2>2, <2>3, <2>5, <3>1, <3>2 DEF OneChainUnlessSpurred, StopMeansNoPoll, SlotsOut
  <2>7. CASE mode' # mode
    <3>1. spurred' = spurred \cup Beside(p)
      BY <2>4, <2>7 DEF SpurredBy
    <3>2. ASSUME NEW e \in Endpoint \ spurred', NEW i \in SlotsOut(e)
          PROVE  <<e, i>> = p
      BY <3>1, <3>2 DEF Beside, SlotsOut
    <3>3. \A e \in Endpoint \ spurred' : e \notin spurred
      BY <3>1
    <3> QED
      BY <2>1, <2>2, <2>3, <3>2, <3>3 DEF OneChainUnlessSpurred, StopMeansNoPoll
  <2> QED
    BY <2>6, <2>7
<1>5. CASE WarmupStarts \/ WarmupEnds
  <2>1. \A e \in Endpoint, i \in Slot : poll'[<<e, i>>] = poll[<<e, i>>]
    BY <1>5, AskingTakesSlot, PollerFacts DEF WarmupStarts, WarmupEnds, LoopTypeOK
  <2>2. UNCHANGED <<vars, spurred>>
    BY <1>5 DEF WarmupStarts, WarmupEnds
  <2>3. \A e \in Endpoint : /\ SlotsOut(e)' = SlotsOut(e)
                            /\ \A i \in Slot : RunsOn(<<e, i>>)' <=> RunsOn(<<e, i>>)
    BY <2>1 DEF SlotsOut, Out, RunsOn
  <2> QED
    BY <1>0, <2>2, <2>3 DEF OneChainUnlessSpurred, StopMeansNoPoll, vars
<1>6. CASE LoopTick \/ UNCHANGED loopVars
  <2>1. \A e \in Endpoint : /\ SlotsOut(e)' = SlotsOut(e)
                            /\ \A i \in Slot : RunsOn(<<e, i>>)' <=> RunsOn(<<e, i>>)
    BY <1>6, OthersKeepSlots, SlotsKept, PollerFacts
  <2>2. \A e \in Endpoint : due[e] = NoTimer => due'[e] = NoTimer
    <3>1. LoopTick => due' = [e \in Endpoint |-> Elapse(due[e])]
      BY DEF LoopTick, Tick
    <3>2. UNCHANGED loopVars => due' = due
      BY DEF loopVars, vars
    <3>3. Elapse(NoTimer) = NoTimer
      BY DEF Elapse
    <3> QED
      BY <1>6, <3>1, <3>2, <3>3
  <2>3. UNCHANGED <<spurred, started>>
    BY <1>6 DEF LoopTick, Tick, loopVars, vars
  <2> QED
    BY <1>0, <2>1, <2>2, <2>3 DEF OneChainUnlessSpurred, StopMeansNoPoll
<1> QED
  BY <1>1, <1>2, <1>3, <1>4, <1>5, <1>6 DEF LoopNext

(* The feedback of a poll into the scheduler that awaits it never doubles   *)
(* its own chain: two polls of one endpoint, or a poll beside a timer, are  *)
(* found only where another poll changed the mode meanwhile.                *)
THEOREM LoopInvariant == LoopSpec => []LoopInv
<1> DEFINE Inv == LoopInv /\ StopMeansNoPoll
<1>1. LoopInit => Inv
  <2> SUFFICES ASSUME LoopInit
               PROVE  Inv
    OBVIOUS
  <2>1. LoopTypeOK
    BY LiveRefreshAssumption DEF LoopInit, LoopTypeOK, Idle, PollRecord
  <2>2. \A e \in Endpoint : SlotsOut(e) = {}
    BY PollerFacts DEF LoopInit, Idle, SlotsOut, Out
  <2>3. Cardinality({}) = 0
    BY FS_EmptySet
  <2> QED
    BY <2>1, <2>2, <2>3
       DEF LoopInit, Init, LoopInv, RunsAreCounted, OneChainUnlessSpurred, StopMeansNoPoll
<1>2. Inv /\ TypeOK /\ StoppedIsQuiet /\ [LoopNext]_loopVars => Inv'
  BY LoopTypeStep, CountStep, ChainStep DEF LoopInv
<1> QED
  BY <1>1, <1>2, LoopKeepsScheduler, PTL DEF LoopSpec
=============================================================================
