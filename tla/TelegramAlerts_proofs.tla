------------------------ MODULE TelegramAlerts_proofs ------------------------
(***************************************************************************)
(* What holds of the two senders for any tasks, orders, plans and window.   *)
(***************************************************************************)
EXTENDS TelegramAlerts, TLAPS

-----------------------------------------------------------------------------
(* The events of a task.                                                    *)

(* The checks have an order.                                                *)
LEMMA RankType ==
    /\ \A type \in EventType : Rank(type) \in 1 .. 5
    /\ \A a, b \in EventType : Rank(a) = Rank(b) => a = b
<1>1. /\ Rank("status_ready") = 1 /\ Rank("status_blocked") = 2 /\ Rank("direction_flip") = 3
      /\ Rank("confidence_up") = 4 /\ Rank("instrument_change") = 5
  BY DEF Rank
<1> QED
  BY <1>1 DEF EventType

(* Whatever is left has a first event.                                      *)
LEMMA FirstIsFirst ==
    ASSUME NEW events \in SUBSET EventType, events # {}
    PROVE  First(events) \in events /\ \A e \in events : Rank(First(events)) <= Rank(e)
<1>1. \E type \in events : \A e \in events : Rank(type) <= Rank(e)
  <2>1. \A n \in 1 .. 5 : (\E type \in events : Rank(type) = n) \/ (\A type \in events : Rank(type) # n)
    OBVIOUS
  <2>2. \E type \in events : Rank(type) \in 1 .. 5
    BY RankType
  <2> QED
    BY <2>1, <2>2, RankType
<1> QED
  BY <1>1 DEF First

(* sendAbTelegramAlerts goes on with events of the list, and the next one   *)
(* is not passed over.                                                      *)
LEMMA NextIsSent ==
    ASSUME NEW events \in SUBSET EventType, NEW ab
    PROVE  /\ FromNextSend(events, ab) \in SUBSET events
           /\ \A e \in events : ~PassedOver(e, ab) => e \in FromNextSend(events, ab)
           /\ FromNextSend(events, ab) # {} => ~PassedOver(First(FromNextSend(events, ab)), ab)
<1> DEFINE Left == FromNextSend(events, ab)
<1>1. Left \in SUBSET events
  BY DEF FromNextSend
<1>2. \A e \in events : ~PassedOver(e, ab) => e \in Left
  BY RankType DEF FromNextSend
<1>3. ASSUME Left # {}
      PROVE  ~PassedOver(First(Left), ab)
  <2>1. First(Left) \in Left /\ \A e \in Left : Rank(First(Left)) <= Rank(e)
    BY <1>1, <1>3, FirstIsFirst
  <2>2. PICK e \in events : ~PassedOver(e, ab) /\ Rank(e) <= Rank(First(Left))
    BY <2>1 DEF FromNextSend
  <2>3. e \in Left
    BY <1>2, <2>2
  <2>4. Rank(e) = Rank(First(Left))
    BY <2>1, <2>2, <2>3, <1>1, RankType
  <2> QED
    BY <2>1, <2>2, <2>4, <1>1, RankType
<1> QED
  BY <1>1, <1>2, <1>3

(* What the watcher detects are events.                                     *)
LEMMA DetectedType ==
    ASSUME NEW last, NEW sig
    PROVE  Detected(last, sig) \in SUBSET EventType
BY DEF Detected

-----------------------------------------------------------------------------
(* The inductive invariant.                                                 *)

\* A task that is not idle has its signal, and one that sends has an alert.
Engaged ==
    \A t \in Task :
        /\ task[t].pc # "idle" => task[t].sig \in Signal
        /\ task[t].pc = "sending" => task[t].todo # {}

\* The dedupe store is what Telegram accepted.
MarkedIfTold == dedupe = accepted

IInv == TypeOK /\ Engaged /\ MarkedIfTold

(* The key a sending task marks is a key of the store.                      *)
LEMMA KeyOfSend ==
    ASSUME IInv, NEW t \in Task, task[t].pc = "sending"
    PROVE  /\ SendingKey(t) \in Key
           /\ t \in RefreshTask => First(task[t].todo) \in task[t].todo
<1>1. task[t].sig \in Signal /\ task[t].todo # {}
  BY DEF IInv, Engaged
<1>2. CASE t \in HookTask
  BY <1>1, <1>2, AlertAssumption DEF SendingKey, Key, Signal
<1>3. CASE t \in RefreshTask
  <2>1. task[t].todo \in SUBSET EventType
    BY <1>3 DEF IInv, TypeOK
  <2>2. First(task[t].todo) \in task[t].todo
    BY <2>1, <1>1, FirstIsFirst
  <2> QED
    BY <1>1, <1>3, <2>1, <2>2, AlertAssumption DEF SendingKey, Key, Signal
<1> QED
  BY <1>2, <1>3 DEF Task

(* A record of a task that is well formed.                                  *)
Sane(t, r) ==
    /\ r \in [pc : {"idle", "computing", "sending"}, sig : Signal \cup {None},
              todo : SUBSET (EventType \cup {"plan"})]
    /\ r.todo \subseteq (IF t \in RefreshTask THEN EventType ELSE {"plan"})
    /\ r.pc # "idle" => r.sig \in Signal
    /\ r.pc = "sending" => r.todo # {}

(* A task that is not under way is sane.                                     *)
LEMMA IdleIsSane == \A t \in Task : Sane(t, Idle)
BY DEF Sane, Idle

(* So is one that goes on with the alerts it has left.                       *)
LEMMA ContinueIsSane ==
    ASSUME NEW t \in Task, NEW sig \in Signal,
           NEW todo \in SUBSET (IF t \in RefreshTask THEN EventType ELSE {"plan"})
    PROVE  Sane(t, Continue(sig, todo))
<1>1. CASE todo = {}
  BY <1>1, IdleIsSane DEF Continue
<1>2. CASE todo # {}
  <2>1. Continue(sig, todo) = [pc |-> "sending", sig |-> sig, todo |-> todo]
    BY <1>2 DEF Continue
  <2>2. todo \in SUBSET (EventType \cup {"plan"})
    OBVIOUS
  <2> QED
    BY <1>2, <2>1, <2>2 DEF Sane
<1> QED
  BY <1>1, <1>2

(* So is one that has dealt with an alert.                                   *)
LEMMA OnwardIsSane ==
    ASSUME IInv, NEW t \in Task, task[t].pc = "sending"
    PROVE  Sane(t, Onward(t))
<1>1. task[t].sig \in Signal
  BY DEF IInv, Engaged
<1>2. CASE t \in HookTask
  BY <1>2, IdleIsSane DEF Onward
<1>3. CASE t \notin HookTask
  <2> DEFINE Rest == task[t].todo \ {First(task[t].todo)}
  <2>1. t \in RefreshTask
    BY <1>3 DEF Task
  <2>2. Rest \in SUBSET EventType
    BY <2>1 DEF IInv, TypeOK
  <2>3. FromNextSend(Rest, task[t].sig.ab) \in SUBSET EventType
    BY <2>2, NextIsSent
  <2> QED
    BY <1>1, <1>3, <2>1, <2>3, ContinueIsSane DEF Onward
<1> QED
  BY <1>2, <1>3

(* Replacing the record of a task by a sane one keeps the tasks in order.   *)
LEMMA TaskStepKeeps ==
    ASSUME IInv, NEW t \in Task, NEW r, Sane(t, r), task' = [task EXCEPT ![t] = r]
    PROVE  /\ task' \in [Task -> [pc : {"idle", "computing", "sending"}, sig : Signal \cup {None},
                                  todo : SUBSET (EventType \cup {"plan"})]]
           /\ \A u \in Task : task'[u].todo \subseteq (IF u \in RefreshTask THEN EventType ELSE {"plan"})
           /\ Engaged'
BY DEF IInv, TypeOK, Engaged, Sane

(* No task, no key and no history at the start.                              *)
LEMMA InitIInv == Init => IInv
<1> SUFFICES ASSUME Init
             PROVE  IInv
  OBVIOUS
<1>1. market \in Signal
  BY AlertAssumption DEF Init, Signal
<1>2. \A t \in Task : Sane(t, Idle)
  BY IdleIsSane
<1>3. /\ dedupe \in [Key -> 0 .. Window]
      /\ accepted \in [Key -> 0 .. Window]
  BY AlertAssumption DEF Init
<1> QED
  BY <1>1, <1>2, <1>3 DEF Init, IInv, TypeOK, Engaged, MarkedIfTold, Sane, Idle

(* Every step of a task, the clock and the market keeps it.                  *)
LEMMA IInvStep == IInv /\ [Next]_vars => IInv'
<1> SUFFICES ASSUME IInv, [Next]_vars
             PROVE  IInv'
  OBVIOUS
<1>1. CASE MarketMoves
  <2>1. market' \in Signal
    BY <1>1, AlertAssumption DEF MarketMoves, Signal, IInv, TypeOK
  <2> QED
    BY <1>1, <2>1 DEF MarketMoves, history, IInv, TypeOK, Engaged, MarkedIfTold
<1>2. ASSUME NEW t \in Task, StartTask(t)
      PROVE  IInv'
  <2>1. Sane(t, [pc |-> "computing", sig |-> market, todo |-> {}])
    BY DEF IInv, TypeOK, Sane
  <2> QED
    BY <1>2, <2>1, TaskStepKeeps DEF StartTask, history, IInv, TypeOK, MarkedIfTold
<1>3. ASSUME NEW t \in Task, DetectChange(t)
      PROVE  IInv'
  <2> DEFINE sig == task[t].sig
             left == FromNextSend(Detected(lastState, sig), sig.ab)
  <2>1. sig \in Signal
    BY <1>3 DEF DetectChange, IInv, Engaged
  <2>2. left \in SUBSET EventType
    BY DetectedType, NextIsSent
  <2>3. Sane(t, Continue(sig, left))
    BY <1>3, <2>1, <2>2, ContinueIsSane DEF DetectChange
  <2> QED
    BY <1>3, <2>1, <2>3, TaskStepKeeps DEF DetectChange, history, IInv, TypeOK, MarkedIfTold
<1>4. ASSUME NEW t \in Task, CheckPlan(t)
      PROVE  IInv'
  <2> DEFINE send == TelegramLevel(task[t].sig.plan) # "L1" /\ ~Duplicate(PlanKey(task[t].sig.plan))
  <2>1. task[t].sig \in Signal /\ t \notin RefreshTask
    BY <1>4, AlertAssumption DEF CheckPlan, IInv, Engaged
  <2>2. Sane(t, Continue(task[t].sig, IF send THEN {"plan"} ELSE {}))
    BY <2>1, ContinueIsSane
  <2> QED
    BY <1>4, <2>2, TaskStepKeeps DEF CheckPlan, history, IInv, TypeOK, MarkedIfTold
<1>5. ASSUME NEW t \in Task, ComputeFails(t)
      PROVE  IInv'
  BY <1>5, IdleIsSane, TaskStepKeeps DEF ComputeFails, history, IInv, TypeOK, MarkedIfTold
<1>6. ASSUME NEW t \in Task, SendSucceeds(t)
      PROVE  IInv'
  <2>1. Sane(t, Onward(t)) /\ SendingKey(t) \in Key
    BY <1>6, OnwardIsSane, KeyOfSend DEF SendSucceeds
  <2>2. Window \in 0 .. Window
    BY AlertAssumption
  <2>3. /\ dedupe' \in [Key -> 0 .. Window]
        /\ accepted' \in [Key -> 0 .. Window]
        /\ dedupe' = accepted'
    BY <1>6, <2>2 DEF SendSucceeds, IInv, TypeOK, MarkedIfTold
  <2>4. overtaken' \subseteq Task
    BY <1>6 DEF SendSucceeds, Rivals, IInv, TypeOK
  <2> QED
    BY <1>6, <2>1, <2>3, <2>4, TaskStepKeeps DEF SendSucceeds, IInv, TypeOK, MarkedIfTold
<1>7. ASSUME NEW t \in Task, SendFails(t)
      PROVE  IInv'
  BY <1>7, OnwardIsSane, TaskStepKeeps DEF SendFails, history, IInv, TypeOK, MarkedIfTold
<1>8. CASE Tick
  <2>1. /\ dedupe' \in [Key -> 0 .. Window]
        /\ accepted' \in [Key -> 0 .. Window]
        /\ dedupe' = accepted'
    BY <1>8, AlertAssumption DEF Tick, Aged, IInv, TypeOK, MarkedIfTold
  <2> QED
    BY <1>8, <2>1 DEF Tick, IInv, TypeOK, Engaged, MarkedIfTold
<1>9. CASE UNCHANGED vars
  BY <1>9 DEF vars, IInv, TypeOK, Engaged, MarkedIfTold
<1> QED
  BY <1>1, <1>2, <1>3, <1>4, <1>5, <1>6, <1>7, <1>8, <1>9 DEF Next, TaskStep

(* The inductive invariant holds of every behaviour.                         *)
LEMMA IInvariant == Spec => []IInv
BY InitIInv, IInvStep, PTL DEF Spec

(* Types hold of both senders, and whatever the dedupe store suppresses the *)
(* trader was told within the window: for any number of overlapping tasks,  *)
(* failures of sends and of signals included.                               *)
THEOREM AlertsInvariant == Spec => []AlertsInv
<1>1. IInv => AlertsInv
  BY DEF IInv, AlertsInv, MarkedIfTold, SuppressionIsJustified, Duplicate
<1> QED
  BY <1>1, IInvariant, PTL

(* Whatever is outstanding, the task that sees the order become ready or    *)
(* flip goes on to send that alert (detectAbStateChange, then the loop of   *)
(* sendAbTelegramAlerts).                                                   *)
THEOREM HighSeverityAnnounced == Spec => HighSeverityAlwaysAnnounced
<1> DEFINE Step == lastState # None /\ lastState' # lastState =>
                      \A type \in HighSeverity :
                         Holds(type, Fingerprint(lastState.ab), Fingerprint(lastState'.ab)) =>
                            \E t \in RefreshTask : Announced(t, type)'
<1>1. IInv /\ [Next]_vars => Step
  <2> SUFFICES ASSUME IInv, [Next]_vars, lastState # None, lastState' # lastState,
                      NEW type \in HighSeverity,
                      Holds(type, Fingerprint(lastState.ab), Fingerprint(lastState'.ab))
               PROVE  \E t \in RefreshTask : Announced(t, type)'
    OBVIOUS
  <2>1. PICK t \in RefreshTask : DetectChange(t)
    BY DEF Next, TaskStep, vars, history, MarketMoves, StartTask, DetectChange, CheckPlan,
           ComputeFails, SendSucceeds, SendFails, Tick
  <2> DEFINE sig == task[t].sig
             left == FromNextSend(Detected(lastState, sig), sig.ab)
  <2>2. type \in EventType /\ ~PassedOver(type, sig.ab)
    BY DEF HighSeverity, EventType, PassedOver
  <2>3. lastState' = sig
    BY <2>1 DEF DetectChange
  <2>4. type \in Detected(lastState, sig)
    BY <2>2, <2>3 DEF Detected
  <2>5. type \in left
    BY <2>2, <2>4, DetectedType, NextIsSent
  <2>6. task'[t] = [pc |-> "sending", sig |-> sig, todo |-> left]
    BY <2>1, <2>5 DEF DetectChange, Continue, IInv, TypeOK, Task
  <2> QED
    BY <2>5, <2>6 DEF Announced, Sends
<1> QED
  BY <1>1, IInvariant, PTL DEF Spec, HighSeverityAlwaysAnnounced

-----------------------------------------------------------------------------
(* Deliveries that are repeated.                                            *)

\* What is being sent below high severity has not been told within the window,
\* unless another task told it since.
Unmarked ==
    \A t \in Task : Sends(t) /\ ~HighAlert(t) => dedupe[SendingKey(t)] = 0 \/ t \in overtaken

(* The next alert of a task has not been told either.                       *)
LEMMA NextIsUnmarked ==
    ASSUME IInv, NEW t \in RefreshTask, NEW ab, NEW events \in SUBSET EventType, ab \in AbOrder,
           FromNextSend(events, ab) # {}, First(FromNextSend(events, ab)) \notin HighSeverity
    PROVE  /\ AbKey(First(FromNextSend(events, ab)), ab) \in Key
           /\ dedupe[AbKey(First(FromNextSend(events, ab)), ab)] = 0
<1> DEFINE left == FromNextSend(events, ab)
<1>1. left \in SUBSET EventType /\ ~PassedOver(First(left), ab)
  BY NextIsSent
<1>2. First(left) \in EventType
  BY <1>1, FirstIsFirst
<1>3. AbKey(First(left), ab) \in Key
  BY <1>2 DEF Key
<1> QED
  BY <1>1, <1>3 DEF PassedOver, Duplicate, IInv, TypeOK

(* The alert a task goes on with after a step that left the store alone, or *)
(* marked the key of another of its events.                                 *)
LEMMA RestIsUnmarked ==
    ASSUME IInv, NEW t \in Task, Sends(t), task'[t] = Onward(t), Sends(t)', ~HighAlert(t)'
    PROVE  /\ SendingKey(t)' \in Key /\ dedupe[SendingKey(t)'] = 0
           /\ SendingKey(t)' # SendingKey(t)
<1> DEFINE rest == task[t].todo \ {First(task[t].todo)}
           ab == task[t].sig.ab
           left == FromNextSend(rest, ab)
<1>1. t \in RefreshTask /\ t \notin HookTask
  BY AlertAssumption DEF Onward, Idle, Sends, Task
<1>2. /\ left # {}
      /\ task'[t] = [pc |-> "sending", sig |-> task[t].sig, todo |-> left]
  <2>1. task'[t] = Continue(task[t].sig, left)
    BY <1>1 DEF Onward
  <2> HIDE DEF left
  <2>2. task'[t].pc = "sending"
    BY DEF Sends
  <2>3. left # {}
    <3> SUFFICES ASSUME left = {}
                 PROVE  FALSE
      OBVIOUS
    <3>1. task'[t].pc = "idle"
      BY <2>1 DEF Continue, Idle
    <3> QED
      BY <2>2, <3>1
  <2> QED
    BY <2>1, <2>3 DEF Continue
<1>3. rest \in SUBSET EventType /\ ab \in AbOrder
  BY <1>1 DEF IInv, TypeOK, Engaged, Sends, Signal
<1>4. First(left) \notin HighSeverity /\ SendingKey(t)' = AbKey(First(left), ab)
  BY <1>1, <1>2 DEF HighAlert, SendingKey
<1>5. First(left) # First(task[t].todo)
  BY <1>2, <1>3, NextIsSent, FirstIsFirst
<1>6. SendingKey(t) = AbKey(First(task[t].todo), ab)
  BY <1>1 DEF SendingKey
<1>7. SendingKey(t)' # SendingKey(t)
  BY <1>4, <1>5, <1>6 DEF AbKey
<1> QED
  BY <1>1, <1>2, <1>3, <1>4, <1>7, NextIsUnmarked

(* What an unchanged task sends.                                            *)
LEMMA SameTask ==
    ASSUME NEW u \in Task, task'[u] = task[u]
    PROVE  /\ Sends(u)' <=> Sends(u)
           /\ HighAlert(u)' <=> HighAlert(u)
           /\ SendingKey(u)' = SendingKey(u)
BY DEF Sends, HighAlert, SendingKey

(* A step keeps the key of a sender unmarked, or has it overtaken.           *)
LEMMA UnmarkedStep ==
    ASSUME IInv, Unmarked, [Next]_vars
    PROVE  Unmarked'
<1> USE DEF history
<1>1. CASE MarketMoves \/ UNCHANGED vars
  BY <1>1 DEF MarketMoves, vars, Unmarked, Sends, HighAlert, SendingKey
<1>2. ASSUME NEW t \in Task, StartTask(t) \/ ComputeFails(t)
      PROVE  Unmarked'
  <2>1. \A u \in Task \ {t} : task'[u] = task[u]
    BY <1>2 DEF StartTask, ComputeFails, IInv, TypeOK
  <2>2. ~Sends(t)'
    BY <1>2 DEF StartTask, ComputeFails, Idle, Sends, IInv, TypeOK
  <2> QED
    BY <1>2, <2>1, <2>2, SameTask DEF StartTask, ComputeFails, Unmarked
<1>3. ASSUME NEW t \in Task, DetectChange(t)
      PROVE  Unmarked'
  <2> DEFINE sig == task[t].sig
             left == FromNextSend(Detected(lastState, sig), sig.ab)
  <2>1. \A u \in Task \ {t} : task'[u] = task[u]
    BY <1>3 DEF DetectChange, IInv, TypeOK
  <2>2. ASSUME Sends(t)', ~HighAlert(t)'
        PROVE  dedupe[SendingKey(t)'] = 0
    <3>1. t \in RefreshTask /\ t \notin HookTask /\ sig.ab \in AbOrder
      BY <1>3, AlertAssumption DEF DetectChange, IInv, Engaged, Signal
    <3>2. left # {} /\ task'[t] = [pc |-> "sending", sig |-> sig, todo |-> left]
      BY <1>3, <2>2 DEF DetectChange, Continue, Idle, Sends, IInv, TypeOK
    <3>3. First(left) \notin HighSeverity /\ SendingKey(t)' = AbKey(First(left), sig.ab)
      BY <2>2, <3>1, <3>2 DEF HighAlert, SendingKey
    <3> QED
      BY <3>1, <3>2, <3>3, DetectedType, NextIsUnmarked
  <2> QED
    BY <1>3, <2>1, <2>2, SameTask DEF DetectChange, Unmarked
<1>4. ASSUME NEW t \in Task, CheckPlan(t)
      PROVE  Unmarked'
  <2>1. \A u \in Task \ {t} : task'[u] = task[u]
    BY <1>4 DEF CheckPlan, IInv, TypeOK
  <2>2. ASSUME Sends(t)'
        PROVE  dedupe[SendingKey(t)'] = 0
    <3>1. t \in HookTask /\ task[t].sig \in Signal
      BY <1>4 DEF CheckPlan, IInv, Engaged
    <3>2. /\ task'[t] = [pc |-> "sending", sig |-> task[t].sig, todo |-> {"plan"}]
          /\ ~Duplicate(PlanKey(task[t].sig.plan))
      BY <1>4, <2>2 DEF CheckPlan, Continue, Idle, Sends, IInv, TypeOK
    <3>3. SendingKey(t)' = PlanKey(task[t].sig.plan) /\ PlanKey(task[t].sig.plan) \in Key
      BY <3>1, <3>2 DEF SendingKey, Key, Signal
    <3> QED
      BY <3>2, <3>3 DEF Duplicate, IInv, TypeOK
  <2> QED
    BY <1>4, <2>1, <2>2, SameTask DEF CheckPlan, Unmarked
<1>5. ASSUME NEW t \in Task, SendSucceeds(t)
      PROVE  Unmarked'
  <2>1. /\ Sends(t) /\ SendingKey(t) \in Key
        /\ task'[t] = Onward(t)
        /\ \A u \in Task \ {t} : task'[u] = task[u]
        /\ \A k \in Key \ {SendingKey(t)} : dedupe'[k] = dedupe[k]
    BY <1>5, KeyOfSend DEF SendSucceeds, Sends, IInv, TypeOK
  <2>2. ASSUME NEW u \in Task, Sends(u)', ~HighAlert(u)'
        PROVE  dedupe'[SendingKey(u)'] = 0 \/ u \in overtaken'
    <3>3. CASE u = t
      BY <2>1, <2>2, <3>3, RestIsUnmarked
    <3>4. CASE u # t
      <4>1. task'[u] = task[u]
        BY <2>1, <3>4
      <4>2. /\ Sends(u) /\ SendingKey(u)' = SendingKey(u) /\ SendingKey(u) \in Key
            /\ dedupe[SendingKey(u)] = 0 \/ u \in overtaken
        BY <2>2, <4>1, SameTask, KeyOfSend DEF Unmarked, Sends
      <4>3. CASE SendingKey(u) = SendingKey(t)
        BY <1>5, <3>4, <4>2, <4>3 DEF SendSucceeds, Rivals
      <4>4. CASE SendingKey(u) # SendingKey(t)
        BY <1>5, <2>1, <3>4, <4>2, <4>4 DEF SendSucceeds
      <4> QED
        BY <4>3, <4>4
    <3> QED
      BY <3>3, <3>4
  <2> QED
    BY <2>2 DEF Unmarked
<1>6. ASSUME NEW t \in Task, SendFails(t)
      PROVE  Unmarked'
  <2>1. /\ Sends(t) /\ task'[t] = Onward(t)
        /\ \A u \in Task \ {t} : task'[u] = task[u]
    BY <1>6 DEF SendFails, Sends, IInv, TypeOK
  <2>2. Sends(t)' /\ ~HighAlert(t)' => dedupe[SendingKey(t)'] = 0
    BY <2>1, RestIsUnmarked
  <2> QED
    BY <1>6, <2>1, <2>2, SameTask DEF SendFails, Unmarked
<1>7. CASE Tick
  <2>1. ASSUME NEW u \in Task, Sends(u)', ~HighAlert(u)'
        PROVE  dedupe'[SendingKey(u)'] = 0 \/ u \in overtaken'
    <3>1. task'[u] = task[u]
      BY <1>7 DEF Tick
    <3>2. /\ Sends(u) /\ SendingKey(u)' = SendingKey(u)
          /\ dedupe[SendingKey(u)] = 0 \/ u \in overtaken
      BY <2>1, <3>1, SameTask DEF Unmarked
    <3>3. SendingKey(u) \in Key
      BY <3>2, KeyOfSend DEF Sends
    <3> QED
      BY <1>7, <3>2, <3>3 DEF Tick, Aged
  <2> QED
    BY <1>7, <2>1 DEF Tick, Unmarked
<1> QED
  BY <1>1, <1>2, <1>3, <1>4, <1>5, <1>6, <1>7 DEF Next, TaskStep

(* However many tasks of either kind overlap, an alert below high severity  *)
(* goes out twice for a key within the window only from a task that found   *)
(* the key free and that another has since overtaken                        *)
(* (isTelegramAlertDuplicate before, markTelegramAlertSent after the send). *)
THEOREM RepeatNeedsOvertaking == Spec => []RepeatedOnlyWhenOvertaken
<1>1. Init => Unmarked
  BY DEF Init, Idle, Unmarked, Sends
<1>2. IInv /\ Unmarked /\ [Next]_vars => Unmarked'
  BY UnmarkedStep
<1>3. IInv /\ Unmarked => RepeatedOnlyWhenOvertaken
  BY DEF IInv, MarkedIfTold, Unmarked, RepeatedOnlyWhenOvertaken
<1> QED
  BY <1>1, <1>2, <1>3, IInvariant, PTL DEF Spec

=============================================================================
