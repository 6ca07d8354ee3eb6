---------------------------- MODULE TelegramAlerts ----------------------------
(***************************************************************************)
(* The two senders of Telegram alerts and the dedupe store they share.      *)
(*                                                                          *)
(* After a UW refresh a microtask awaits getCurrentSignal, compares its A/B *)
(* order with the last one seen (state/ab-state-watcher.js) and sends the   *)
(* events one by one (alerts/telegram-ab-alert.js).  After a TradingView    *)
(* webhook another microtask awaits getCurrentSignal and sends at most one  *)
(* trade-plan alert (routes/index.js, alerts/telegram-plan-alert.js).  Such *)
(* tasks overlap: refreshes of several endpoints start together, and a      *)
(* signal takes long to compute.                                            *)
(*                                                                          *)
(* The dedupe store is kept as the ticks left until an entry expires.       *)
(***************************************************************************)
EXTENDS Integers

CONSTANTS
    RefreshTask, HookTask,  \* microtasks that can be outstanding at a time
    AbOrder,                \* outputs of ab_order_engine
    PlanView,               \* what a webhook's signal shows of the trade plan
    Window,                 \* TELEGRAM_ALERT_DEDUPE_SECONDS in ticks
    MaxSignals              \* bound on changes of the market data

ASSUME AlertAssumption ==
    /\ Window \in Nat \ {0}
    /\ MaxSignals \in Nat \ {0}
    /\ RefreshTask \cap HookTask = {}

Task == RefreshTask \cup HookTask

VARIABLES
    market,     \* [seq, ab, plan]: the data a signal is computed from
    lastState,  \* _lastState: the A/B order last compared, None at first
    task,       \* [pc, sig, todo] of each microtask, todo the alerts left
    dedupe,     \* ticks left of the dedupe entry of a key, 0 for none
    \* history, not read by any action:
    accepted,   \* ticks left of the window after Telegram accepted a key
    overtaken   \* the tasks whose alert another delivered since they looked it up

vars == <<market, lastState, task, dedupe, accepted, overtaken>>
history == <<accepted, overtaken>>

-----------------------------------------------------------------------------
(* Detection (ab-state-watcher.js).                                         *)

\* extractFingerprint; "" stands for a missing direction or instrument.
Fingerprint(ab) == [status |-> ab.status, dir |-> ab.dir, inst |-> ab.inst, conf |-> ab.conf]

EventType ==
    {"status_ready", "status_blocked", "direction_flip", "confidence_up", "instrument_change"}

\* The checks push their events in this order.
Rank(type) ==
    CASE type = "status_ready"      -> 1
      [] type = "status_blocked"    -> 2
      [] type = "direction_flip"    -> 3
      [] type = "confidence_up"     -> 4
      [] type = "instrument_change" -> 5

Changed(a, b) == a # "" /\ b # "" /\ a # b

Holds(type, prev, curr) ==
    CASE type = "status_ready"      -> prev.status # "ready" /\ curr.status = "ready"
      [] type = "status_blocked"    -> prev.status = "ready" /\ curr.status = "blocked"
      [] type = "direction_flip"    -> curr.status = "ready" /\ Changed(prev.dir, curr.dir)
      [] type = "confidence_up"     -> prev.conf < 60 /\ curr.conf >= 60
      [] type = "instrument_change" -> curr.status = "ready" /\ Changed(prev.inst, curr.inst)

HighSeverity == {"status_ready", "direction_flip"}

None == [seq |-> 0]

\* detectAbStateChange without the store; the first run only stores.
Detected(last, sig) ==
    IF last = None THEN {}
    ELSE {type \in EventType : Holds(type, Fingerprint(last.ab), Fingerprint(sig.ab))}

-----------------------------------------------------------------------------
(* Keys and levels.                                                         *)

\* buildDedupeKey: direction, instrument and confidence rounded down to tens.
AbKey(type, ab) == <<type, ab.dir, ab.inst, ab.conf \div 10>>

\* buildTelegramDedupeKey: event, side, setup and status of the plan.
PlanKey(plan) == <<"plan", plan.event_type, plan.side, plan.status>>

\* determineTelegramLevel
TelegramLevel(plan) ==
    IF \/ plan.status = "invalidated" \/ plan.event_type = "structure_invalidated"
       \/ plan.stale \/ plan.mixed_or_mock
    THEN "L4"
    ELSE IF plan.status = "ready" THEN "L3"
    ELSE IF plan.status = "waiting" /\ plan.allowed THEN "L2"
    ELSE "L1"

Key == {AbKey(type, ab) : type \in EventType, ab \in AbOrder} \cup {PlanKey(p) : p \in PlanView}

\* A mutant of Duplicate: the store is not consulted.
DuplicateNever(key) == FALSE

\* isTelegramAlertDuplicate
Duplicate(key) == dedupe[key] > 0

\* A mutant of PassedOver: duplicates are dropped whatever their severity.
PassedOverAny(type, ab) == type = "instrument_change" \/ Duplicate(AbKey(type, ab))

\* sendAbTelegramAlerts passes over an event: low severity, or a duplicate of
\* less than high severity.
PassedOver(type, ab) ==
    \/ type = "instrument_change"
    \/ type \notin HighSeverity /\ Duplicate(AbKey(type, ab))

\* The events left once those passed over before the next send are gone.
FromNextSend(events, ab) ==
    {type \in events : \E e \in events : ~PassedOver(e, ab) /\ Rank(e) <= Rank(type)}

\* The first of the events that are left.
First(events) == CHOOSE type \in events : \A e \in events : Rank(type) <= Rank(e)

-----------------------------------------------------------------------------
Idle == [pc |-> "idle", sig |-> None, todo |-> {}]

Init ==
    /\ market \in [seq : {1}, ab : AbOrder, plan : PlanView]
    /\ lastState = None
    /\ task = [t \in Task |-> Idle]
    /\ dedupe = [k \in Key |-> 0]
    /\ accepted = [k \in Key |-> 0]
    /\ overtaken = {}

\* New market data, as the providers' snapshots bring it.
MarketMoves ==
    /\ market.seq < MaxSignals
    /\ \E ab \in AbOrder, plan \in PlanView :
          market' = [seq |-> market.seq + 1, ab |-> ab, plan |-> plan]
    /\ UNCHANGED <<lastState, task, dedupe, history>>

\* A refresh or a webhook queues its task, which starts to compute a signal
\* from the data of this moment.
StartTask(t) ==
    /\ task[t].pc = "idle"
    /\ task' = [task EXCEPT ![t] = [pc |-> "computing", sig |-> market, todo |-> {}]]
    /\ UNCHANGED <<market, lastState, dedupe, history>>

\* The next send of a task, or its end.
Continue(sig, todo) ==
    IF todo = {} THEN Idle ELSE [pc |-> "sending", sig |-> sig, todo |-> todo]

\* getCurrentSignal resolves in a refresh task: detect, store, begin to send.
DetectChange(t) ==
    /\ t \in RefreshTask
    /\ task[t].pc = "computing"
    /\ LET sig == task[t].sig
       IN  /\ lastState' = sig
           /\ task' = [task EXCEPT ![t] = Continue(sig, FromNextSend(Detected(lastState, sig), sig.ab))]
    /\ UNCHANGED <<market, dedupe, history>>

\* getCurrentSignal resolves in a webhook task: level and duplicate checks.
CheckPlan(t) ==
    /\ t \in HookTask
    /\ task[t].pc = "computing"
    /\ LET plan == task[t].sig.plan
           send == TelegramLevel(plan) # "L1" /\ ~Duplicate(PlanKey(plan))
       IN  task' = [task EXCEPT ![t] = Continue(@.sig, IF send THEN {"plan"} ELSE {})]
    /\ UNCHANGED <<market, lastState, dedupe, history>>

\* getCurrentSignal rejects: the task logs it and ends.
ComputeFails(t) ==
    /\ task[t].pc = "computing"
    /\ task' = [task EXCEPT ![t] = Idle]
    /\ UNCHANGED <<market, lastState, dedupe, history>>

\* Whether the alert a task is sending bypasses the dedupe store.
HighAlert(t) == t \in RefreshTask /\ First(task[t].todo) \in HighSeverity

\* The key of the alert a task is sending.
SendingKey(t) ==
    IF t \in HookTask THEN PlanKey(task[t].sig.plan)
    ELSE AbKey(First(task[t].todo), task[t].sig.ab)

\* What a task does after a send: the next event, or its end.
Onward(t) ==
    LET next == FromNextSend(task[t].todo \ {First(task[t].todo)}, task[t].sig.ab)
    IN  IF t \in HookTask THEN Idle ELSE Continue(task[t].sig, next)

Sends(t) == task[t].pc = "sending"

\* The other tasks that looked up the same key and have yet to deliver it.
Rivals(t) == {u \in Task \ {t} : Sends(u) /\ SendingKey(u) = SendingKey(t)}

\* Telegram accepts the message: markTelegramAlertSent, then the next event.
SendSucceeds(t) ==
    /\ task[t].pc = "sending"
    /\ dedupe' = [dedupe EXCEPT ![SendingKey(t)] = Window]
    /\ task' = [task EXCEPT ![t] = Onward(t)]
    /\ accepted' = [accepted EXCEPT ![SendingKey(t)] = Window]
    /\ overtaken' = (overtaken \cup Rivals(t)) \ {t}
    /\ UNCHANGED <<market, lastState>>

\* A mutant of SendFails: the key is marked all the same.
SendFailsMarks(t) ==
    /\ task[t].pc = "sending"
    /\ dedupe' = [dedupe EXCEPT ![SendingKey(t)] = Window]
    /\ task' = [task EXCEPT ![t] = Onward(t)]
    /\ overtaken' = overtaken \ {t}
    /\ UNCHANGED <<market, lastState, accepted>>

\* The send rejects: nothing is marked and the event is not retried.
SendFails(t) ==
    /\ task[t].pc = "sending"
    /\ task' = [task EXCEPT ![t] = Onward(t)]
    /\ overtaken' = overtaken \ {t}
    /\ UNCHANGED <<market, lastState, dedupe, accepted>>

\* Time passes and dedupe entries expire.
Aged(left) == [k \in Key |-> IF left[k] > 0 THEN left[k] - 1 ELSE 0]

Tick ==
    /\ dedupe' = Aged(dedupe)
    /\ accepted' = Aged(accepted)
    /\ UNCHANGED <<market, lastState, task, overtaken>>

TaskStep(t) ==
    \/ DetectChange(t)
    \/ CheckPlan(t)
    \/ ComputeFails(t)
    \/ SendSucceeds(t)
    \/ SendFails(t)

Next ==
    \/ MarketMoves
    \/ \E t \in Task : StartTask(t)
    \/ \E t \in Task : TaskStep(t)
    \/ Tick

Spec == Init /\ [][Next]_vars

\* Every await settles and time passes; nothing obliges the market to move.
FairSpec == Spec /\ WF_vars(Tick) /\ \A t \in Task : WF_vars(TaskStep(t))

-----------------------------------------------------------------------------
(* Properties.                                                              *)

Signal == [seq : 1 .. MaxSignals, ab : AbOrder, plan : PlanView]

\* Every part of the state keeps its range, and a task sends its own kind of
\* alert.
TypeOK ==
    /\ market \in Signal
    /\ lastState \in Signal \cup {None}
    /\ task \in [Task -> [pc : {"idle", "computing", "sending"}, sig : Signal \cup {None},
                           todo : SUBSET (EventType \cup {"plan"})]]
    /\ \A t \in Task : task[t].todo \subseteq (IF t \in RefreshTask THEN EventType ELSE {"plan"})
    /\ dedupe \in [Key -> 0 .. Window]
    /\ accepted \in [Key -> 0 .. Window]
    /\ overtaken \subseteq Task

Announced(t, type) == Sends(t) /\ type \in task[t].todo

\* Every step that makes the watcher see the order become ready, or flip while
\* ready, leaves the alert to be sent by the task that saw it; no dedupe entry
\* of an earlier alert suppresses it.
HighSeverityAlwaysAnnounced ==
    [][lastState # None /\ lastState' # lastState =>
         \A type \in HighSeverity :
            Holds(type, Fingerprint(lastState.ab), Fingerprint(lastState'.ab)) =>
               \E t \in RefreshTask : Announced(t, type)']_vars

\* Whatever the dedupe store suppresses, the trader has been told within the
\* window: a failed send leaves later alerts of its key free to go out.
SuppressionIsJustified == \A k \in Key : Duplicate(k) => accepted[k] > 0

\* The invariant of the two senders: types, and nothing suppressed that was not
\* told.
AlertsInv ==
    /\ TypeOK
    /\ SuppressionIsJustified

\* A task goes on to deliver an alert below high severity a second time within
\* the window only when another task delivered it while this one, having found
\* the key free, was waiting for Telegram or for its turn: the store is read
\* before the await of the send and marked after it, and so it does not keep
\* every repeat out (telegram-ab-alert.js:10 says it does).
RepeatedOnlyWhenOvertaken ==
    \A t \in Task :
        Sends(t) /\ ~HighAlert(t) /\ accepted[SendingKey(t)] > 0 => t \in overtaken
=============================================================================
