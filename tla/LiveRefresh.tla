----------------------------- MODULE LiveRefresh -----------------------------
(***************************************************************************)
(* The live refresh loop (scheduler/live-refresh-scheduler.js): the adaptive *)
(* scheduler composed with the UW provider through runUwEndpointRefresh.    *)
(* A timer of one endpoint polls the provider, which asks for every         *)
(* endpoint whose entry has outlived its TTL; the answer's quota and price  *)
(* levels go back to the scheduler before the poll ends, and may change the *)
(* mode while polls of this and of other endpoints are out.                 *)
(*                                                                          *)
(* The scheduler is the module AdaptiveScheduler; every step here that      *)
(* concerns it conjoins one of its actions.  A call of the provider is      *)
(* reduced to its start and its end: the steps between them and the order   *)
(* of its requests are the subject of UwProvider.                           *)
(***************************************************************************)
EXTENDS AdaptiveScheduler

CONSTANTS
    UwEndpoint,     \* UW_API_ENDPOINTS: those polled by name and those only fetched along
    Ttl,            \* ticks an entry counts as cached
    PriceTriggers,  \* what _detectKeyLevel can make of the prices polled
    Warmup          \* the poller of the cold-start and 08:30 warmups

ASSUME LiveRefreshAssumption ==
    /\ Endpoint \subseteq UwEndpoint
    /\ Ttl \in Nat \ {0}
    /\ PriceTriggers \subseteq {"none", "level", "burst"}
    /\ Warmup \notin Endpoint

VARIABLES
    left,       \* ticks until the stored entry of an endpoint outlives its TTL
    poll,       \* the calls of runUwEndpointRefresh, those of one endpoint in slots
    spurred     \* history: endpoints polled while another poll changed the mode

loopVars == <<vars, left, poll, spurred>>

Slot == 1 .. MaxConcurrentRuns
WarmupPoller == <<Warmup, 0>>
Poller == (Endpoint \X Slot) \cup {WarmupPoller}

\* kept: what the snapshot read at the start holds; since: ticks since the start.
Idle ==
    [pc |-> "idle", asked |-> {}, since |-> 0, kept |-> [f \in UwEndpoint |-> 0]]

LoopInit ==
    /\ Init
    /\ left = [f \in UwEndpoint |-> 0]
    /\ poll = [p \in Poller |-> Idle]
    /\ spurred = {}

Out(p) == poll[p].pc # "idle"

\* A poll that has its answers runs on to its end before anything else does.
RunsOn(p) == poll[p].pc \in {"reported", "priced"}
EventLoopFree == \A p \in Poller : ~RunsOn(p)

-----------------------------------------------------------------------------
\* A mutant of Expired: only the endpoints polled by name are fetched.
ExpiredPolled(entries) == {f \in Endpoint : entries[f] = 0}

Expired(entries) == {f \in UwEndpoint : entries[f] = 0}

\* The provider reads the stored snapshot and asks for all that has expired.
Asking(p) ==
    poll' = [poll EXCEPT ![p] =
               [pc |-> "asking", asked |-> Expired(left), since |-> 0, kept |-> left]]

\* The run takes the first free slot; earlier runs of the endpoint may be out.
PollStarts(e, i) ==
    /\ EventLoopFree
    /\ TimerStartsRun(e)
    /\ ~Out(<<e, i>>)
    /\ \A j \in 1 .. (i - 1) : Out(<<e, j>>)
    /\ Asking(<<e, i>>)
    /\ UNCHANGED <<left, spurred>>

\* The warmups poll without a timer, in the hour before the open and, at a
\* cold start, while the market is open.
WarmupStarts ==
    /\ EventLoopFree
    /\ started
    /\ phase # "oi_burst"
    /\ ~Out(WarmupPoller)
    /\ Asking(WarmupPoller)
    /\ UNCHANGED <<vars, left, spurred>>

\* What is left of an entry stamped with the start of the poll.
LeftOfAnswer(p) == Ttl - poll[p].since

\* The endpoints that have another poll than p out.
Beside(p) == {e \in Endpoint : \E i \in Slot : <<e, i>> # p /\ Out(<<e, i>>)}

SpurredBy(p) == spurred' = IF mode' = mode THEN spurred ELSE spurred \cup Beside(p)

\* The requests have settled, those of failed without success: the snapshot is
\* written, and the quota headers reach the scheduler.  Without a header the
\* snapshot repeats the quota reported last.
PollReports(p, failed) ==
    /\ EventLoopFree
    /\ poll[p].pc = "asking"
    /\ failed \subseteq poll[p].asked
    /\ left' = [f \in UwEndpoint |->
                  IF f \in poll[p].asked \ failed THEN LeftOfAnswer(p) ELSE poll[p].kept[f]]
    /\ poll' = [poll EXCEPT ![p] = [Idle EXCEPT !.pc = "reported"]]
    /\ \/ /\ poll[p].asked # {}
          /\ \E q \in QuotaReports : UpdateQuota(q)
       \/ UpdatePriceContext(trigger)
    /\ SpurredBy(p)

\* The price context extracted from the snapshot.
PollSetsPrice(p) ==
    /\ poll[p].pc = "reported"
    /\ poll' = [poll EXCEPT ![p].pc = "priced"]
    /\ \E t \in PriceTriggers : UpdatePriceContext(t)
    /\ SpurredBy(p)
    /\ UNCHANGED left

\* runUwEndpointRefresh returns: the scheduler records a success and goes on.
PollEnds(e, i) ==
    /\ poll[<<e, i>>].pc = "priced"
    /\ RunSucceeds(e)
    /\ poll' = [poll EXCEPT ![<<e, i>>] = Idle]
    /\ spurred' = IF e \in Beside(<<e, i>>) THEN spurred ELSE spurred \ {e}
    /\ UNCHANGED left

WarmupEnds ==
    /\ poll[WarmupPoller].pc = "priced"
    /\ poll' = [poll EXCEPT ![WarmupPoller] = Idle]
    /\ UNCHANGED <<vars, left, spurred>>

Aged(entries) == [f \in UwEndpoint |-> Elapse(entries[f])]

LoopTick ==
    /\ EventLoopFree
    /\ Tick
    /\ left' = Aged(left)
    /\ poll' = [p \in Poller |->
                  IF poll[p].pc = "asking"
                  THEN [poll[p] EXCEPT !.since = Smaller(@ + 1, Ttl), !.kept = Aged(@)]
                  ELSE poll[p]]
    /\ UNCHANGED spurred

\* startLiveRefreshScheduler starts the scheduler and nothing stops it.
SchedulerAlone ==
    /\ EventLoopFree
    /\ Start \/ AdvancePhase \/ \E e \in Endpoint : TimerSkipsRun(e)
    /\ UNCHANGED <<left, poll, spurred>>

LoopNext ==
    \/ SchedulerAlone
    \/ \E e \in Endpoint, i \in Slot : PollStarts(e, i)
    \/ WarmupStarts
    \/ \E p \in Poller, failed \in SUBSET UwEndpoint : PollReports(p, failed)
    \/ \E p \in Poller : PollSetsPrice(p)
    \/ \E e \in Endpoint, i \in Slot : PollEnds(e, i)
    \/ WarmupEnds
    \/ LoopTick

LoopSpec == LoopInit /\ [][LoopNext]_loopVars

\* The event loop runs expired timers, every request settles, and time passes:
\* EventLoopFree only keeps it from passing in the middle of a task.
Settles(p) == PollSetsPrice(p) \/ \E failed \in SUBSET UwEndpoint : PollReports(p, failed)

TimerFires(e) ==
    \/ \E i \in Slot : PollStarts(e, i)
    \/ EventLoopFree /\ TimerSkipsRun(e) /\ UNCHANGED <<left, poll, spurred>>

FairLoopSpec ==
    /\ LoopSpec
    /\ SF_loopVars(LoopTick)
    /\ WF_loopVars(WarmupEnds)
    /\ \A p \in Poller : WF_loopVars(Settles(p))
    /\ \A e \in Endpoint :
          /\ \A i \in Slot : WF_loopVars(PollEnds(e, i))
          /\ WF_loopVars(TimerFires(e))

-----------------------------------------------------------------------------
(* Properties.                                                              *)

\* The type invariant of what the loop adds to the scheduler.
PollRecord ==
    [pc : {"idle", "asking", "reported", "priced"}, asked : SUBSET UwEndpoint, since : 0 .. Ttl,
     kept : [UwEndpoint -> 0 .. Ttl]]

LoopTypeOK ==
    /\ left \in [UwEndpoint -> 0 .. Ttl]
    /\ poll \in [Poller -> PollRecord]
    /\ spurred \subseteq Endpoint

SlotsOut(e) == {i \in Slot : Out(<<e, i>>)}

\* The scheduler's count of awaited runs is that of the polls that are out.
RunsAreCounted == \A e \in Endpoint : running[e] = Cardinality(SlotsOut(e))

\* An endpoint is polled twice at a time, or has a timer beside a poll, only
\* after another poll changed the mode while it was polled.  A poll that
\* changes the mode itself re-arms its own timer too, and its end takes that
\* timer back; a change that meets nobody, failures, skipped runs and slow
\* answers never start a second chain.
OneChainUnlessSpurred ==
    \A e \in Endpoint \ spurred :
        /\ \A i, j \in SlotsOut(e) : i = j
        /\ \A i \in SlotsOut(e) : RunsOn(<<e, i>>) \/ due[e] = NoTimer

\* The inductive invariant of the loop: its types, and one chain of timer and
\* poll per endpoint, doubled only by the feedback of another poll.
LoopInv == LoopTypeOK /\ RunsAreCounted /\ OneChainUnlessSpurred

\* A single poller keeps all endpoints in the store asked for, those that no
\* timer names included, however often requests fail or modes change.
AllEndpointsAskedFor ==
    \A f \in UwEndpoint, e \in Endpoint :
        <>[](Wanted(e) /\ Served(e)) => []<>(\E p \in Poller : f \in poll[p].asked)

=============================================================================
