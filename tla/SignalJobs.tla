----------------------------- MODULE SignalJobs -----------------------------
(***************************************************************************)
(* The state that every computation of the current signal shares, and the   *)
(* jobs around it: the buffer of spot prices (state/price-history-buffer),  *)
(* the queue of net premiums (algorithms/premium-acceleration-queue), the   *)
(* polls that feed the buffer and the cold start that seeds it              *)
(* (scheduler/live-refresh-scheduler), the callers of getCurrentSignal,     *)
(* which overlap, and the pre-market snapshot (alerts/pre-market-snapshot), *)
(* one of those callers.                                                    *)
(*                                                                          *)
(* Time counts minutes.  The net premium a signal reads is named by the     *)
(* version of the answer of UW it comes from.  Every refresh of the UW      *)
(* snapshot reads the one that is stored, awaits its requests and writes    *)
(* the whole back (providers/uw-api-provider), so that a slow one may write *)
(* an older version over a newer.                                           *)
(***************************************************************************)
EXTENDS Integers, Sequences, SequencesExt

CONSTANTS
    Client,         \* callers of getCurrentSignal other than the job
    Job,            \* the pre-market snapshot, a caller too
    Poller,         \* runs of runUwEndpointRefresh that can be under way
    Price,          \* spot prices the polls may find
    Window,         \* WINDOWS: minutes back
    TrendMin,       \* a larger delta is a trend
    MaxPrices,      \* MAX_ENTRIES of the price buffer
    SeedTo,         \* entries the cold start fills the buffer up to
    MaxPremiums,    \* MAX_ENTRIES of the premium queue
    SendFrom, SendUntil, \* the minutes of the snapshot
    MaxTime,        \* bound on time
    MaxVersion,     \* bound on answers of UW
    Spot            \* the spot price in each of them

ASSUME JobsAssumption ==
    /\ Job \notin Client
    /\ Poller \cap (Client \union {Job}) = {}
    /\ Price \subseteq Nat \ {0}
    /\ Window \subseteq Nat \ {0}
    /\ {TrendMin, SendFrom, SendUntil, MaxTime, MaxVersion} \subseteq Nat
    /\ {MaxPrices, SeedTo, MaxPremiums} \subseteq Nat \ {0}
    /\ SeedTo <= MaxPrices         \* 10 and 300
    /\ Spot \in [1 .. MaxVersion -> Price]

Caller == Client \union {Job}
Fetcher == Poller \union Caller
None == -1

VARIABLES
    now,            \* minutes since the server started
    feed,           \* [version, spot]: the UW snapshot stored, 0 for nothing
    newest,         \* the last version UW has answered
    fetch,          \* [pc, version, spot] of each refresh of the snapshot
    prices,         \* _buffer: [ts, price]
    premiums,       \* _queue of the premium queue: [ts, version]
    call,           \* [pc, version, current] of each caller
    warm,           \* the cold start has seeded the buffer
    sent,           \* _lastSentDate is today
    delivered,      \* snapshots that reached Telegram
    \* history, not read by any action:
    overlapped      \* two refreshes have been under way at a time, or two
                    \* calls between reading and pushing

feedVars == <<feed, newest, fetch>>
jobVars == <<sent, delivered>>
vars == <<now, feedVars, prices, premiums, call, warm, jobVars, overlapped>>

-----------------------------------------------------------------------------
(* The price buffer.                                                        *)

Recent(q, n) == SubSeq(q, IF Len(q) > n THEN Len(q) - n + 1 ELSE 1, Len(q))

\* pushSpotPrice.
Push(q, t, p) == Recent(Append(q, [ts |-> t, price |-> p]), MaxPrices)

Distance(a, b) == IF a < b THEN b - a ELSE a - b

\* getPriceAtWindow: the first of the entries closest to t - w, unless it is
\* two windows or more away from there.
PriceAt(q, t, w) ==
    LET far(i) == Distance(q[i].ts, t - w)
        closest == {i \in DOMAIN q : \A j \in DOMAIN q : far(i) <= far(j)}
    IN IF closest = {} THEN None
       ELSE LET i == CHOOSE i \in closest : \A j \in closest : i <= j
            IN IF far(i) < 2 * w THEN q[i].price ELSE None

\* trend_* of getPriceHistory.
Trend(q, t, w) ==
    LET then == PriceAt(q, t, w)
    IN IF then = None THEN "unknown"
       ELSE LET delta == Last(q).price - then
            IN IF delta > TrendMin THEN "rising"
               ELSE IF delta < 0 - TrendMin THEN "falling"
               ELSE "flat"

-----------------------------------------------------------------------------
(* Refreshing the UW snapshot.                                              *)

NoFetch == [pc |-> "off", version |-> 0, spot |-> 0]

Fetching(x) == fetch[x].pc # "off"

\* fetchUwApiSnapshot begins with what is stored.
FetchBegins(x) ==
    /\ ~Fetching(x)
    /\ fetch' = [fetch EXCEPT ![x] = [pc |-> "ask", version |-> feed.version, spot |-> feed.spot]]
    /\ overlapped' = (overlapped \/ \E y \in Fetcher : Fetching(y))
    /\ UNCHANGED <<feed, newest>>

\* The endpoints it asks for, if any, are answered; what it has of the others
\* stays.
Answered(x) ==
    /\ fetch[x].pc = "ask"
    /\ newest < MaxVersion
    /\ newest' = newest + 1
    /\ fetch' = [fetch EXCEPT ![x] = [pc |-> "have", version |-> newest + 1, spot |-> Spot[newest + 1]]]
    /\ UNCHANGED <<now, feed, prices, premiums, call, warm, jobVars, overlapped>>

\* It writes the whole snapshot back: what it had answered, or, when every entry
\* was within its TTL or every request failed, what it read at its start.
FetchEnds(x) ==
    /\ Fetching(x)
    /\ feed' = [version |-> fetch[x].version, spot |-> fetch[x].spot]
    /\ fetch' = [fetch EXCEPT ![x] = NoFetch]
    /\ UNCHANGED newest

-----------------------------------------------------------------------------
(* The polls.                                                               *)

\* The spot price of a snapshot is pushed with the time of the poll; one
\* without a spot pushes nothing.
WithSpot(q, p) == IF p = 0 THEN q ELSE Push(q, now, p)

\* runUwEndpointRefresh, at its start and at its end.
PollBegins(p) ==
    /\ FetchBegins(p)
    /\ UNCHANGED <<now, prices, premiums, call, warm, jobVars>>

PollEnds(p) ==
    /\ FetchEnds(p)
    /\ prices' = WithSpot(prices, fetch[p].spot)
    /\ UNCHANGED <<now, premiums, call, warm, jobVars, overlapped>>

\* runFmpPriceJob.
FmpPoll ==
    /\ \E p \in Price : prices' = Push(prices, now, p)
    /\ UNCHANGED <<now, feedVars, premiums, call, warm, jobVars, overlapped>>

\* Copies of a price pushed one by one until the buffer has SeedTo entries.
WithCopies(q, p) == Recent(q \o [i \in 1 .. SeedTo - Len(q) |-> [ts |-> now, price |-> p]], MaxPrices)

Full(q) == q = <<>> \/ Len(q) >= SeedTo

\* A mutant of Seeded: the copies are of the first price.
SeededFromFirst(q) == IF Full(q) THEN q ELSE WithCopies(q, Head(q).price)

\* The cold start adds copies of the last price, if there is one.
Seeded(q) == IF Full(q) THEN q ELSE WithCopies(q, Last(q).price)

\* The first poll of the cold start ends, within the warmup or market hours:
\* copies of the last price follow, whether or not the poll brought one.  Other
\* polls may have ended before it.
ColdStart(p) ==
    /\ ~warm
    /\ FetchEnds(p)
    /\ prices' = Seeded(WithSpot(prices, fetch[p].spot))
    /\ warm' = TRUE
    /\ UNCHANGED <<now, premiums, call, jobVars, overlapped>>

-----------------------------------------------------------------------------
(* Computing a signal.                                                      *)

\* A mutant of WithPremium: a new entry is put first.
WithPremiumFirst(v) == IF v = 0 THEN premiums ELSE Recent(<<[ts |-> now, version |-> v]>> \o premiums, MaxPremiums)

\* premiumAccelerationQueue.push: nothing without a net premium.
WithPremium(v) ==
    IF v = 0 THEN premiums ELSE Recent(Append(premiums, [ts |-> now, version |-> v]), MaxPremiums)

\* current_net_premium of compute().
Current(q) == IF Len(q) < 2 THEN None ELSE Last(q).version

\* getCurrentSignal is called, and waits for the stores and for FMP.
Begin(c) ==
    /\ call[c].pc = "idle"
    /\ call' = [call EXCEPT ![c].pc = "load"]

BeginClient(c) ==
    /\ Begin(c)
    /\ UNCHANGED <<now, feedVars, prices, premiums, warm, jobVars, overlapped>>

\* readUwProvider finds no snapshot, a stale one or one without its audit, and
\* refreshes it for this call.
RefreshBegins(c) ==
    /\ call[c].pc = "load"
    /\ FetchBegins(c)
    /\ UNCHANGED <<now, prices, premiums, call, warm, jobVars>>

\* A net premium of version v is there; everything up to runVolatilityEngine is
\* computed, and then VIX is fetched.
Gathered(c, v) ==
    /\ call[c].pc = "load"
    /\ call' = [call EXCEPT ![c].pc = "vix", ![c].version = v]
    /\ overlapped' = (overlapped \/ \E d \in Caller : call[d].pc = "vix")
    /\ UNCHANGED <<now, prices, premiums, warm, jobVars>>

\* The snapshot is the one that is stored, or the refreshed one.
Gather(c) ==
    \/ ~Fetching(c) /\ Gathered(c, feed.version) /\ UNCHANGED feedVars
    \/ FetchEnds(c) /\ Gathered(c, fetch[c].version)

\* VIX is there or its fetch has failed: the net premium read before is
\* pushed with the time of now, and the acceleration is computed from it.
Finish(c) ==
    /\ call[c].pc = "vix"
    /\ premiums' = WithPremium(call[c].version)
    /\ call' = [call EXCEPT ![c].pc = "done", ![c].current = Current(premiums')]
    /\ UNCHANGED <<now, feedVars, prices, warm, jobVars, overlapped>>

Return(c) ==
    /\ call[c].pc = "done"
    /\ call' = [call EXCEPT ![c] = [pc |-> "idle", version |-> 0, current |-> None]]
    /\ UNCHANGED <<now, feedVars, prices, premiums, warm, jobVars, overlapped>>

-----------------------------------------------------------------------------
(* The pre-market snapshot.                                                 *)

InSendWindow(t) == t >= SendFrom /\ t < SendUntil

\* maybeSendPreMarketSnapshot: the flag of the day is set before the signal
\* is asked for.
MaybeSend(t) ==
    IF InSendWindow(t) /\ ~sent THEN Begin(Job) /\ sent' = TRUE
    ELSE UNCHANGED <<call, sent>>

\* sendTelegramReal({ text }) is given the text itself, which has no member
\* of that name: the message posted has no text, and Telegram refuses it.
MessageHasText == FALSE

\* The attempt ends: the snapshot is sent, or the error is caught and the flag
\* taken back.
EndJob ==
    /\ call[Job].pc = "done"
    /\ call' = [call EXCEPT ![Job] = [pc |-> "idle", version |-> 0, current |-> None]]
    /\ sent' = MessageHasText
    /\ delivered' = IF MessageHasText THEN delivered + 1 ELSE delivered
    /\ UNCHANGED <<now, feedVars, prices, premiums, warm, overlapped>>

\* A minute passes, and the timer of the job fires.
Minute ==
    /\ now < MaxTime
    /\ now' = now + 1
    /\ MaybeSend(now + 1)
    /\ UNCHANGED <<feedVars, prices, premiums, warm, delivered, overlapped>>

Init ==
    /\ now = 0
    /\ feed = [version |-> 0, spot |-> 0]
    /\ newest = 0
    /\ fetch = [x \in Fetcher |-> NoFetch]
    /\ prices = <<>>
    /\ premiums = <<>>
    /\ call = [c \in Caller |-> [pc |-> "idle", version |-> 0, current |-> None]]
    /\ warm = FALSE
    /\ sent = FALSE
    /\ delivered = 0
    /\ overlapped = FALSE

CallStep(c) == Gather(c) \/ Finish(c) \/ (c \in Client /\ Return(c))

Next ==
    \/ \E x \in Fetcher : Answered(x)
    \/ \E p \in Poller : PollBegins(p) \/ PollEnds(p) \/ ColdStart(p)
    \/ FmpPoll
    \/ \E c \in Client : BeginClient(c)
    \/ \E c \in Caller : RefreshBegins(c) \/ CallStep(c)
    \/ EndJob
    \/ Minute

Spec == Init /\ [][Next]_vars

\* Time passes, the stores, VIX and Telegram answer or fail, and what waits
\* for them goes on.
FairSpec == Spec /\ WF_vars(Minute) /\ WF_vars(EndJob) /\ \A c \in Caller : WF_vars(CallStep(c))

-----------------------------------------------------------------------------
(* Properties.                                                              *)

\* Every part of the state keeps its range: both queues their limit.
TypeOK ==
    /\ now \in 0 .. MaxTime
    /\ feed \in [version : 0 .. MaxVersion, spot : Price \union {0}]
    /\ newest \in 0 .. MaxVersion
    /\ fetch \in [Fetcher -> [pc : {"off", "ask", "have"}, version : 0 .. MaxVersion,
                               spot : Price \union {0}]]
    /\ prices \in Seq([ts : 0 .. MaxTime, price : Price]) /\ Len(prices) <= MaxPrices
    /\ premiums \in Seq([ts : 0 .. MaxTime, version : 1 .. MaxVersion]) /\ Len(premiums) <= MaxPremiums
    /\ call \in [Caller -> [pc : {"idle", "load", "vix", "done"}, version : 0 .. MaxVersion,
                            current : 0 .. MaxVersion \union {None}]]
    /\ warm \in BOOLEAN /\ sent \in BOOLEAN /\ overlapped \in BOOLEAN
    /\ delivered \in Nat

\* The net premiums of the queue go back to an older answer of UW only after two
\* refreshes of the snapshot overlapped, the slower writing back what the other
\* had replaced, or two calls were between reading their net and pushing it.
OlderPremiumOnlyByOverlap ==
    ~overlapped => \A i, j \in DOMAIN premiums : i <= j => premiums[i].version <= premiums[j].version

\* The acceleration a call returns starts from the net premium of that call,
\* whatever other calls pushed meanwhile; a call that read none reports on
\* the premiums others left.
AccelerationIsOwn ==
    \A c \in Caller :
        call[c].pc = "done" /\ call[c].version > 0 => call[c].current \in {None, call[c].version}

\* A trend is never the work of the copies the cold start adds: a window reports
\* what the entries before the copies make, or nothing, unless the newest of them
\* is as old as two windows (the poll brought no spot, and FMP's price is old).
\* The copies count only towards the entries that unlock the page.
SeedingKeepsTrends ==
    [][~warm /\ warm' =>
        LET polled == WithSpot(prices, feed'.spot)
        IN  \A w \in Window :
               polled # <<>> /\ now - Last(polled).ts < 2 * w =>
                  Trend(prices', now, w) = Trend(polled, now, w)]_vars

\* The flag of the day is up exactly while an attempt is under way or once
\* one has delivered: no minute finds it down in the middle of an attempt.
FlagIsHeld == sent <=> call[Job].pc # "idle" \/ delivered > 0

\* The invariant of the jobs: the queue is out of order, and a call reports on a
\* premium that is not its own, only by overlap, and the flag is that of an attempt.
JobsInv ==
    /\ TypeOK
    /\ OlderPremiumOnlyByOverlap
    /\ AccelerationIsOwn
    /\ FlagIsHeld

\* The snapshot of the day reaches Telegram.
SnapshotArrives == <>(delivered > 0)
=============================================================================
