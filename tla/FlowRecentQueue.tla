--------------------------- MODULE FlowRecentQueue ---------------------------
(***************************************************************************)
(* The in-memory queue of option trades (scheduler/flow-recent-queue.js).   *)
(* UW serves the latest trades in pages; after each refresh                 *)
(* (live-refresh-scheduler.js) the page of the snapshot is appended to the  *)
(* queue.  The page may be one the provider has kept: pages come again and, *)
(* when refreshes overlap or the snapshot is restored, out of order.        *)
(*                                                                          *)
(* A trade is its position on the tape of UW.  UW dates its trades, but a   *)
(* row may come without an id, and the queue cannot know such a row again.  *)
(***************************************************************************)
EXTENDS Integers, SequencesExt

CONSTANTS
    PageSize,       \* trades UW returns
    MaxAge,         \* _maxAgeMs
    SeenTtl,        \* SEEN_ID_TTL_MS
    MaxSize,        \* _maxSize
    Nameless,       \* trades that UW serves without an id
    Poller,         \* refreshes that can be outstanding at a time
    MaxTime,        \* bound on the clock
    MaxTrades       \* bound on the trades of the day

ASSUME QueueAssumption ==
    /\ PageSize \in Nat \ {0}
    /\ MaxAge \in Nat
    /\ SeenTtl \in Nat
    /\ SeenTtl >= MaxAge
    /\ MaxSize \in Nat \ {0}
    /\ MaxTime \in Nat \ {0}
    /\ MaxTrades \in Nat
    /\ Nameless \subseteq Nat

Never == 0

VARIABLES
    now,
    tape,           \* executed_at of every trade so far, in order
    page,           \* the flow_recent entry each refresh holds
    queue,          \* _queue
    seen            \* _seenIds: when a trade was first seen, or Never

queueVars == <<now, tape, page, queue, seen>>

Trade == 1 .. MaxTrades
Age(id) == now - tape[id]
Latest == {id \in DOMAIN tape : id > Len(tape) - PageSize}

-----------------------------------------------------------------------------
(* append and _evict.                                                       *)

\* The members of a finite set of trades, in the order of the tape.
Ascending(S) ==
    CHOOSE s \in [1 .. Cardinality(S) -> S] :
        Range(s) = S /\ \A i, j \in DOMAIN s : i < j => s[i] < s[j]

\* What append takes from a page, oldest first: unseen and not too old.
Fresh(p) == Ascending({id \in p : seen[id] = Never /\ Age(id) <= MaxAge})

\* A mutant of Evicted: the boundary itself is too old.
EvictedEarly(q) ==
    LET young == {i \in DOMAIN q : Age(q[i]) < MaxAge}
    IN  IF young = {} THEN <<>> ELSE SubSeq(q, Min(young), Len(q))

\* The head is evicted up to the first trade that is not too old.
Evicted(q) ==
    LET young == {i \in DOMAIN q : Age(q[i]) <= MaxAge}
    IN  IF young = {} THEN <<>> ELSE SubSeq(q, Min(young), Len(q))

\* The hard limit drops the head.
Capped(q) == IF Len(q) > MaxSize THEN SubSeq(q, Len(q) - MaxSize + 1, Len(q)) ELSE q

\* A mutant of Remembered: only the last page is remembered.
RememberedPage(new) ==
    [id \in Trade |-> IF id \in Range(new) \ Nameless THEN now ELSE Never]

\* An id is remembered from the first time it is seen until SeenTtl has passed.
Remembered(new) ==
    [id \in Trade |->
        IF id \in Range(new) \ Nameless THEN now
        ELSE IF seen[id] # Never /\ now - seen[id] <= SeenTtl THEN seen[id]
        ELSE Never]

-----------------------------------------------------------------------------
QueueInit ==
    /\ now = 1
    /\ tape = <<>>
    /\ page = [p \in Poller |-> {}]
    /\ queue = <<>>
    /\ seen = [id \in Trade |-> Never]

Tick ==
    /\ now < MaxTime
    /\ now' = now + 1
    /\ UNCHANGED <<tape, page, queue, seen>>

\* Someone trades.
Execute ==
    /\ Len(tape) < MaxTrades
    /\ tape' = Append(tape, now)
    /\ UNCHANGED <<now, page, queue, seen>>

\* UW answers a refresh with the latest trades.
Fetch(p) ==
    /\ page' = [page EXCEPT ![p] = Latest]
    /\ UNCHANGED <<now, tape, queue, seen>>

\* A refresh is done and its page, new or kept, is appended.
AppendPage(p) ==
    /\ page[p] # {}
    /\ LET new == Fresh(page[p])
       IN  /\ queue' = Capped(Evicted(queue \o new))
           /\ seen' = Remembered(new)
    /\ UNCHANGED <<now, tape, page>>

\* The server restarts; pages survive in the stored snapshot.
Restart ==
    /\ queue' = <<>>
    /\ seen' = [id \in Trade |-> Never]
    /\ UNCHANGED <<now, tape, page>>

QueueNext ==
    \/ Tick
    \/ Execute
    \/ \E p \in Poller : Fetch(p)
    \/ \E p \in Poller : AppendPage(p)
    \/ Restart

QueueSpec == QueueInit /\ [][QueueNext]_queueVars

-----------------------------------------------------------------------------
(* Properties.                                                              *)

\* Every part of the state keeps its range, and the queue its hard limit.
TypeOK ==
    /\ now \in 1 .. MaxTime
    /\ tape \in Seq(1 .. MaxTime) /\ Len(tape) <= MaxTrades
    /\ page \in [Poller -> SUBSET Trade]
    /\ queue \in Seq(Trade) /\ Len(queue) <= MaxSize
    /\ seen \in [Trade -> 0 .. MaxTime]

\* A trade in the queue is one of the tape, and either remembered since it was
\* first seen, which was not before it happened, or too old to come again, or
\* one that cannot be remembered.
Remembers ==
    /\ \A p \in Poller : page[p] \subseteq DOMAIN tape
    /\ \A id \in DOMAIN tape : tape[id] <= now
    /\ \A id \in Trade : seen[id] # Never =>
          id \in DOMAIN tape /\ tape[id] <= seen[id] /\ seen[id] <= now
    /\ \A id \in Nameless \cap Trade : seen[id] = Never
    /\ \A id \in Range(queue) :
          id \in DOMAIN tape /\ (seen[id] # Never \/ Age(id) > MaxAge \/ id \in Nameless)

\* No trade that has an id stands in q twice.
Once(q) == \A i, j \in DOMAIN q : q[i] = q[j] /\ q[i] \notin Nameless => i = j

\* No trade that has an id is counted twice, however often its page comes again:
\* it is forgotten only when it is too old to be appended once more.
NoTradeTwice == Once(queue)

\* The invariant of the queue: its types, its bound, its memory, and every trade
\* that has an id once.
QueueInv == TypeOK /\ Remembers /\ NoTradeTwice

\* A trade in the queue stays until it is too old: only the hard limit removes
\* it earlier, and then leaves the queue full, or a restart.
YoungTradesKept ==
    [][\A id \in Range(queue) :
          Age(id) <= MaxAge /\ id \notin Range(queue') =>
             Len(queue') = MaxSize \/ Restart]_queueVars
=============================================================================
