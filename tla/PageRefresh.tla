----------------------------- MODULE PageRefresh -----------------------------
(***************************************************************************)
(* The polling of a dashboard page (apps/web/app.js): the first load, the   *)
(* chain of timers of startAutoPolling with its retries, and a page that    *)
(* goes to the background and comes back, against a server whose signal     *)
(* changes under it.                                                        *)
(*                                                                          *)
(* Timers and requests are bags kept as functions from ids, because         *)
(* _pollTimer remembers only the timer that was set last.  Durations are    *)
(* left to the order in which timers fire; of an interval the model keeps   *)
(* whose signal it was computed from.                                       *)
(***************************************************************************)
EXTENDS Integers

CONSTANTS
    Ids,            \* names for timers and requests, enough of them
    MaxVersion,     \* changes of the signal
    Broken          \* versions on which renderPage throws

ASSUME PageAssumption == MaxVersion \in Nat \ {0} /\ Broken \subseteq Nat \ {0}

VARIABLES
    version,    \* of the signal that the server would answer with
    phase,      \* of the page: loading, polling or error
    hidden,
    timers,     \* pending timers: id -> [kind, of], of: version of the signal they carry
    handle,     \* _pollTimer
    requests,   \* requests under way: id -> [reply, of]
    shown,      \* version rendered, 0 before
    got         \* newest version that the polling went on with

vars == <<version, phase, hidden, timers, handle, requests, shown, got>>

None == 0
Nothing == [id \in {} |-> 0]

\* What the server has answered a request with, if it has.
Waiting == 0
Lost    == -1

Added(bag, id, item) == [i \in DOMAIN bag \cup {id} |-> IF i = id THEN item ELSE bag[i]]
Without(bag, id)     == [i \in DOMAIN bag \ {id} |-> bag[i]]

Unused == Ids \ (DOMAIN timers \cup DOMAIN requests \cup {handle})

-----------------------------------------------------------------------------
Fresh(id) == Added(Nothing, id, [reply |-> Waiting, of |-> 0])

Init ==
    /\ version = 1
    /\ phase = "loading"
    /\ hidden \in BOOLEAN
    /\ timers = Nothing
    /\ handle = None
    /\ \E id \in Ids : requests = Fresh(id)
    /\ shown = 0 /\ got = 0

\* Anything that the signal is made of changes.
Change ==
    /\ version < MaxVersion
    /\ version' = version + 1
    /\ UNCHANGED <<phase, hidden, timers, handle, requests, shown, got>>

\* The server decides an answer from what there is, or answers with an error.
Serve(id, reply) ==
    /\ requests[id].reply = Waiting
    /\ reply \in {version, Lost}
    /\ requests' = [requests EXCEPT ![id].reply = reply]
    /\ UNCHANGED <<version, phase, hidden, timers, handle, shown, got>>

\* The effect of startAutoPolling(signal of version v): the timer that was set
\* last goes, if it is still pending, and a new one is set.
Polling(v) ==
    \E id \in Unused :
        /\ timers' = Added(Without(timers, handle), id, [kind |-> "poll", of |-> v])
        /\ handle' = id

Answer(v) == v \notin {Waiting, Lost}

\* The page that renders version v, if it renders at all.
Renders(v) == Answer(v) /\ v \notin Broken

\* A mutant of PollOk: a page in the background is not polled on.
PollOkSeen(id) ==
    LET v == requests[id].reply
    IN  /\ phase = "polling" /\ (IF hidden THEN Answer(v) ELSE Renders(v))
        /\ requests' = Without(requests, id)
        /\ got' = IF v > got THEN v ELSE got
        /\ IF hidden THEN UNCHANGED <<timers, handle>> ELSE Polling(v)
        /\ shown' = IF hidden THEN shown ELSE v
        /\ UNCHANGED <<version, phase, hidden>>

\* A poll is answered: a visible page renders, every page polls on.
PollOk(id) ==
    LET v == requests[id].reply
    IN  /\ phase = "polling" /\ (IF hidden THEN Answer(v) ELSE Renders(v))
        /\ requests' = Without(requests, id)
        /\ got' = IF v > got THEN v ELSE got
        /\ Polling(v)
        /\ shown' = IF hidden THEN shown ELSE v
        /\ UNCHANGED <<version, phase, hidden>>

\* A mutant of PollFails: the page polls on at once and retries as well.
PollFailsTwice(id) ==
    /\ phase = "polling"
    /\ requests[id].reply = Lost \/ (~hidden /\ requests[id].reply \in Broken)
    /\ requests' = Without(requests, id)
    /\ \E a, b \in Unused :
          /\ a # b
          /\ timers' = Added(Added(timers, a, [kind |-> "poll", of |-> requests[id].of]),
                             b, [kind |-> "retry", of |-> requests[id].of])
          /\ handle' = b
    /\ UNCHANGED <<version, phase, hidden, shown, got>>

\* A poll fails, or a visible page throws while it renders the answer: a retry
\* timer is set with the signal that the poll carried.
PollFails(id) ==
    /\ phase = "polling"
    /\ requests[id].reply = Lost \/ (~hidden /\ requests[id].reply \in Broken)
    /\ requests' = Without(requests, id)
    /\ \E r \in Unused :
          /\ timers' = Added(timers, r, [kind |-> "retry", of |-> requests[id].of])
          /\ handle' = r
    /\ UNCHANGED <<version, phase, hidden, shown, got>>

\* The first answer is rendered, hidden or not, and starts the polling; a first
\* failure, to load or to render, is final.
FirstOk(id) ==
    LET v == requests[id].reply
    IN  /\ phase = "loading" /\ Renders(v)
        /\ phase' = "polling"
        /\ requests' = Without(requests, id)
        /\ shown' = v /\ got' = v
        /\ Polling(v)
        /\ UNCHANGED <<version, hidden>>

FirstFails(id) ==
    /\ phase = "loading" /\ requests[id].reply \in {Lost} \cup Broken
    /\ phase' = "error"
    /\ requests' = Without(requests, id)
    /\ UNCHANGED <<version, hidden, timers, handle, shown, got>>

\* A timer fires: a poll timer asks the server, a retry timer starts the polling
\* again, with an interval of its own.
PollTimer(id) ==
    /\ timers[id].kind = "poll"
    /\ timers' = Without(timers, id)
    /\ \E r \in Unused : requests' = Added(requests, r, [reply |-> Waiting, of |-> timers[id].of])
    /\ UNCHANGED <<version, phase, hidden, handle, shown, got>>

RetryTimer(id) ==
    /\ timers[id].kind = "retry"
    /\ \E p \in Unused :
          /\ timers' = Added(Without(Without(timers, id), handle), p,
                             [kind |-> "poll", of |-> timers[id].of])
          /\ handle' = p
    /\ UNCHANGED <<version, phase, hidden, requests, shown, got>>

Turn ==
    /\ hidden' = ~hidden
    /\ UNCHANGED <<version, phase, timers, handle, requests, shown, got>>

\* The user reloads the page, or picks another scenario: the old page is gone.
Reload ==
    /\ phase' = "loading"
    /\ timers' = Nothing /\ handle' = None
    /\ \E id \in Ids : requests' = Fresh(id)
    /\ shown' = 0 /\ got' = 0
    /\ UNCHANGED <<version, hidden>>

PageStep ==
    \/ \E id \in DOMAIN requests : PollOk(id) \/ PollFails(id) \/ FirstOk(id) \/ FirstFails(id)
    \/ \E id \in DOMAIN timers : PollTimer(id) \/ RetryTimer(id)

Next ==
    \/ Change
    \/ \E id \in DOMAIN requests, reply \in {version, Lost} : Serve(id, reply)
    \/ PageStep
    \/ Turn
    \/ Reload

Spec == Init /\ [][Next]_vars

\* Browsers deliver answers and fire timers, in the background too; the server
\* answers, and not with errors alone.
Fairness ==
    /\ WF_vars(PageStep)
    /\ WF_vars(\E id \in DOMAIN requests, reply \in {version, Lost} : Serve(id, reply))
    /\ SF_vars(\E id \in DOMAIN requests : Serve(id, version))

FairSpec == Spec /\ Fairness

-----------------------------------------------------------------------------
(* Properties.                                                              *)

\* Every part of the state keeps its range, and nothing is of a signal to come.
TypeOK ==
    /\ version \in 1 .. MaxVersion
    /\ phase \in {"loading", "polling", "error"}
    /\ hidden \in BOOLEAN
    /\ handle \in Ids \cup {None}
    /\ DOMAIN timers \subseteq Ids
    /\ timers \in [DOMAIN timers -> [kind : {"poll", "retry"}, of : 1 .. version]]
    /\ DOMAIN requests \subseteq Ids
    /\ requests \in [DOMAIN requests ->
                       [reply : {Waiting, Lost} \cup 1 .. version, of : 0 .. version]]
    /\ shown \in 0 .. version /\ got \in 0 .. version

Single(bag) == \E id \in Ids : DOMAIN bag = {id}

\* However polls fail and are retried, a page has one timer or one request and
\* never a second chain beside it; only an error page has none.
OneChain ==
    /\ phase = "error" => timers = Nothing /\ requests = Nothing
    /\ phase = "loading" => timers = Nothing /\ Single(requests)
    /\ phase = "polling" => \/ timers = Nothing /\ Single(requests)
                            \/ Single(timers) /\ requests = Nothing

\* A page never shows an older signal after a newer one.
NeverGoesBack == [][shown' >= shown \/ (shown' = 0 /\ phase' = "loading")]_vars

\* The next poll is paced by the newest signal that came, through any number of
\* failures in between.
PacedByNewest == \A id \in DOMAIN timers : timers[id].of = got

\* What the one request of a page carries: the newest signal that came, and an
\* answer that is no older.
RequestCarriesNewest ==
    \A id \in DOMAIN requests :
        requests[id].of = got /\ requests[id].reply \in {Waiting, Lost} \cup got .. version

\* The inductive invariant of a page: one chain of timer and request through all
\* failures, and both know of the newest signal that came.
PageInv ==
    /\ TypeOK
    /\ OneChain
    /\ PacedByNewest
    /\ RequestCarriesNewest
    /\ shown <= got
    /\ phase = "loading" => got = 0
    /\ phase = "polling" => got > 0

\* A page that stays in view comes to show what the server knows, once that has
\* stopped changing and can be rendered, unless the page is on its error card or
\* reloaded for ever.
CatchesUp ==
    (<>[]~hidden /\ <>[](phase = "polling") /\ <>[](version \notin Broken)) =>
        <>[](shown = version)
=============================================================================
