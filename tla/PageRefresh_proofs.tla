------------------------- MODULE PageRefresh_proofs --------------------------
(***************************************************************************)
(* What holds of the polling of a page for any names of timers and any      *)
(* number of changes of the signal.                                         *)
(***************************************************************************)
EXTENDS PageRefresh, TLAPS

USE DEF None, Waiting, Lost

(* Taking the last item of a bag leaves nothing.                             *)
LEMMA LastTaken ==
    ASSUME NEW bag, NEW id, DOMAIN bag \subseteq {id}
    PROVE  Without(bag, id) = Nothing
BY DEF Without, Nothing

(* The bag with no item, from which nothing is taken.                       *)
LEMMA NothingIsEmpty ==
    /\ DOMAIN Nothing = {}
    /\ \A S : Nothing \in [{} -> S]
    /\ \A id : Without(Nothing, id) = Nothing
BY DEF Without, Nothing

(* The bag with one item.                                                   *)
LEMMA OneItem ==
    ASSUME NEW id \in Ids, NEW item, NEW bag, bag = Added(Nothing, id, item)
    PROVE  bag = [i \in {id} |-> item] /\ DOMAIN bag = {id} /\ bag[id] = item /\ Single(bag)
<1>1. bag = [i \in {id} |-> item]
  BY NothingIsEmpty DEF Added
<1>2. DOMAIN bag = {id} /\ bag[id] = item
  BY <1>1
<1> QED
  BY <1>1, <1>2 DEF Single

(* A page starts with one request, and so it does when it is reloaded.      *)
LEMMA PageInvInit == Init => PageInv
<1> SUFFICES ASSUME Init PROVE PageInv
  OBVIOUS
<1>1. PICK id \in Ids : requests = Fresh(id)
  BY DEF Init
<1>2. /\ requests = [i \in {id} |-> [reply |-> Waiting, of |-> 0]]
      /\ Single(requests)
  BY <1>1, OneItem DEF Fresh
<1>3. DOMAIN timers = {} /\ timers = Nothing
  BY NothingIsEmpty DEF Init
<1> QED
  BY <1>2, <1>3, PageAssumption, NothingIsEmpty
  DEF Init, PageInv, TypeOK, OneChain, PacedByNewest, RequestCarriesNewest

(* The effect of startAutoPolling with the newest signal when no request is *)
(* left: one timer, which carries it.                                       *)
LEMMA PollingSetsOne ==
    ASSUME NEW v, Polling(v), timers = Nothing \/ DOMAIN timers = {handle}
    PROVE  \E id \in Ids : /\ timers' = [i \in {id} |-> [kind |-> "poll", of |-> v]]
                           /\ handle' = id /\ Single(timers')
<1>1. PICK id \in Unused :
          /\ timers' = Added(Without(timers, handle), id, [kind |-> "poll", of |-> v])
          /\ handle' = id
  BY DEF Polling
<1>2. id \in Ids
  BY DEF Unused
<1>3. Without(timers, handle) = Nothing
  BY LastTaken, NothingIsEmpty
<1> QED
  BY <1>1, <1>2, <1>3, OneItem

(* Every step keeps the invariant: a request or a timer is given up only    *)
(* for the one that follows it.                                             *)
LEMMA PageInvStep == PageInv /\ [Next]_vars => PageInv'
<1> SUFFICES ASSUME PageInv, [Next]_vars PROVE PageInv'
  OBVIOUS
<1> USE DEF PageInv
<1>0. /\ version \in Nat /\ got \in Nat /\ shown \in Nat /\ got <= version /\ version <= MaxVersion
      /\ version >= 1 /\ MaxVersion \in Nat
  BY PageAssumption DEF TypeOK
<1>1. CASE Change
  <2>1. version' = version + 1 /\ version' \in 1 .. MaxVersion
    BY <1>1, <1>0 DEF Change
  <2>2. timers' = timers /\ requests' = requests /\ UNCHANGED <<phase, hidden, handle, shown, got>>
    BY <1>1 DEF Change
  <2>3. \A id \in DOMAIN timers : timers[id] \in [kind : {"poll", "retry"}, of : 1 .. version']
    BY <2>1, <1>0 DEF TypeOK
  <2>4. \A id \in DOMAIN requests :
            requests[id] \in [reply : {Waiting, Lost} \cup 1 .. version', of : 0 .. version']
    BY <2>1, <1>0 DEF TypeOK
  <2>5. TypeOK'
    BY <2>1, <2>2, <2>3, <2>4, <1>0 DEF TypeOK
  <2>6. OneChain' /\ PacedByNewest'
    BY <2>2 DEF OneChain, PacedByNewest, Single
  <2>7. RequestCarriesNewest'
    BY <2>1, <2>2, <1>0 DEF RequestCarriesNewest
  <2> QED
    BY <2>2, <2>5, <2>6, <2>7
<1>2. ASSUME NEW id \in DOMAIN requests, NEW reply \in {version, Lost}, Serve(id, reply)
      PROVE  PageInv'
  <2>1. /\ DOMAIN requests' = DOMAIN requests
        /\ \A i \in DOMAIN requests \ {id} : requests'[i] = requests[i]
        /\ requests'[id].of = requests[id].of
        /\ requests'[id].reply = reply
    BY <1>2 DEF Serve, TypeOK
  <2>2. requests # Nothing /\ (Single(requests) => Single(requests'))
    BY <2>1, NothingIsEmpty DEF Single
  <2> QED
    BY <1>2, <1>0, <2>1, <2>2
    DEF Serve, TypeOK, OneChain, PacedByNewest, RequestCarriesNewest
<1>3. ASSUME NEW id \in DOMAIN requests, PollOk(id) \/ PollFails(id) \/ FirstOk(id) \/ FirstFails(id)
      PROVE  PageInv'
  <2>1. phase # "error" /\ timers = Nothing /\ DOMAIN requests = {id} /\ id \in Ids
    BY NothingIsEmpty DEF OneChain, Single, TypeOK
  <2>2. requests' = Nothing /\ DOMAIN requests' = {}
    BY <1>3, <2>1, LastTaken, NothingIsEmpty DEF PollOk, PollFails, FirstOk, FirstFails
  <2>3. DOMAIN timers = {}
    BY <2>1, NothingIsEmpty
  <2>4. CASE PollOk(id) \/ FirstOk(id)
    <3> DEFINE v == requests[id].reply
    <3>1. v \in got .. version /\ v >= 1
      BY <2>4, <1>0 DEF PollOk, FirstOk, Answer, Renders, Waiting, Lost, RequestCarriesNewest, TypeOK
    <3>2. /\ phase' = "polling" /\ got' = v /\ shown' \in {shown, v}
          /\ UNCHANGED <<version, hidden>> /\ Polling(v)
      BY <2>4, <3>1, <1>0 DEF PollOk, FirstOk
    <3>3. PICK p \in Ids : /\ timers' = [i \in {p} |-> [kind |-> "poll", of |-> v]]
                           /\ handle' = p /\ Single(timers')
      BY <3>2, <2>1, PollingSetsOne
    <3> QED
      BY <3>1, <3>2, <3>3, <2>2, <1>0, NothingIsEmpty
      DEF TypeOK, OneChain, PacedByNewest, RequestCarriesNewest, Single
  <2>5. CASE PollFails(id)
    <3>1. PICK r \in Unused :
              /\ timers' = Added(timers, r, [kind |-> "retry", of |-> requests[id].of])
              /\ handle' = r
      BY <2>5 DEF PollFails
    <3>2. r \in Ids /\ requests[id].of = got
      BY DEF Unused, RequestCarriesNewest
    <3>3. /\ timers' = [i \in {r} |-> [kind |-> "retry", of |-> got]]
          /\ Single(timers')
      <4>1. timers' = Added(Nothing, r, [kind |-> "retry", of |-> got])
        BY <3>1, <3>2, <2>1
      <4>2. r \in Ids
        BY <3>2
      <4> QED
        BY <4>1, <4>2, OneItem, Z3
    <3>4. got \in 1 .. version
      BY <2>5, <1>0 DEF PollFails
    <3> QED
      BY <2>5, <3>1, <3>2, <3>3, <3>4, <2>2, <1>0, NothingIsEmpty
      DEF PollFails, TypeOK, OneChain, PacedByNewest, RequestCarriesNewest
  <2>6. CASE FirstFails(id)
    BY <2>6, <2>1, <2>2, <2>3, <1>0, NothingIsEmpty
    DEF FirstFails, TypeOK, OneChain, PacedByNewest, RequestCarriesNewest
  <2> QED
    BY <1>3, <2>4, <2>5, <2>6
<1>4. ASSUME NEW id \in DOMAIN timers, PollTimer(id) \/ RetryTimer(id)
      PROVE  PageInv'
  <2>1. phase = "polling" /\ requests = Nothing /\ DOMAIN timers = {id} /\ id \in Ids
    BY NothingIsEmpty DEF OneChain, Single, TypeOK
  <2>2. /\ DOMAIN requests = {} /\ Without(timers, id) = Nothing
        /\ timers[id].of = got /\ got \in 1 .. version
    BY <2>1, LastTaken, NothingIsEmpty DEF PacedByNewest, TypeOK
  <2>3. CASE PollTimer(id)
    <3>1. PICK r \in Unused : requests' = Added(requests, r, [reply |-> Waiting, of |-> timers[id].of])
      BY <2>3 DEF PollTimer
    <3>2. r \in Ids
      BY DEF Unused
    <3>3. /\ requests' = [i \in {r} |-> [reply |-> Waiting, of |-> got]]
          /\ Single(requests')
      <4>1. requests' = Added(Nothing, r, [reply |-> Waiting, of |-> got])
        BY <3>1, <2>1, <2>2
      <4> QED
        BY <3>2, <4>1, OneItem
    <3>4. timers' = Nothing /\ DOMAIN timers' = {}
      BY <2>3, <2>2, NothingIsEmpty DEF PollTimer
    <3> QED
      BY <2>3, <3>2, <3>3, <3>4, <2>1, <2>2, <1>0, NothingIsEmpty
      DEF PollTimer, TypeOK, OneChain, PacedByNewest, RequestCarriesNewest
  <2>4. CASE RetryTimer(id)
    <3>1. PICK p \in Unused :
              /\ timers' = Added(Without(Without(timers, id), handle), p,
                                 [kind |-> "poll", of |-> timers[id].of])
              /\ handle' = p
      BY <2>4 DEF RetryTimer
    <3>2. p \in Ids /\ Without(Without(timers, id), handle) = Nothing
      BY <2>2, NothingIsEmpty DEF Unused
    <3>3. /\ timers' = [i \in {p} |-> [kind |-> "poll", of |-> got]]
          /\ Single(timers')
      <4>1. timers' = Added(Nothing, p, [kind |-> "poll", of |-> got])
        BY <3>1, <3>2, <2>2
      <4> QED
        BY <3>2, <4>1, OneItem
    <3> QED
      BY <2>4, <3>1, <3>2, <3>3, <2>1, <2>2, <1>0, NothingIsEmpty
      DEF RetryTimer, TypeOK, OneChain, PacedByNewest, RequestCarriesNewest
  <2> QED
    BY <1>4, <2>3, <2>4
<1>5. CASE Turn
  BY <1>5 DEF Turn, TypeOK, OneChain, PacedByNewest, RequestCarriesNewest, Single
<1>6. CASE Reload
  <2>1. PICK id \in Ids : requests' = Fresh(id)
    BY <1>6 DEF Reload
  <2>2. /\ requests' = [i \in {id} |-> [reply |-> Waiting, of |-> 0]]
        /\ Single(requests')
    BY <2>1, OneItem DEF Fresh
  <2>3. DOMAIN timers' = {} /\ timers' = Nothing
    BY <1>6, NothingIsEmpty DEF Reload
  <2> QED
    BY <1>6, <1>0, <2>2, <2>3, NothingIsEmpty
    DEF Reload, TypeOK, OneChain, PacedByNewest, RequestCarriesNewest
<1>7. CASE UNCHANGED vars
  BY <1>7 DEF vars, TypeOK, OneChain, PacedByNewest, RequestCarriesNewest, Single
<1> QED
  BY <1>1, <1>2, <1>3, <1>4, <1>5, <1>6, <1>7 DEF Next, PageStep

(* The inductive invariant of a page: types, one chain, and what the timer  *)
(* or the request in it carries.                                            *)
THEOREM PageInvariant == Spec => []PageInv
<1>1. Init => PageInv
  BY PageInvInit
<1>2. PageInv /\ [Next]_vars => PageInv'
  BY PageInvStep
<1> QED
  BY <1>1, <1>2, PTL DEF Spec

(* However polls fail and are retried, there is one timer or one request.   *)
THEOREM OneChainOnly == Spec => []OneChain
BY PageInvariant, PTL DEF PageInv

(* The next poll is paced by the newest signal that came.                   *)
THEOREM PacedByTheNewest == Spec => []PacedByNewest
BY PageInvariant, PTL DEF PageInv

(* A page shows an older signal after a newer one only if it was reloaded:  *)
(* its one request was served after the signal it shows.                    *)
THEOREM ShownAdvances == Spec => NeverGoesBack
<1>1. PageInv /\ [Next]_vars => [shown' >= shown \/ (shown' = 0 /\ phase' = "loading")]_vars
  <2> SUFFICES ASSUME PageInv, [Next]_vars
               PROVE  shown' >= shown \/ (shown' = 0 /\ phase' = "loading")
    OBVIOUS
  <2>1. shown \in Nat /\ got \in Nat /\ version \in Nat /\ shown <= got
    BY DEF PageInv, TypeOK
  <2>2. ASSUME NEW id \in DOMAIN requests, PollOk(id) \/ FirstOk(id)
        PROVE  shown' >= shown
    BY <2>1, <2>2
    DEF PageInv, RequestCarriesNewest, PollOk, FirstOk, Answer, Renders, Waiting, Lost
  <2>3. CASE shown' = shown
    BY <2>1, <2>3
  <2>4. CASE Reload
    BY <2>4 DEF Reload
  <2> QED
    BY <2>2, <2>3, <2>4
    DEF Next, PageStep, vars, Change, Serve, PollFails, FirstFails, PollTimer, RetryTimer, Turn
<1> QED
  BY <1>1, PageInvariant, PTL DEF Spec, NeverGoesBack
=============================================================================
