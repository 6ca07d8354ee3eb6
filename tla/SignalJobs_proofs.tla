-------------------------- MODULE SignalJobs_proofs --------------------------
(***************************************************************************)
(* What holds of the shared queues and of the jobs for any callers, prices, *)
(* limits and minutes.                                                      *)
(***************************************************************************)
EXTENDS SignalJobs, SequenceTheorems, WellFoundedInduction, TLAPS

-----------------------------------------------------------------------------
(* The queues.                                                              *)

(* The limit of a queue keeps the newest entries in their order.            *)
LEMMA RecentKeeps ==
    ASSUME NEW S, NEW q \in Seq(S), NEW n \in Nat \ {0}
    PROVE  /\ Recent(q, n) \in Seq(S) /\ Len(Recent(q, n)) <= n
           /\ q # <<>> => Len(Recent(q, n)) > 0 /\ Recent(q, n)[Len(Recent(q, n))] = q[Len(q)]
           /\ \E d \in Nat : \A i \in DOMAIN Recent(q, n) :
                 i + d \in DOMAIN q /\ Recent(q, n)[i] = q[i + d]
<1> DEFINE m == IF Len(q) > n THEN Len(q) - n + 1 ELSE 1
           r == Recent(q, n)
<1>1. /\ Len(q) \in Nat /\ m \in 1 .. Len(q) + 1 /\ DOMAIN q = 1 .. Len(q)
      /\ Len(q) - m + 1 <= n
      /\ q # <<>> => m <= Len(q)
  <2>1. q # <<>> => Len(q) > 0
    BY EmptySeq
  <2> QED
    BY <2>1, LenProperties
<1>2. r = SubSeq(q, m, Len(q))
  BY DEF Recent
<1>3. \A i \in m .. Len(q) : q[i] \in S
  BY <1>1
<1>4. /\ r \in Seq(S)
      /\ Len(r) = IF m <= Len(q) THEN Len(q) - m + 1 ELSE 0
      /\ \A i \in 1 .. Len(q) - m + 1 : r[i] = q[m + i - 1]
  <2> HIDE DEF m, r
  <2> QED
    BY <1>1, <1>2, <1>3, SubSeqProperties
<1> HIDE DEF m, r
<1>5. DOMAIN r = 1 .. Len(r)
  BY <1>4, LenProperties
<1>6. Len(r) = Len(q) - m + 1 /\ m - 1 \in Nat /\ m \in Int
  BY <1>1, <1>4
<1>7. \A i \in DOMAIN r : i + (m - 1) \in DOMAIN q /\ r[i] = q[i + (m - 1)]
  <2> SUFFICES ASSUME NEW i \in 1 .. Len(q) - m + 1
               PROVE  i + (m - 1) \in 1 .. Len(q) /\ r[i] = q[i + (m - 1)]
    BY <1>5, <1>6
  <2>1. r[i] = q[m + i - 1] /\ m + i - 1 = i + (m - 1)
    BY <1>4, <1>6
  <2> QED
    BY <1>1, <1>6, <2>1
<1>8. \E d \in Nat : \A i \in DOMAIN r : i + d \in DOMAIN q /\ r[i] = q[i + d]
  BY <1>6, <1>7
<1>9. Len(r) <= n
  BY <1>1, <1>6
<1>10. q # <<>> => Len(r) > 0 /\ r[Len(r)] = q[Len(q)]
  <2> SUFFICES ASSUME q # <<>>
               PROVE  Len(r) > 0 /\ r[Len(r)] = q[Len(q)]
    OBVIOUS
  <2>1. Len(r) > 0
    BY <1>1, <1>6
  <2>2. Len(r) \in DOMAIN r /\ Len(r) + (m - 1) = Len(q)
    BY <1>1, <1>5, <1>6, <2>1
  <2> QED
    BY <1>7, <2>1, <2>2
<1> QED
  BY <1>4, <1>8, <1>9, <1>10 DEF r

(* A pushed spot price keeps the type and the limit of the buffer.          *)
LEMMA PushType ==
    ASSUME TypeOK, NEW q \in Seq([ts : 0 .. MaxTime, price : Price]), NEW p \in Price
    PROVE  /\ Push(q, now, p) \in Seq([ts : 0 .. MaxTime, price : Price])
           /\ Len(Push(q, now, p)) <= MaxPrices /\ Push(q, now, p) # <<>>
<1>1. [ts |-> now, price |-> p] \in [ts : 0 .. MaxTime, price : Price]
  BY DEF TypeOK
<1>2. Append(q, [ts |-> now, price |-> p]) \in Seq([ts : 0 .. MaxTime, price : Price])
  BY <1>1
<1>3. Append(q, [ts |-> now, price |-> p]) # <<>>
  BY <1>1
<1> DEFINE S == [ts : 0 .. MaxTime, price : Price]
           a == Append(q, [ts |-> now, price |-> p])
<1> HIDE DEF S, a
<1>4. /\ Recent(a, MaxPrices) \in Seq(S) /\ Len(Recent(a, MaxPrices)) <= MaxPrices
      /\ Len(Recent(a, MaxPrices)) > 0
  BY <1>2, <1>3, RecentKeeps, JobsAssumption DEF S, a
<1>5. Recent(a, MaxPrices) # <<>>
  BY <1>4
<1> QED
  BY <1>4, <1>5 DEF Push, S, a

(* So does the spot of a snapshot.                                          *)
LEMMA WithSpotType ==
    ASSUME TypeOK, NEW p \in Price \union {0}
    PROVE  /\ WithSpot(prices, p) \in Seq([ts : 0 .. MaxTime, price : Price])
           /\ Len(WithSpot(prices, p)) <= MaxPrices
BY PushType DEF WithSpot, TypeOK

(* So does the seeding.                                                     *)
LEMMA SeededType ==
    ASSUME TypeOK, NEW q \in Seq([ts : 0 .. MaxTime, price : Price]),
           Len(q) <= MaxPrices
    PROVE  /\ Seeded(q) \in Seq([ts : 0 .. MaxTime, price : Price])
           /\ Len(Seeded(q)) <= MaxPrices
<1> DEFINE Entry == [ts : 0 .. MaxTime, price : Price]
           e == [ts |-> now, price |-> Last(q).price]
           copies == [i \in 1 .. SeedTo - Len(q) |-> e]
<1>1. CASE Full(q)
  BY <1>1 DEF Seeded
<1>2. CASE ~Full(q)
  <2>1. q \in Seq(Entry) /\ q # <<>> /\ ~(Len(q) >= SeedTo)
    BY <1>2 DEF Full
  <2>2. q[Len(q)] \in Entry
    <3> HIDE DEF Entry
    <3>1. Len(q) \in 1 .. Len(q)
      BY <2>1, EmptySeq
    <3> QED
      BY <2>1, <3>1, ElementOfSeq
  <2>3. e \in Entry
    BY <2>2 DEF Last, TypeOK
  <2>4. SeedTo - Len(q) \in Nat
    BY <2>1, JobsAssumption
  <2> HIDE DEF Entry, e
  <2>5. copies \in Seq(Entry)
    BY <2>3, <2>4
  <2> HIDE DEF copies
  <2>6. q \o copies \in Seq(Entry)
    BY <2>1, <2>5
  <2>7. Seeded(q) = Recent(q \o copies, MaxPrices)
    BY <1>2 DEF Seeded, WithCopies, copies, e
  <2>8. Seeded(q) \in Seq(Entry) /\ Len(Seeded(q)) <= MaxPrices
    <3> DEFINE r == q \o copies
    <3>1. r \in Seq(Entry) /\ MaxPrices \in Nat \ {0}
      BY <2>6, JobsAssumption
    <3> HIDE DEF r
    <3>2. Recent(r, MaxPrices) \in Seq(Entry) /\ Len(Recent(r, MaxPrices)) <= MaxPrices
      BY <3>1, RecentKeeps
    <3> QED
      BY <2>7, <3>2 DEF r
  <2> QED
    BY <2>8 DEF Entry
<1> QED
  BY <1>1, <1>2

\* The premiums of a queue go from older snapshots to newer.
Ordered(q) == \A i, j \in DOMAIN q : i <= j => q[i].version <= q[j].version

(* A premium that is no older than those of the queue keeps their order,    *)
(* and is the one the acceleration starts from.                             *)
LEMMA WithPremiumKeeps ==
    ASSUME TypeOK, NEW v \in 0 .. MaxVersion
    PROVE  /\ WithPremium(v) \in Seq([ts : 0 .. MaxTime, version : 1 .. MaxVersion])
           /\ Len(WithPremium(v)) <= MaxPremiums
           /\ \A i \in DOMAIN WithPremium(v) :
                 WithPremium(v)[i].version = v \/ \E j \in DOMAIN premiums : WithPremium(v)[i].version = premiums[j].version
           /\ Ordered(premiums) /\ (\A i \in DOMAIN premiums : premiums[i].version <= v) => Ordered(WithPremium(v))
           /\ v = 0 => WithPremium(v) = premiums
           /\ v > 0 => Current(WithPremium(v)) \in {None, v}
           /\ Current(WithPremium(v)) \in 0 .. MaxVersion \union {None}
<1> DEFINE Entry == [ts : 0 .. MaxTime, version : 1 .. MaxVersion]
           e == [ts |-> now, version |-> v]
           q == Append(premiums, e)
           r == Recent(q, MaxPremiums)
<1>0. premiums \in Seq(Entry) /\ Len(premiums) <= MaxPremiums /\ Len(premiums) \in Nat
  BY DEF TypeOK
<1>1. CASE v = 0
  <2>1. WithPremium(v) = premiums
    BY <1>1 DEF WithPremium
  <2>2. Current(premiums) \in 0 .. MaxVersion \union {None}
    <3>1. CASE Len(premiums) < 2
      BY <3>1 DEF Current
    <3>2. CASE ~(Len(premiums) < 2)
      <4>1. premiums[Len(premiums)] \in Entry
        <5> HIDE DEF Entry
        <5>1. Len(premiums) \in 1 .. Len(premiums)
          BY <1>0, <3>2
        <5> QED
          BY <1>0, <5>1, ElementOfSeq
      <4>2. Current(premiums) = premiums[Len(premiums)].version
        BY <3>2 DEF Current, Last
      <4> QED
        BY <4>1, <4>2
    <3> QED
      BY <3>1, <3>2
  <2> QED
    BY <1>0, <1>1, <2>1, <2>2
<1>2. CASE v # 0
  <2>1. WithPremium(v) = r
    BY <1>2 DEF WithPremium
  <2>2. e \in Entry
    BY <1>2, JobsAssumption DEF TypeOK
  <2>3. /\ q \in Seq(Entry) /\ q # <<>> /\ Len(q) = Len(premiums) + 1
        /\ DOMAIN q = 1 .. Len(premiums) + 1 /\ DOMAIN premiums = 1 .. Len(premiums)
        /\ q[Len(q)] = e
        /\ \A i \in DOMAIN premiums : q[i] = premiums[i]
    BY <1>0, <2>2
  <2>4. /\ r \in Seq(Entry) /\ Len(r) <= MaxPremiums
        /\ Len(r) > 0 /\ r[Len(r)] = e
        /\ \E d \in Nat : \A i \in DOMAIN r : i + d \in DOMAIN q /\ r[i] = q[i + d]
    <3> HIDE DEF Entry, q
    <3> QED
      BY <2>3, RecentKeeps, JobsAssumption
  <2>5. PICK d \in Nat : \A i \in DOMAIN r : i + d \in DOMAIN q /\ r[i] = q[i + d]
    BY <2>4
  <2>6. DOMAIN r \subseteq Nat
    BY <2>4
  <2> HIDE DEF q, r, e
  <2>7. \A i \in DOMAIN q : q[i] = e \/ \E j \in DOMAIN premiums : q[i] = premiums[j]
    <3>1. \A i \in DOMAIN q : i = Len(q) \/ i \in DOMAIN premiums
      BY <2>3, <1>0
    <3> QED
      BY <2>3, <3>1
  <2>8. \A i \in DOMAIN r : r[i].version = v \/ \E j \in DOMAIN premiums : r[i].version = premiums[j].version
    BY <2>5, <2>7 DEF e
  <2>9. ASSUME Ordered(premiums), \A i \in DOMAIN premiums : premiums[i].version <= v
        PROVE  Ordered(r)
    <3>1. \A i, j \in DOMAIN q : i <= j => q[i].version <= q[j].version
      <4> SUFFICES ASSUME NEW i \in DOMAIN q, NEW j \in DOMAIN q, i <= j
                   PROVE  q[i].version <= q[j].version
        OBVIOUS
      <4>1. CASE j \in DOMAIN premiums
        <5>1. i \in DOMAIN premiums
          BY <1>0, <2>3, <4>1
        <5> QED
          BY <2>3, <2>9, <4>1, <5>1 DEF Ordered
      <4>2. CASE j = Len(premiums) + 1
        <5>1. q[j].version = v
          BY <2>3, <4>2 DEF e
        <5>2. CASE i \in DOMAIN premiums
          BY <2>3, <2>9, <5>1, <5>2
        <5>3. CASE i = Len(premiums) + 1
          BY <4>2, <5>1, <5>3
        <5> QED
          BY <1>0, <2>3, <5>2, <5>3
      <4> QED
        BY <1>0, <2>3, <4>1, <4>2
    <3> QED
      BY <2>5, <2>6, <3>1 DEF Ordered
  <2>10. Current(r) \in {None, v}
    BY <2>4 DEF Current, Last, e
  <2> QED
    BY <1>2, <2>1, <2>4, <2>8, <2>9, <2>10
<1> QED
  BY <1>1, <1>2
-----------------------------------------------------------------------------
(* The inductive invariant.                                                 *)

\* No version is newer than the last that UW answered.
Answers ==
    /\ feed.version <= newest
    /\ \A x \in Fetcher : fetch[x].version <= newest

\* Refreshes that never met are under way one at a time, and write no older
\* version than they find.
Straight ==
    ~overlapped =>
        /\ \A x, y \in Fetcher : Fetching(x) /\ Fetching(y) => x = y
        /\ \A x \in Fetcher : Fetching(x) => feed.version <= fetch[x].version

\* While none did, nothing was read that is newer than the snapshot.
NotNewer ==
    ~overlapped =>
        /\ \A i \in DOMAIN premiums : premiums[i].version <= feed.version
        /\ \A c \in Caller : call[c].version <= feed.version

\* Calls that never met hold a net premium one at a time, and no older one than
\* those of the queue.
OneAtATime ==
    ~overlapped =>
        /\ \A c, d \in Caller : call[c].pc = "vix" /\ call[d].pc = "vix" => c = d
        /\ \A c \in Caller : call[c].pc = "vix" =>
              \A i \in DOMAIN premiums : premiums[i].version <= call[c].version

\* An attempt is made only until one has delivered.
FirstDelivery == call[Job].pc # "idle" => delivered = 0

IInv == JobsInv /\ Answers /\ Straight /\ NotNewer /\ OneAtATime /\ FirstDelivery

(* An empty process and no calls: every part holds at the start.             *)
LEMMA InitIInv == Init => IInv
<1> SUFFICES ASSUME Init
             PROVE  IInv
  OBVIOUS
<1>1. TypeOK
  <2>1. prices = <<>> /\ premiums = <<>> /\ Len(prices) = 0 /\ Len(premiums) = 0
    BY DEF Init
  <2>2. /\ prices \in Seq([ts : 0 .. MaxTime, price : Price])
        /\ premiums \in Seq([ts : 0 .. MaxTime, version : 1 .. MaxVersion])
    BY <2>1, EmptySeq
  <2>3. Len(prices) <= MaxPrices /\ Len(premiums) <= MaxPremiums
    BY <2>1, JobsAssumption
  <2>4. /\ feed \in [version : 0 .. MaxVersion, spot : Price \union {0}] /\ now \in 0 .. MaxTime
        /\ newest \in 0 .. MaxVersion
        /\ fetch \in [Fetcher -> [pc : {"off", "ask", "have"}, version : 0 .. MaxVersion,
                                   spot : Price \union {0}]]
    BY JobsAssumption DEF Init, NoFetch
  <2>5. call \in [Caller -> [pc : {"idle", "load", "vix", "done"}, version : 0 .. MaxVersion,
                             current : 0 .. MaxVersion \union {None}]]
    BY JobsAssumption DEF Init
  <2>6. warm \in BOOLEAN /\ sent \in BOOLEAN /\ overlapped \in BOOLEAN /\ delivered \in Nat
    BY DEF Init
  <2> QED
    BY <2>2, <2>3, <2>4, <2>5, <2>6 DEF TypeOK
<1>2. premiums = <<>> /\ DOMAIN premiums = {}
  BY DEF Init
<1>3. \A c \in Caller : call[c].pc = "idle" /\ call[c].version = 0
  BY DEF Init
<1>4. OlderPremiumOnlyByOverlap /\ AccelerationIsOwn
  BY <1>2, <1>3 DEF OlderPremiumOnlyByOverlap, AccelerationIsOwn
<1>5. Answers /\ Straight /\ NotNewer /\ OneAtATime
  BY <1>2, <1>3 DEF Init, Answers, Straight, NotNewer, OneAtATime, Fetching, NoFetch
<1>6. FlagIsHeld /\ FirstDelivery
  BY <1>3 DEF Init, FlagIsHeld, FirstDelivery, Caller
<1> QED
  BY <1>1, <1>4, <1>5, <1>6 DEF IInv, JobsInv

(* The versions of premiums and calls are numbers.                          *)
LEMMA VersionsAreNumbers ==
    ASSUME TypeOK
    PROVE  /\ \A i \in DOMAIN premiums : premiums[i].version \in Nat
           /\ \A c \in Caller : call[c].version \in Nat
           /\ feed.version \in Nat /\ newest \in Nat
           /\ \A x \in Fetcher : fetch[x].version \in Nat
<1>1. \A i \in DOMAIN premiums : premiums[i].version \in Nat
  <2> DEFINE Entry == [ts : 0 .. MaxTime, version : 1 .. MaxVersion]
  <2>1. premiums \in Seq(Entry)
    BY DEF TypeOK
  <2>2. \A e \in Entry : e.version \in Nat
    BY JobsAssumption
  <2> HIDE DEF Entry
  <2>3. \A i \in DOMAIN premiums : premiums[i] \in Entry
    BY <2>1, LenProperties, ElementOfSeq
  <2> QED
    BY <2>2, <2>3
<1> QED
  BY <1>1, JobsAssumption DEF TypeOK

\* The range of what the refreshes keep.
FeedTypeOK ==
    /\ feed \in [version : 0 .. MaxVersion, spot : Price \union {0}]
    /\ newest \in 0 .. MaxVersion
    /\ fetch \in [Fetcher -> [pc : {"off", "ask", "have"}, version : 0 .. MaxVersion,
                               spot : Price \union {0}]]

(* A refresh that meets no other writes back no older version.              *)
LEMMA FetchStep ==
    ASSUME IInv, NEW x \in Fetcher, FetchBegins(x) \/ Answered(x) \/ FetchEnds(x),
           ~overlapped' => ~overlapped
    PROVE  /\ FeedTypeOK' /\ Answers' /\ Straight'
           /\ ~overlapped' => feed.version <= feed'.version
<1>0. TypeOK /\ FeedTypeOK
  BY DEF IInv, JobsInv, TypeOK, FeedTypeOK
<1>1. /\ feed.version \in Nat /\ newest \in Nat /\ \A y \in Fetcher : fetch[y].version \in Nat
      /\ feed.version <= newest /\ \A y \in Fetcher : fetch[y].version <= newest
  BY <1>0, VersionsAreNumbers DEF IInv, Answers
<1>2. CASE FetchBegins(x)
  <2>1. /\ UNCHANGED <<feed, newest>>
        /\ fetch' = [fetch EXCEPT ![x] = [pc |-> "ask", version |-> feed.version, spot |-> feed.spot]]
    BY <1>2 DEF FetchBegins
  <2>2. ~overlapped' => \A y \in Fetcher : ~Fetching(y)
    BY <1>2, Zenon DEF FetchBegins
  <2>3. FeedTypeOK'
    BY <1>0, <2>1 DEF FeedTypeOK
  <2>4. Answers'
    BY <1>0, <1>1, <2>1 DEF Answers, FeedTypeOK
  <2>5. Straight'
    BY <1>0, <1>1, <2>1, <2>2 DEF Straight, Fetching, FeedTypeOK
  <2> QED
    BY <1>1, <2>1, <2>3, <2>4, <2>5
<1>3. CASE Answered(x)
  <2> DEFINE p == Spot[newest + 1]
  <2>1. p \in Price /\ fetch' = [fetch EXCEPT ![x] = [pc |-> "have", version |-> newest + 1, spot |-> p]]
    <3>1. newest + 1 \in 1 .. MaxVersion
      BY <1>1, <1>3, JobsAssumption DEF Answered
    <3> QED
      BY <1>3, <3>1, JobsAssumption DEF Answered
  <2> HIDE DEF p
  <2>2. UNCHANGED <<feed, overlapped>> /\ newest' = newest + 1 /\ newest < MaxVersion /\ Fetching(x)
    BY <1>3 DEF Answered, Fetching
  <2>3. FeedTypeOK'
    BY <1>0, <1>1, <2>1, <2>2, JobsAssumption DEF FeedTypeOK
  <2>4. Answers'
    BY <1>0, <1>1, <2>1, <2>2 DEF Answers, FeedTypeOK
  <2>5. Straight'
    BY <1>0, <1>1, <2>1, <2>2 DEF IInv, Straight, Fetching, FeedTypeOK
  <2> QED
    BY <1>1, <2>2, <2>3, <2>4, <2>5
<1>4. CASE FetchEnds(x)
  <2>1. /\ Fetching(x) /\ UNCHANGED newest
        /\ feed' = [version |-> fetch[x].version, spot |-> fetch[x].spot]
        /\ fetch' = [fetch EXCEPT ![x] = NoFetch]
    BY <1>4 DEF FetchEnds
  <2>2. FeedTypeOK'
    BY <1>0, <2>1, JobsAssumption DEF FeedTypeOK, NoFetch
  <2>3. Answers'
    BY <1>0, <1>1, <2>1 DEF Answers, FeedTypeOK, NoFetch
  <2>4. ASSUME ~overlapped'
        PROVE  feed.version <= feed'.version /\ \A y \in Fetcher : ~Fetching(y)'
    <3>1. \A y \in Fetcher : Fetching(y) => y = x
      BY <2>1, <2>4 DEF IInv, Straight
    <3>2. \A y \in Fetcher : ~Fetching(y)'
      BY <1>0, <2>1, <3>1 DEF Fetching, FeedTypeOK, NoFetch
    <3> QED
      BY <2>1, <2>4, <3>2 DEF IInv, Straight
  <2>5. Straight'
    BY <2>4 DEF Straight
  <2> QED
    BY <2>2, <2>3, <2>4, <2>5
<1> QED
  BY <1>2, <1>3, <1>4

(* What stays of the invariant when premiums and calls do.                  *)
LEMMA QuietStep ==
    ASSUME IInv, FeedTypeOK', Answers', Straight',
           ~overlapped' => ~overlapped /\ feed.version <= feed'.version,
           overlapped' \in BOOLEAN, warm' \in BOOLEAN,
           prices' \in Seq([ts : 0 .. MaxTime, price : Price]), Len(prices') <= MaxPrices,
           UNCHANGED <<now, premiums, call, sent, delivered>>
    PROVE  IInv'
<1>1. TypeOK'
  BY DEF IInv, JobsInv, TypeOK, FeedTypeOK
<1>2. OlderPremiumOnlyByOverlap' /\ AccelerationIsOwn' /\ FlagIsHeld'
  BY DEF IInv, JobsInv, OlderPremiumOnlyByOverlap, AccelerationIsOwn, FlagIsHeld
<1>3. OneAtATime' /\ FirstDelivery'
  BY DEF IInv, OneAtATime, FirstDelivery
<1>4. NotNewer'
  <2>1. TypeOK
    BY DEF IInv, JobsInv
  <2>2. feed'.version \in Nat
    BY JobsAssumption DEF FeedTypeOK
  <2> QED
    BY <2>1, <2>2, VersionsAreNumbers DEF IInv, NotNewer
<1> QED
  BY <1>1, <1>2, <1>3, <1>4 DEF IInv, JobsInv

(* Refreshes, polls and seeding touch neither premiums nor calls.           *)
LEMMA PollStep ==
    ASSUME IInv,
           \/ \E x \in Fetcher : Answered(x)
           \/ \E p \in Poller : PollBegins(p) \/ PollEnds(p) \/ ColdStart(p)
           \/ FmpPoll
           \/ \E c \in Caller : RefreshBegins(c)
    PROVE  IInv'
<1>0. /\ TypeOK /\ Poller \subseteq Fetcher /\ Caller \subseteq Fetcher
      /\ overlapped \in BOOLEAN /\ warm \in BOOLEAN
      /\ prices \in Seq([ts : 0 .. MaxTime, price : Price]) /\ Len(prices) <= MaxPrices
      /\ \A x \in Fetcher : fetch[x].spot \in Price \union {0}
  BY JobsAssumption DEF IInv, JobsInv, TypeOK, Fetcher
<1>1. ASSUME NEW x \in Fetcher, Answered(x)
      PROVE  IInv'
  <2>1. UNCHANGED <<now, prices, premiums, call, warm, sent, delivered, overlapped>>
    BY <1>1 DEF Answered, jobVars
  <2> QED
    BY <1>0, <1>1, <2>1, FetchStep, QuietStep
<1>2. ASSUME NEW x \in Fetcher, FetchBegins(x),
             UNCHANGED <<now, prices, premiums, call, warm, sent, delivered>>
      PROVE  IInv'
  <2>1. overlapped' \in BOOLEAN /\ (~overlapped' => ~overlapped)
    BY <1>0, <1>2, Zenon DEF FetchBegins
  <2> QED
    BY <1>0, <1>2, <2>1, FetchStep, QuietStep
<1>3. ASSUME NEW x \in Fetcher, FetchEnds(x), UNCHANGED <<now, premiums, call, sent, delivered, overlapped>>,
             warm' \in BOOLEAN,
             prices' \in Seq([ts : 0 .. MaxTime, price : Price]), Len(prices') <= MaxPrices
      PROVE  IInv'
  BY <1>0, <1>3, FetchStep, QuietStep
<1>4. ASSUME NEW p \in Poller, PollBegins(p)
      PROVE  IInv'
  BY <1>0, <1>2, <1>4 DEF PollBegins, jobVars
<1>5. ASSUME NEW p \in Poller, PollEnds(p)
      PROVE  IInv'
  <2>1. /\ p \in Fetcher /\ FetchEnds(p) /\ warm' \in BOOLEAN
        /\ prices' = WithSpot(prices, fetch[p].spot)
        /\ UNCHANGED <<now, premiums, call, sent, delivered, overlapped>>
    BY <1>0, <1>5 DEF PollEnds, jobVars
  <2> QED
    BY <1>0, <1>3, <2>1, WithSpotType
<1>6. CASE FmpPoll
  <2>1. PICK p \in Price : prices' = Push(prices, now, p)
    BY <1>6 DEF FmpPoll
  <2>2. /\ prices' \in Seq([ts : 0 .. MaxTime, price : Price]) /\ Len(prices') <= MaxPrices
    BY <1>0, <2>1, PushType
  <2>3. UNCHANGED <<now, feed, newest, fetch, premiums, call, warm, sent, delivered, overlapped>>
    BY <1>6 DEF FmpPoll, jobVars, feedVars
  <2>4. FeedTypeOK' /\ Answers' /\ Straight'
    BY <2>3 DEF IInv, JobsInv, TypeOK, FeedTypeOK, Answers, Straight, Fetching
  <2>5. feed.version <= feed'.version
    BY <1>0, <2>3, VersionsAreNumbers
  <2> QED
    BY <1>0, <2>2, <2>3, <2>4, <2>5, QuietStep
<1>7. ASSUME NEW p \in Poller, ColdStart(p)
      PROVE  IInv'
  <2>1. /\ p \in Fetcher /\ FetchEnds(p) /\ warm' = TRUE
        /\ prices' = Seeded(WithSpot(prices, fetch[p].spot))
        /\ UNCHANGED <<now, premiums, call, sent, delivered, overlapped>>
    BY <1>0, <1>7 DEF ColdStart, jobVars
  <2>2. /\ WithSpot(prices, fetch[p].spot) \in Seq([ts : 0 .. MaxTime, price : Price])
        /\ Len(WithSpot(prices, fetch[p].spot)) <= MaxPrices
    BY <1>0, <2>1, WithSpotType
  <2>3. prices' \in Seq([ts : 0 .. MaxTime, price : Price]) /\ Len(prices') <= MaxPrices
    BY <1>0, <2>1, <2>2, SeededType
  <2> QED
    BY <1>0, <1>3, <2>1, <2>3
<1>8. ASSUME NEW c \in Caller, RefreshBegins(c)
      PROVE  IInv'
  BY <1>0, <1>2, <1>8 DEF RefreshBegins, jobVars
<1> QED
  BY <1>1, <1>4, <1>5, <1>6, <1>7, <1>8

(* A call begins.                                                           *)
LEMMA BeginStep ==
    ASSUME IInv, NEW c \in Caller, Begin(c), UNCHANGED <<feedVars, prices, premiums, warm, delivered, overlapped>>,
           now' \in 0 .. MaxTime, c = Job => ~sent /\ sent' = TRUE, c # Job => UNCHANGED sent
    PROVE  IInv'
<1> USE DEF feedVars
<1>1. /\ \A d \in Caller \ {c} : call'[d] = call[d]
      /\ call'[c].pc = "load" /\ call'[c].version = call[c].version
      /\ call' \in [Caller -> [pc : {"idle", "load", "vix", "done"}, version : 0 .. MaxVersion,
                               current : 0 .. MaxVersion \union {None}]]
  BY DEF Begin, IInv, JobsInv, TypeOK
<1>2. TypeOK'
  BY <1>1 DEF IInv, JobsInv, TypeOK
<1>3. OlderPremiumOnlyByOverlap' /\ AccelerationIsOwn'
  BY <1>1 DEF IInv, JobsInv, OlderPremiumOnlyByOverlap, AccelerationIsOwn
<1>4. FlagIsHeld' /\ FirstDelivery'
  <2>1. CASE c = Job
    <3>1. call[Job].pc = "idle" /\ delivered = 0
      BY <2>1, JobsAssumption DEF Begin, IInv, JobsInv, FlagIsHeld, TypeOK
    <3> QED
      BY <1>1, <2>1, <3>1 DEF FlagIsHeld, FirstDelivery
  <2>2. CASE c # Job
    <3>1. call'[Job] = call[Job]
      BY <1>1, <2>2 DEF Caller
    <3> QED
      BY <2>2, <3>1 DEF IInv, JobsInv, FlagIsHeld, FirstDelivery
  <2> QED
    BY <2>1, <2>2
<1>5. Answers' /\ Straight' /\ NotNewer' /\ OneAtATime'
  BY <1>1 DEF IInv, Answers, Straight, Fetching, NotNewer, OneAtATime
<1> QED
  BY <1>2, <1>3, <1>4, <1>5 DEF IInv, JobsInv

(* A call reads its net premium.                                            *)
LEMMA GatherStep ==
    ASSUME IInv, NEW c \in Caller, Gather(c)
    PROVE  IInv'
<1>0. TypeOK /\ c \in Fetcher
  BY DEF IInv, JobsInv, Fetcher
<1>1. PICK v \in 0 .. MaxVersion : Gathered(c, v) /\ v = feed'.version
  BY <1>0 DEF Gather, FetchEnds, feedVars, TypeOK
<1>2. /\ \A d \in Caller \ {c} : call'[d] = call[d]
      /\ call[c].pc = "load"
      /\ call'[c].pc = "vix" /\ call'[c].version = v
      /\ call' \in [Caller -> [pc : {"idle", "load", "vix", "done"}, version : 0 .. MaxVersion,
                               current : 0 .. MaxVersion \union {None}]]
      /\ UNCHANGED <<now, prices, premiums, warm, sent, delivered>>
  BY <1>0, <1>1 DEF Gathered, jobVars, TypeOK
<1>3. /\ overlapped' \in BOOLEAN
      /\ ~overlapped' => ~overlapped /\ \A d \in Caller : call[d].pc # "vix"
  BY <1>0, <1>1, Zenon DEF Gathered, TypeOK
<1>4. /\ FeedTypeOK' /\ Answers' /\ Straight'
      /\ ~overlapped' => feed.version <= feed'.version
  <2>1. CASE FetchEnds(c)
    BY <1>0, <1>3, <2>1, FetchStep
  <2>2. CASE UNCHANGED feedVars
    BY <1>0, <1>3, <2>2, VersionsAreNumbers
      DEF feedVars, IInv, JobsInv, TypeOK, FeedTypeOK, Answers, Straight, Fetching
  <2> QED
    BY <2>1, <2>2 DEF Gather
<1>5. TypeOK'
  BY <1>0, <1>2, <1>3, <1>4 DEF TypeOK, FeedTypeOK
<1>6. OlderPremiumOnlyByOverlap'
  BY <1>2, <1>3 DEF IInv, JobsInv, OlderPremiumOnlyByOverlap
<1>7. AccelerationIsOwn'
  BY <1>2 DEF IInv, JobsInv, AccelerationIsOwn
<1>8. FlagIsHeld' /\ FirstDelivery'
  BY <1>2 DEF IInv, JobsInv, FlagIsHeld, FirstDelivery, Caller
<1>9. NotNewer'
  <2>1. feed'.version \in Nat
    BY <1>4, JobsAssumption DEF FeedTypeOK
  <2>2. ASSUME ~overlapped'
        PROVE  /\ \A i \in DOMAIN premiums : premiums[i].version <= feed'.version
               /\ \A d \in Caller : call'[d].version <= feed'.version
    <3>1. /\ feed.version <= feed'.version
          /\ \A i \in DOMAIN premiums : premiums[i].version <= feed.version
          /\ \A d \in Caller : call[d].version <= feed.version
      BY <1>3, <1>4, <2>2 DEF IInv, NotNewer
    <3>2. \A i \in DOMAIN premiums : premiums[i].version <= feed'.version
      BY <1>0, <2>1, <3>1, VersionsAreNumbers
    <3>3. ASSUME NEW d \in Caller
          PROVE  call'[d].version <= feed'.version
      <4>1. CASE d = c
        BY <1>1, <1>2, <2>1, <4>1
      <4>2. CASE d # c
        BY <1>0, <1>2, <2>1, <3>1, <4>2, VersionsAreNumbers
      <4> QED
        BY <4>1, <4>2
    <3> QED
      BY <3>2, <3>3
  <2> QED
    BY <1>2, <2>2 DEF NotNewer
<1>10. OneAtATime'
  <2>1. ~overlapped' => \A d \in Caller : call'[d].pc = "vix" => d = c
    BY <1>2, <1>3
  <2>2. ~overlapped' => \A i \in DOMAIN premiums' : premiums'[i].version <= call'[c].version
    BY <1>1, <1>2, <1>9 DEF NotNewer
  <2> QED
    BY <2>1, <2>2 DEF OneAtATime
<1> QED
  BY <1>4, <1>5, <1>6, <1>7, <1>8, <1>9, <1>10 DEF IInv, JobsInv

(* A call pushes the net premium it read.                                   *)
LEMMA FinishStep ==
    ASSUME IInv, NEW c \in Caller, Finish(c)
    PROVE  IInv'
<1> DEFINE v == call[c].version
<1>1. v \in 0 .. MaxVersion /\ TypeOK
  BY DEF IInv, JobsInv, TypeOK
<1>2. /\ premiums' = WithPremium(v)
      /\ UNCHANGED <<now, feed, newest, fetch, prices, warm, sent, delivered, overlapped>>
      /\ call[c].pc = "vix"
  BY DEF Finish, feedVars, jobVars
<1>3. /\ premiums' \in Seq([ts : 0 .. MaxTime, version : 1 .. MaxVersion])
      /\ Len(premiums') <= MaxPremiums
      /\ \A i \in DOMAIN premiums' :
            premiums'[i].version = v \/ \E j \in DOMAIN premiums : premiums'[i].version = premiums[j].version
      /\ Ordered(premiums) /\ (\A i \in DOMAIN premiums : premiums[i].version <= v) => Ordered(premiums')
      /\ v > 0 => Current(premiums') \in {None, v}
      /\ Current(premiums') \in 0 .. MaxVersion \union {None}
  BY <1>1, <1>2, WithPremiumKeeps
<1>4. /\ \A d \in Caller \ {c} : call'[d] = call[d]
      /\ call'[c].pc = "done" /\ call'[c].version = v /\ call'[c].current = Current(premiums')
      /\ call' \in [Caller -> [pc : {"idle", "load", "vix", "done"}, version : 0 .. MaxVersion,
                               current : 0 .. MaxVersion \union {None}]]
  <2>1. call' = [call EXCEPT ![c].pc = "done", ![c].current = Current(premiums')]
    BY DEF Finish
  <2>2. call \in [Caller -> [pc : {"idle", "load", "vix", "done"}, version : 0 .. MaxVersion,
                             current : 0 .. MaxVersion \union {None}]]
    BY <1>1 DEF TypeOK
  <2> QED
    BY <1>3, <2>1, <2>2
<1>5. TypeOK'
  BY <1>1, <1>2, <1>3, <1>4 DEF TypeOK
<1>6. OlderPremiumOnlyByOverlap'
  <2>1. SUFFICES ASSUME ~overlapped
                 PROVE  Ordered(premiums')
    BY <1>2 DEF OlderPremiumOnlyByOverlap, Ordered
  <2>2. Ordered(premiums)
    BY <2>1 DEF IInv, JobsInv, OlderPremiumOnlyByOverlap, Ordered
  <2>3. \A i \in DOMAIN premiums : premiums[i].version <= v
    BY <1>2, <2>1 DEF IInv, OneAtATime
  <2> QED
    BY <1>3, <2>2, <2>3
<1>7. AccelerationIsOwn'
  BY <1>3, <1>4 DEF IInv, JobsInv, AccelerationIsOwn
<1>8. FlagIsHeld' /\ FirstDelivery'
  BY <1>2, <1>4 DEF IInv, JobsInv, FlagIsHeld, FirstDelivery, Caller
<1>9. NotNewer' /\ Answers' /\ Straight'
  <2>1. ~overlapped => \A i \in DOMAIN premiums' : premiums'[i].version <= feed.version
    <3>1. ~overlapped =>
             v <= feed.version /\ \A j \in DOMAIN premiums : premiums[j].version <= feed.version
      BY DEF IInv, NotNewer
    <3> QED
      BY <1>3, <3>1
  <2>2. NotNewer'
    BY <1>2, <1>4, <2>1 DEF IInv, NotNewer
  <2> QED
    BY <1>2, <2>2 DEF IInv, Answers, Straight, Fetching
<1>10. OneAtATime'
  BY <1>2, <1>4 DEF IInv, OneAtATime
<1> QED
  BY <1>5, <1>6, <1>7, <1>8, <1>9, <1>10 DEF IInv, JobsInv

(* A call returns, or the attempt of the job ends with its flag set to      *)
(* what it delivered.                                                       *)
LEMMA ReturnStep ==
    ASSUME IInv, (\E c \in Client : Return(c)) \/ EndJob
    PROVE  IInv'
<1>1. PICK c \in Caller :
         /\ call[c].pc = "done"
         /\ call' = [call EXCEPT ![c] = [pc |-> "idle", version |-> 0, current |-> None]]
         /\ UNCHANGED <<now, feed, newest, fetch, prices, premiums, warm, overlapped>>
         /\ c # Job => UNCHANGED <<sent, delivered>>
         /\ c = Job => /\ sent' = MessageHasText
                       /\ delivered' = IF MessageHasText THEN delivered + 1 ELSE delivered
  BY JobsAssumption DEF Return, EndJob, Caller, feedVars, jobVars
<1>2. /\ \A d \in Caller \ {c} : call'[d] = call[d]
      /\ call'[c].pc = "idle" /\ call'[c].version = 0
      /\ call' \in [Caller -> [pc : {"idle", "load", "vix", "done"}, version : 0 .. MaxVersion,
                               current : 0 .. MaxVersion \union {None}]]
  BY <1>1, JobsAssumption DEF IInv, JobsInv, TypeOK
<1>3. TypeOK' /\ FlagIsHeld' /\ FirstDelivery'
  <2>1. CASE c = Job
    <3>1. delivered = 0 /\ MessageHasText \in BOOLEAN
      BY <1>1, <2>1 DEF IInv, FirstDelivery, MessageHasText
    <3>2. sent' = FALSE
      BY <1>1, <2>1 DEF MessageHasText
    <3>3. delivered' = 0
      BY <1>1, <2>1, <3>1 DEF MessageHasText
    <3>4. TypeOK'
      BY <1>1, <1>2, <3>2, <3>3 DEF IInv, JobsInv, TypeOK
    <3>5. FlagIsHeld' /\ FirstDelivery'
      <4>1. call'[Job].pc = "idle" /\ ~(delivered' > 0)
        BY <1>2, <2>1, <3>3
      <4> QED
        BY <3>2, <4>1 DEF FlagIsHeld, FirstDelivery
    <3> QED
      BY <3>4, <3>5
  <2>2. CASE c # Job
    <3>1. call'[Job] = call[Job]
      BY <1>2, <2>2 DEF Caller
    <3> QED
      BY <1>1, <1>2, <2>2, <3>1 DEF IInv, JobsInv, TypeOK, FlagIsHeld, FirstDelivery
  <2> QED
    BY <2>1, <2>2
<1>4. OlderPremiumOnlyByOverlap' /\ AccelerationIsOwn'
  BY <1>1, <1>2 DEF IInv, JobsInv, OlderPremiumOnlyByOverlap, AccelerationIsOwn
<1>5. Answers' /\ Straight' /\ NotNewer' /\ OneAtATime'
  <2>1. 0 <= feed.version
    BY JobsAssumption DEF IInv, JobsInv, TypeOK
  <2> QED
    BY <1>1, <1>2, <2>1 DEF IInv, Answers, Straight, Fetching, NotNewer, OneAtATime
<1> QED
  BY <1>3, <1>4, <1>5 DEF IInv, JobsInv

(* A minute passes, in which the job may begin.                             *)
LEMMA MinuteStep ==
    ASSUME IInv, Minute
    PROVE  IInv'
<1>1. now' \in 0 .. MaxTime /\ UNCHANGED <<feedVars, prices, premiums, warm, delivered, overlapped>>
  BY JobsAssumption DEF Minute, IInv, JobsInv, TypeOK
<1>2. CASE Begin(Job) /\ ~sent /\ sent' = TRUE
  BY <1>1, <1>2, BeginStep DEF Caller
<1>3. CASE UNCHANGED <<call, sent>>
  BY <1>1, <1>3 DEF feedVars, IInv, JobsInv, TypeOK, OlderPremiumOnlyByOverlap, AccelerationIsOwn,
         FlagIsHeld, Answers, Straight, Fetching, NotNewer, OneAtATime, FirstDelivery
<1> QED
  BY <1>2, <1>3 DEF Minute, MaybeSend

(* Each action keeps it, by the lemma of that action.                        *)
LEMMA IInvStep == IInv /\ [Next]_vars => IInv'
<1> SUFFICES ASSUME IInv, [Next]_vars
             PROVE  IInv'
  OBVIOUS
<1>1. CASE \/ \E x \in Fetcher : Answered(x)
           \/ \E p \in Poller : PollBegins(p) \/ PollEnds(p) \/ ColdStart(p)
           \/ FmpPoll
           \/ \E c \in Caller : RefreshBegins(c)
  BY <1>1, PollStep
<1>2. ASSUME NEW c \in Client, BeginClient(c)
      PROVE  IInv'
  <2>1. c \in Caller /\ c # Job /\ now' \in 0 .. MaxTime
    BY <1>2, JobsAssumption DEF BeginClient, Caller, IInv, JobsInv, TypeOK
  <2> QED
    BY <1>2, <2>1, BeginStep DEF BeginClient, jobVars
<1>3. ASSUME NEW c \in Caller, CallStep(c)
      PROVE  IInv'
  BY <1>3, GatherStep, FinishStep, ReturnStep DEF CallStep
<1>4. CASE EndJob
  BY <1>4, ReturnStep
<1>5. CASE Minute
  BY <1>5, MinuteStep
<1>6. CASE UNCHANGED vars
  BY <1>6 DEF vars, feedVars, jobVars, IInv, JobsInv, TypeOK, OlderPremiumOnlyByOverlap,
         AccelerationIsOwn, FlagIsHeld, Answers, Straight, Fetching, NotNewer, OneAtATime, FirstDelivery
<1> QED
  BY <1>1, <1>2, <1>3, <1>4, <1>5, <1>6 DEF Next

(* The inductive invariant holds of every behaviour.                         *)
LEMMA IInvariant == Spec => []IInv
BY InitIInv, IInvStep, PTL DEF Spec

(* For any number of callers and any limits: the queues keep their types    *)
(* and limits, the net premiums go back only after two calls overlapped, a  *)
(* call reports on its own net premium, and the flag of the day is that of  *)
(* an attempt (current-signal, premium-acceleration-queue,                  *)
(* pre-market-snapshot).                                                    *)
THEOREM JobsInvariant == Spec => []JobsInv
<1>1. IInv => JobsInv
  BY DEF IInv
<1> QED
  BY <1>1, IInvariant, PTL

-----------------------------------------------------------------------------
(* Seeding and trends.                                                      *)

\* The order of the natural numbers as a relation.
Less == {ss \in Nat \X Nat : ss[1] < ss[2]}

(* A set of natural numbers that is not empty has a least member.           *)
LEMMA LeastMember ==
    ASSUME NEW T \in SUBSET Nat, T # {}
    PROVE  \E m \in T : \A n \in T : m <= n
<1>1. IsWellFoundedOn(Less, Nat)
  BY NatLessThanWellFounded DEF OpToRel, Less
<1>2. PICK m \in T : \A n \in T : <<n, m>> \notin Less
  BY <1>1, WFMin
<1>3. \A n \in T : ~(n < m)
  BY <1>2 DEF Less
<1> QED
  BY <1>3

\* The entries of q closest to the instant at.
Closest(q, at) ==
    {i \in DOMAIN q : \A j \in DOMAIN q : Distance(q[i].ts, at) <= Distance(q[j].ts, at)}

(* A queue that is not empty has a first closest entry.                     *)
LEMMA FirstClosest ==
    ASSUME NEW q, NEW n \in Nat \ {0}, DOMAIN q = 1 .. n,
           \A i \in DOMAIN q : q[i].ts \in Int, NEW at \in Int
    PROVE  \E i \in Closest(q, at) : \A j \in Closest(q, at) : i <= j
<1> DEFINE far == [i \in DOMAIN q |-> Distance(q[i].ts, at)]
           Far == {far[i] : i \in DOMAIN q}
<1>1. \A i \in DOMAIN q : far[i] \in Nat
  BY DEF Distance
<1>2. 1 \in DOMAIN q
  OBVIOUS
<1>3. Far \in SUBSET Nat /\ Far # {}
  BY <1>1, <1>2
<1>4. PICK m \in Far : \A f \in Far : m <= f
  BY <1>3, LeastMember
<1>5. PICK k \in DOMAIN q : far[k] = m
  OBVIOUS
<1>6. \A j \in DOMAIN q : far[k] <= far[j]
  BY <1>4, <1>5
<1>7. k \in Closest(q, at)
  BY <1>6 DEF Closest
<1>8. Closest(q, at) \in SUBSET Nat
  BY DEF Closest
<1> QED
  BY <1>7, <1>8, LeastMember

(* Entries added with the time of now do not change the price a window      *)
(* finds while the newest before them is less than two windows old: they    *)
(* are no closer to where it looks than that one is.                        *)
LEMMA CopiesKeepPrice ==
    ASSUME NEW n \in Nat \ {0}, NEW m \in Nat, n <= m, NEW t \in Int, NEW w,
           NEW q, DOMAIN q = 1 .. n, NEW r, DOMAIN r = 1 .. m,
           \A i \in 1 .. n : q[i].ts \in Int /\ r[i] = q[i],
           q[n].ts <= t, t - q[n].ts < 2 * w, \A i \in n + 1 .. m : r[i].ts = t, w \in Int
    PROVE  PriceAt(r, t, w) = PriceAt(q, t, w)
<1> DEFINE at == t - w
<1>0. at \in Int
  OBVIOUS
<1>1. PICK k \in Closest(q, at) : \A j \in Closest(q, at) : k <= j
  <2> HIDE DEF at
  <2> QED
    BY <1>0, FirstClosest
<1>2. k \in 1 .. n /\ r[k] = q[k]
  BY <1>1 DEF Closest
<1>3. \A j \in 1 .. n : Distance(q[k].ts, at) <= Distance(q[j].ts, at)
  BY <1>1 DEF Closest
<1>4. \A j \in 1 .. m : Distance(r[k].ts, at) <= Distance(r[j].ts, at)
  <2> SUFFICES ASSUME NEW j \in 1 .. m
               PROVE  Distance(r[k].ts, at) <= Distance(r[j].ts, at)
    OBVIOUS
  <2>1. CASE j \in 1 .. n
    BY <1>2, <1>3, <2>1
  <2>2. CASE j \notin 1 .. n
    <3>1. r[j].ts = t /\ n \in 1 .. n /\ q[n].ts \in Int
      BY <2>2
    <3>2. Distance(q[n].ts, at) <= Distance(t, at)
      BY <3>1 DEF Distance
    <3>3. Distance(q[k].ts, at) <= Distance(q[n].ts, at)
      BY <1>3, <3>1
    <3>4. Distance(q[k].ts, at) \in Int /\ Distance(q[n].ts, at) \in Int /\ Distance(t, at) \in Int
      BY <1>2, <3>1 DEF Distance
    <3> QED
      BY <1>2, <3>1, <3>2, <3>3, <3>4
  <2> QED
    BY <2>1, <2>2
<1>5. k \in Closest(r, at)
  BY <1>2, <1>4 DEF Closest
<1>6. \A j \in Closest(r, at) : k <= j
  <2> SUFFICES ASSUME NEW j \in Closest(r, at), j < k
               PROVE  FALSE
    BY <1>2 DEF Closest
  <2>0. j \in 1 .. m /\ \A i \in 1 .. m : Distance(r[j].ts, at) <= Distance(r[i].ts, at)
    BY DEF Closest
  <2>1. j \in 1 .. n
    BY <1>2, <2>0
  <2>2. \A i \in 1 .. n : i \in 1 .. m /\ r[i] = q[i]
    OBVIOUS
  <2>3. \A i \in 1 .. n : Distance(q[j].ts, at) <= Distance(q[i].ts, at)
    BY <2>0, <2>1, <2>2
  <2>4. j \in Closest(q, at)
    BY <2>1, <2>3 DEF Closest
  <2> QED
    BY <1>1, <1>2, <2>1, <2>4
<1> DEFINE a == CHOOSE i \in Closest(q, at) : \A j \in Closest(q, at) : i <= j
           b == CHOOSE i \in Closest(r, at) : \A j \in Closest(r, at) : i <= j
<1>7. Closest(q, at) \in SUBSET Nat /\ Closest(r, at) \in SUBSET Nat
  BY DEF Closest
<1>8. a = k
  BY <1>1, <1>7
<1>9. b = k
  BY <1>5, <1>6, <1>7
<1>10. PriceAt(q, t, w) = IF Distance(q[a].ts, at) < 2 * w THEN q[a].price ELSE None
  BY <1>1 DEF PriceAt, Closest
<1>11. PriceAt(r, t, w) = IF Distance(r[b].ts, at) < 2 * w THEN r[b].price ELSE None
  BY <1>5 DEF PriceAt, Closest
<1> HIDE DEF a, b
<1> QED
  BY <1>2, <1>8, <1>9, <1>10, <1>11

(* Seeding keeps the trends of a buffer whose newest entry is not old.      *)
LEMMA SeedingKeeps ==
    ASSUME TypeOK, NEW q \in Seq([ts : 0 .. MaxTime, price : Price]), q # <<>>,
           q[Len(q)].ts <= now, NEW w \in Window, now - q[Len(q)].ts < 2 * w
    PROVE  Trend(Seeded(q), now, w) = Trend(q, now, w)
<1> DEFINE Entry == [ts : 0 .. MaxTime, price : Price]
           n == Len(q)
           e == [ts |-> now, price |-> q[n].price]
           copies == [i \in 1 .. SeedTo - n |-> e]
           r == q \o copies
<1> SUFFICES ASSUME ~(n >= SeedTo)
             PROVE  Trend(Recent(r, MaxPrices), now, w) = Trend(q, now, w)
  BY DEF Seeded, Full, WithCopies, Last
<1>1. \A x \in Entry : x.ts \in Int
  BY JobsAssumption
<1>2. now \in Int /\ w \in Nat \ {0} /\ SeedTo \in Nat /\ MaxPrices \in Nat /\ SeedTo <= MaxPrices
  BY JobsAssumption DEF TypeOK
<1>3. q \in Seq(Entry)
  OBVIOUS
<1> HIDE DEF Entry
<1>4. /\ n \in Nat \ {0} /\ DOMAIN q = 1 .. n /\ \A i \in 1 .. n : q[i] \in Entry
  BY <1>3, LenProperties, EmptySeq
<1>5. SeedTo - n \in Nat /\ n + (SeedTo - n) = SeedTo
  BY <1>2, <1>4
<1>6. e \in Entry
  <2>1. q[n] \in Entry
    BY <1>4
  <2> QED
    BY <2>1 DEF Entry, TypeOK
<1> HIDE DEF e
<1>7. copies \in Seq(Entry) /\ Len(copies) = SeedTo - n /\ \A i \in 1 .. SeedTo - n : copies[i] = e
  BY <1>5, <1>6
<1> HIDE DEF copies
<1>8. /\ r \in Seq(Entry) /\ Len(r) = SeedTo
      /\ \A i \in 1 .. SeedTo : r[i] = IF i <= n THEN q[i] ELSE copies[i - n]
  <2>1. /\ r \in Seq(Entry) /\ Len(r) = Len(q) + Len(copies)
        /\ \A i \in 1 .. Len(q) + Len(copies) : r[i] = IF i <= Len(q) THEN q[i] ELSE copies[i - Len(q)]
    BY <1>3, <1>7, ConcatProperties
  <2>2. Len(q) + Len(copies) = SeedTo
    BY <1>5, <1>7
  <2> QED
    BY <2>1, <2>2
<1> HIDE DEF r
<1>9. Recent(r, MaxPrices) = r
  <2>1. ~(Len(r) > MaxPrices)
    BY <1>2, <1>8
  <2>2. Recent(r, MaxPrices) = SubSeq(r, 1, Len(r))
    BY <2>1 DEF Recent
  <2> QED
    BY <1>8, <2>2, SubSeqFull
<1>10. DOMAIN r = 1 .. SeedTo /\ r[SeedTo] = e
  <2>1. SeedTo \in 1 .. SeedTo /\ ~(SeedTo <= n) /\ SeedTo - n \in 1 .. SeedTo - n
    BY <1>2, <1>4
  <2> QED
    BY <1>7, <1>8, <2>1, LenProperties
<1>11. \A i \in n + 1 .. SeedTo : r[i] = e
  <2> SUFFICES ASSUME NEW i \in n + 1 .. SeedTo
               PROVE  r[i] = e
    OBVIOUS
  <2>1. i \in 1 .. SeedTo /\ ~(i <= n) /\ i - n \in 1 .. SeedTo - n
    BY <1>2, <1>4
  <2> QED
    BY <1>7, <1>8, <2>1
<1>12. e.ts = now /\ e.price = q[n].price
  BY DEF e
<1>13. \A i \in 1 .. n : q[i].ts \in Int /\ r[i] = q[i]
  BY <1>1, <1>2, <1>4, <1>8
<1>14. /\ now - w \in Int /\ w \in Int /\ n <= SeedTo
       /\ q[n].ts <= now /\ now - q[n].ts < 2 * w
  BY <1>2, <1>4
<1>15. \A i \in n + 1 .. SeedTo : r[i].ts = now
  BY <1>11, <1>12
<1> HIDE DEF n
<1>16. PriceAt(r, now, w) = PriceAt(q, now, w)
  BY <1>2, <1>4, <1>10, <1>13, <1>14, <1>15, CopiesKeepPrice DEF n
<1>17. Last(r).price = Last(q).price
  BY <1>8, <1>10, <1>12 DEF Last, n
<1> QED
  BY <1>9, <1>16, <1>17 DEF Trend

\* The newest entry of the buffer is not from the future.
Aged == prices # <<>> => prices[Len(prices)].ts <= now

(* A pushed price is the newest entry, and of now.                          *)
LEMMA PushIsNewest ==
    ASSUME TypeOK, NEW p \in Price
    PROVE  Push(prices, now, p)[Len(Push(prices, now, p))].ts = now
<1> DEFINE Entry == [ts : 0 .. MaxTime, price : Price]
           e == [ts |-> now, price |-> p]
           a == Append(prices, e)
<1>1. e \in Entry /\ prices \in Seq(Entry)
  BY DEF TypeOK
<1> HIDE DEF Entry
<1>2. a \in Seq(Entry) /\ a # <<>> /\ a[Len(a)] = e
  BY <1>1, AppendProperties, LenProperties
<1> HIDE DEF a
<1>3. Recent(a, MaxPrices)[Len(Recent(a, MaxPrices))] = e
  BY <1>2, RecentKeeps, JobsAssumption
<1> QED
  BY <1>3 DEF Push, a

(* Nor is that of the buffer with the spot of a snapshot.                   *)
LEMMA WithSpotAged ==
    ASSUME TypeOK, Aged, NEW p \in Price \union {0}, WithSpot(prices, p) # <<>>
    PROVE  WithSpot(prices, p)[Len(WithSpot(prices, p))].ts <= now
<1>1. now \in Int
  BY DEF TypeOK
<1>2. CASE p = 0
  BY <1>2 DEF WithSpot, Aged
<1>3. CASE p # 0
  BY <1>1, <1>3, PushIsNewest DEF WithSpot
<1> QED
  BY <1>2, <1>3

(* Nor that of a seeded one.                                                *)
LEMMA SeededAged ==
    ASSUME TypeOK, NEW q \in Seq([ts : 0 .. MaxTime, price : Price]),
           q # <<>> => q[Len(q)].ts <= now, Seeded(q) # <<>>
    PROVE  Seeded(q)[Len(Seeded(q))].ts <= now
<1>1. CASE Full(q)
  BY <1>1 DEF Seeded
<1>2. CASE ~Full(q)
  <2> DEFINE Entry == [ts : 0 .. MaxTime, price : Price]
             n == Len(q)
             e == [ts |-> now, price |-> Last(q).price]
             copies == [i \in 1 .. SeedTo - n |-> e]
             r == q \o copies
  <2>1. now \in Int /\ SeedTo \in Nat /\ MaxPrices \in Nat \ {0} /\ q \in Seq(Entry)
    BY JobsAssumption DEF TypeOK
  <2>2. q # <<>> /\ n \in Nat /\ SeedTo - n \in Nat \ {0} /\ n \in 1 .. n
    BY <1>2, <2>1, LenProperties, EmptySeq DEF Full
  <2>3. q[n] \in Entry
    <3> HIDE DEF Entry
    <3> QED
      BY <2>1, <2>2, ElementOfSeq
  <2>4. e \in Entry
    BY <2>3 DEF Last, TypeOK
  <2> HIDE DEF Entry, e, n
  <2>5. copies \in Seq(Entry) /\ Len(copies) = SeedTo - n /\ copies[SeedTo - n] = e
    BY <2>2, <2>4
  <2> HIDE DEF copies
  <2>6. /\ r \in Seq(Entry) /\ Len(r) = n + Len(copies)
        /\ \A i \in 1 .. n + Len(copies) : r[i] = IF i <= n THEN q[i] ELSE copies[i - n]
    BY <2>1, <2>5, ConcatProperties DEF n
  <2>7. Len(r) = SeedTo /\ r # <<>> /\ r[SeedTo] = e
    <3>1. n + Len(copies) = SeedTo
      BY <2>1, <2>2, <2>5
    <3>2. SeedTo \in 1 .. SeedTo /\ ~(SeedTo <= n)
      BY <2>1, <2>2
    <3>3. Len(r) = SeedTo /\ r[SeedTo] = e
      BY <2>5, <2>6, <3>1, <3>2
    <3> QED
      BY <2>6, <3>2, <3>3, EmptySeq
  <2> HIDE DEF r
  <2>8. Recent(r, MaxPrices)[Len(Recent(r, MaxPrices))] = e
    BY <2>1, <2>6, <2>7, RecentKeeps
  <2>9. Seeded(q) = Recent(r, MaxPrices)
    BY <1>2 DEF Seeded, WithCopies, r, copies, e, n
  <2> QED
    BY <2>1, <2>8, <2>9 DEF e
<1> QED
  BY <1>1, <1>2

(* No step takes the newest entry past now.                                 *)
LEMMA AgedInvariant == Spec => []Aged
<1>1. Init => Aged
  BY DEF Init, Aged
<1>2. ASSUME IInv, Aged, [Next]_vars
      PROVE  Aged'
  <2>0. /\ TypeOK /\ now \in Int /\ \A x \in Fetcher : fetch[x].spot \in Price \union {0}
        /\ Poller \subseteq Fetcher
    BY <1>2, JobsAssumption DEF IInv, JobsInv, TypeOK, Fetcher
  <2>1. CASE UNCHANGED <<now, prices>>
    BY <1>2, <2>1 DEF Aged
  <2>2. ASSUME NEW p \in Poller, PollEnds(p)
        PROVE  Aged'
    <3>1. prices' = WithSpot(prices, fetch[p].spot) /\ now' = now
      BY <2>2 DEF PollEnds
    <3> QED
      BY <1>2, <2>0, <3>1, WithSpotAged DEF Aged
  <2>3. CASE FmpPoll
    <3>1. PICK p \in Price : prices' = Push(prices, now, p)
      BY <2>3 DEF FmpPoll
    <3>2. now' = now
      BY <2>3 DEF FmpPoll
    <3> QED
      BY <2>0, <3>1, <3>2, PushIsNewest DEF Aged
  <2>4. ASSUME NEW p \in Poller, ColdStart(p)
        PROVE  Aged'
    <3> DEFINE q == WithSpot(prices, fetch[p].spot)
    <3>1. prices' = Seeded(q) /\ now' = now
      BY <2>4 DEF ColdStart
    <3>2. q \in Seq([ts : 0 .. MaxTime, price : Price]) /\ (q # <<>> => q[Len(q)].ts <= now)
      BY <1>2, <2>0, WithSpotType, WithSpotAged
    <3> HIDE DEF q
    <3> QED
      BY <2>0, <3>1, <3>2, SeededAged DEF Aged
  <2>5. CASE Minute
    <3>1. prices # <<>> => prices[Len(prices)].ts \in Int
      <4> DEFINE Entry == [ts : 0 .. MaxTime, price : Price]
      <4>1. prices \in Seq(Entry) /\ \A e \in Entry : e.ts \in Int
        BY <2>0, JobsAssumption DEF TypeOK
      <4> HIDE DEF Entry
      <4> QED
        BY <4>1, LenProperties, EmptySeq, ElementOfSeq
    <3> QED
      BY <1>2, <2>0, <2>5, <3>1 DEF Minute, Aged
  <2> QED
    BY <1>2, <2>1, <2>2, <2>3, <2>4, <2>5
      DEF Next, vars, Answered, PollBegins, BeginClient, RefreshBegins, CallStep, Gather, Gathered,
          Finish, Return, EndJob
<1> QED
  BY <1>1, <1>2, IInvariant, PTL DEF Spec

(* The cold start keeps the trends its poll made                            *)
(* (live-refresh-scheduler.js over price-history-buffer.js).                *)
THEOREM SeedingKeepsEveryTrend == Spec => SeedingKeepsTrends
<1> DEFINE polled == WithSpot(prices, feed'.spot)
           Keeps == ~warm /\ warm' =>
                      \A w \in Window :
                         polled # <<>> /\ now - Last(polled).ts < 2 * w =>
                            Trend(prices', now, w) = Trend(polled, now, w)
<1>1. ASSUME IInv, Aged, [Next]_vars, ~warm, warm', NEW w \in Window,
             polled # <<>>, now - Last(polled).ts < 2 * w
      PROVE  Trend(prices', now, w) = Trend(polled, now, w)
  <2>1. PICK p \in Poller : ColdStart(p)
    BY <1>1 DEF Next, vars, Answered, PollBegins, PollEnds, FmpPoll, BeginClient, RefreshBegins, CallStep,
                Gather, Gathered, Finish, Return, EndJob, Minute
  <2>2. p \in Fetcher /\ feed'.spot = fetch[p].spot /\ prices' = Seeded(polled)
    BY <2>1 DEF ColdStart, FetchEnds, Fetcher
  <2>3. TypeOK /\ feed'.spot \in Price \union {0}
    BY <1>1, <2>2, JobsAssumption DEF IInv, JobsInv, TypeOK, Fetcher
  <2>4. polled \in Seq([ts : 0 .. MaxTime, price : Price])
    BY <2>3, WithSpotType
  <2>5. polled[Len(polled)].ts <= now
    BY <1>1, <2>3, WithSpotAged
  <2> HIDE DEF polled
  <2> QED
    BY <1>1, <2>2, <2>3, <2>4, <2>5, SeedingKeeps DEF Last
<1>2. IInv /\ Aged /\ [Next]_vars => Keeps
  BY <1>1
<1> QED
  BY <1>2, IInvariant, AgedInvariant, PTL DEF Spec, SeedingKeepsTrends

=============================================================================
