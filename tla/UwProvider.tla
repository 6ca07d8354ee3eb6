------------------------------ MODULE UwProvider ------------------------------
(***************************************************************************)
(* The Unusual Whales API provider: fetchUwApiSnapshot                      *)
(* (providers/uw-api-provider.js) called by refreshUwProvider and           *)
(* readUwProvider (state/uwProvider.js) over the in-memory snapshot of      *)
(* storage/uwSnapshotStore.js.  A call reads the snapshot once, awaits one  *)
(* HTTP answer per expired endpoint and writes the snapshot it assembled,   *)
(* while other calls do the same.                                           *)
(*                                                                          *)
(* A snapshot is abstracted to the times its parts were fetched at.         *)
(***************************************************************************)
EXTENDS Integers, FiniteSets

CONSTANTS
    Endpoint,       \* UW_API_ENDPOINTS
    CoreEndpoint,   \* those with core: true
    SpotGex,        \* spot_gex, whose success also stores the request audit
    Ttl,            \* [Endpoint -> ttlSeconds]
    StaleAfter,     \* staleSeconds
    Caller,         \* concurrent calls: scheduler runs, warmups, dashboard reads
    MaxTime         \* bound on the clock

Never == 0          \* no fetched_at, no last_update
Time  == 0 .. MaxTime

ASSUME ProviderAssumption ==
    /\ CoreEndpoint \subseteq Endpoint
    /\ SpotGex \in Endpoint
    /\ Ttl \in [Endpoint -> Nat]
    /\ StaleAfter \in Nat
    /\ MaxTime \in Nat \ {0}

Status == {"none", "unavailable", "error", "partial", "live"}

Snapshot ==
    [at : Time, status : Status, raw : [Endpoint -> Time],
     ok : SUBSET Endpoint, failed : SUBSET Endpoint]

\* memorySnapshot = null
NoSnapshot ==
    [at |-> Never, status |-> "none", raw |-> [e \in Endpoint |-> Never], ok |-> {}, failed |-> {}]

VARIABLES
    now,        \* wall clock
    configured, \* UW_PROVIDER_MODE = api and a key is set; fixed for a process
    memory,     \* memorySnapshot
    call        \* what each fetchUwApiSnapshot has assembled so far

vars == <<now, configured, memory, call>>

-----------------------------------------------------------------------------
\* withFreshness: only a live provider is reported stale.
FreshStatus(s, t) ==
    IF s.status = "live" /\ (s.at = Never \/ t - s.at > StaleAfter) THEN "stale" ELSE s.status

\* A mutant of Cached: the TTL is not consulted.
CachedForever(s, t) == {e \in Endpoint : s.raw[e] # Never}

\* An entry of the previous snapshot that is within its TTL is not asked for again.
Cached(s, t) == {e \in Endpoint : s.raw[e] # Never /\ t - s.raw[e] <= Ttl[e]}

\* A mutant of ProviderStatus: any success makes the provider live.
ProviderStatusAnyLive(ok, failed) ==
    IF ok = {} /\ failed # {} THEN "error"
    ELSE IF ok # {} THEN "live"
    ELSE "unavailable"

\* providerStatus
ProviderStatus(ok, failed) ==
    IF ok = {} /\ failed # {} THEN "error"
    ELSE IF CoreEndpoint \subseteq ok THEN "live"
    ELSE IF ok # {} THEN "partial"
    ELSE "unavailable"

\* The snapshot assembled by a call; it is stamped with the time the call started.
Assembled(c) ==
    [at     |-> IF call[c].ok # {} THEN call[c].start ELSE call[c].base.at,
     status |-> ProviderStatus(call[c].ok, call[c].failed),
     raw    |-> call[c].raw,
     ok     |-> call[c].ok,
     failed |-> call[c].failed]

Idle ==
    [pc |-> "idle", kind |-> "read", start |-> Never, base |-> NoSnapshot,
     raw |-> NoSnapshot.raw, ok |-> {}, failed |-> {}]

-----------------------------------------------------------------------------
Init ==
    /\ now = 1
    /\ configured \in BOOLEAN
    /\ memory = NoSnapshot
    /\ call = [c \in Caller |-> Idle]

Tick ==
    /\ now < MaxTime
    /\ now' = now + 1
    /\ UNCHANGED <<configured, memory, call>>

\* readUwProvider fetches only without a snapshot, with a stale one, or when
\* the audit of spot_gex is missing.
NeedsFetch(s) == s.status = "none" \/ FreshStatus(s, now) = "stale" \/ s.raw[SpotGex] = Never

\* fetchUwApiSnapshot up to its first request.
StartFetch(c, kind) ==
    /\ configured
    /\ call[c].pc = "idle"
    /\ kind = "read" => NeedsFetch(memory)
    /\ call' = [call EXCEPT ![c] =
                  [pc |-> "fetching", kind |-> kind, start |-> now, base |-> memory,
                   raw |-> memory.raw, ok |-> Cached(memory, now), failed |-> {}]]
    /\ UNCHANGED <<now, configured, memory>>

Todo(c) == Endpoint \ (call[c].ok \cup call[c].failed)

EndpointAnswers(c, e) ==
    /\ call[c].pc = "fetching"
    /\ e \in Todo(c)
    /\ call' = [call EXCEPT ![c].raw[e] = call[c].start, ![c].ok = @ \cup {e}]
    /\ UNCHANGED <<now, configured, memory>>

\* A mutant of EndpointFails: the old entry goes.
EndpointFailsDrops(c, e) ==
    /\ call[c].pc = "fetching"
    /\ e \in Todo(c)
    /\ call' = [call EXCEPT ![c].failed = @ \cup {e}, ![c].raw[e] = Never]
    /\ UNCHANGED <<now, configured, memory>>

\* An HTTP error or a network error; the old entry stays.
EndpointFails(c, e) ==
    /\ call[c].pc = "fetching"
    /\ e \in Todo(c)
    /\ call' = [call EXCEPT ![c].failed = @ \cup {e}]
    /\ UNCHANGED <<now, configured, memory>>

\* writeUwApiSnapshot at the end of fetchUwApiSnapshot.
FinishFetch(c) ==
    /\ call[c].pc = "fetching"
    /\ Todo(c) = {}
    /\ memory' = Assembled(c)
    /\ call' = [call EXCEPT ![c] = IF call[c].kind = "refresh" THEN [@ EXCEPT !.pc = "rewriting"] ELSE Idle]
    /\ UNCHANGED <<now, configured>>

\* refreshUwProvider writes the same snapshot once more.
RewriteRefreshed(c) ==
    /\ call[c].pc = "rewriting"
    /\ memory' = Assembled(c)
    /\ call' = [call EXCEPT ![c] = Idle]
    /\ UNCHANGED <<now, configured>>

\* refreshUwProvider without a configured provider: the previous snapshot is
\* written back with an unavailable provider.
RefreshUnconfigured ==
    /\ ~configured
    /\ memory' = [memory EXCEPT !.status = "unavailable", !.ok = {}, !.failed = {}]
    /\ UNCHANGED <<now, configured, call>>

Next ==
    \/ Tick
    \/ RefreshUnconfigured
    \/ \E c \in Caller :
          \/ \E kind \in {"read", "refresh"} : StartFetch(c, kind)
          \/ \E e \in Endpoint : EndpointAnswers(c, e)
          \/ \E e \in Endpoint : EndpointFails(c, e)
          \/ FinishFetch(c)
          \/ RewriteRefreshed(c)

Spec == Init /\ [][Next]_vars

-----------------------------------------------------------------------------
(* Properties.                                                              *)

\* What the provider knows of one outstanding call.
Call ==
    [pc : {"idle", "fetching", "rewriting"}, kind : {"read", "refresh"}, start : Time,
     base : Snapshot, raw : [Endpoint -> Time], ok : SUBSET Endpoint, failed : SUBSET Endpoint]

\* Every part of the state keeps its range.
TypeOK ==
    /\ now \in Time
    /\ configured \in BOOLEAN
    /\ memory \in Snapshot
    /\ call \in [Caller -> Call]

\* A snapshot, stored or read by a call, is stamped no earlier than its
\* entries, no later than t, and a live one has all its core endpoints.
Sound(s, t) ==
    /\ s.at <= t
    /\ \A e \in Endpoint : s.raw[e] <= s.at
    /\ \A e \in s.ok : s.raw[e] # Never /\ s.at - s.raw[e] <= Ttl[e]
    /\ s.status = "live" => CoreEndpoint \subseteq s.ok

\* What a call has assembled is at most as old as the snapshot it started
\* from, and its ok entries are within their TTL of its start.
SoundCall(c) ==
    /\ call[c].start # Never /\ call[c].start <= now
    /\ Sound(call[c].base, call[c].start)
    /\ \A e \in Endpoint : call[c].raw[e] >= call[c].base.raw[e]
    /\ \A e \in Endpoint \ call[c].ok : call[c].raw[e] = call[c].base.raw[e]
    /\ \A e \in call[c].ok :
          /\ call[c].raw[e] # Never
          /\ call[c].raw[e] <= call[c].start
          /\ call[c].start - call[c].raw[e] <= Ttl[e]

\* The inductive invariant: however calls overlap and overwrite each other, the
\* stored snapshot and every one being assembled are sound.
ProviderInv ==
    /\ TypeOK
    /\ now # Never
    /\ Sound(memory, now)
    /\ \A c \in Caller : call[c].pc # "idle" => SoundCall(c)

\* Renewing last_update on cache hits never hides more than a TTL: while the
\* provider is reported live, no core entry is older than staleSeconds plus
\* its TTL.
LiveDataIsRecent ==
    FreshStatus(memory, now) = "live" =>
        \A e \in CoreEndpoint : now - memory.raw[e] <= StaleAfter + Ttl[e]

\* A call that nobody overtook, its snapshot still being the stored one, takes
\* no entry and no stamp back, however many of its requests fail.
UndisturbedCallAdvances ==
    [][\A c \in Caller :
          call[c].pc = "fetching" /\ call'[c].pc # "fetching" /\ memory = call[c].base =>
             /\ memory'.at >= memory.at
             /\ \A e \in Endpoint : memory'.raw[e] >= memory.raw[e]]_vars
=============================================================================
