-------------------------- MODULE UwProvider_proofs --------------------------
(***************************************************************************)
(* What holds of the UW provider for any endpoints, TTLs and number of      *)
(* overlapping calls.                                                       *)
(***************************************************************************)
EXTENDS UwProvider, TLAPS

USE DEF Never

(* The idle record and the null snapshot are of their types.                *)
LEMMA IdleType == NoSnapshot \in Snapshot /\ Idle \in Call
BY ProviderAssumption DEF NoSnapshot, Snapshot, Status, Time, Idle, Call

(* providerStatus answers a status.                                         *)
LEMMA StatusType ==
    ASSUME NEW ok, NEW failed
    PROVE  /\ ProviderStatus(ok, failed) \in Status
           /\ ProviderStatus(ok, failed) = "live" => CoreEndpoint \subseteq ok
BY DEF ProviderStatus, Status

(* What a sound call writes is a sound snapshot.                            *)
LEMMA AssembledSound ==
    ASSUME ProviderInv, NEW c \in Caller, call[c].pc # "idle"
    PROVE  Assembled(c) \in Snapshot /\ Sound(Assembled(c), now)
<1>1. call[c] \in Call /\ now \in Time
  BY DEF ProviderInv, TypeOK
<1>2. Assembled(c) \in Snapshot
  BY <1>1, StatusType DEF Assembled, Snapshot, Call
<1>3. SoundCall(c)
  BY DEF ProviderInv
<1>4. CASE call[c].ok = {}
  <2>1. /\ Assembled(c).at = call[c].base.at
        /\ Assembled(c).raw = call[c].raw
        /\ Assembled(c).ok = {}
        /\ Assembled(c).status = "live" => CoreEndpoint \subseteq {}
    BY <1>4, StatusType DEF Assembled
  <2> QED
    BY <1>1, <1>2, <1>3, <1>4, <2>1 DEF SoundCall, Sound, Call, Snapshot, Time
<1>5. CASE call[c].ok # {}
  <2>1. /\ Assembled(c).at = call[c].start
        /\ Assembled(c).raw = call[c].raw
        /\ Assembled(c).ok = call[c].ok
        /\ Assembled(c).status = "live" => CoreEndpoint \subseteq call[c].ok
    BY <1>5, StatusType DEF Assembled
  <2>2. \A e \in Endpoint : call[c].raw[e] <= call[c].start
    BY <1>1, <1>3, ProviderAssumption DEF SoundCall, Sound, Call, Snapshot, Time
  <2> QED
    BY <1>1, <1>2, <1>3, <2>1, <2>2 DEF SoundCall, Sound, Call
<1> QED
  BY <1>2, <1>4, <1>5

(* The invariant is inductive: a write stores what a sound call assembled,  *)
(* and a call starts from the sound snapshot in memory.                     *)
LEMMA ProviderInvStep == ProviderInv /\ [Next]_vars => ProviderInv'
<1> SUFFICES ASSUME ProviderInv, [Next]_vars
             PROVE  ProviderInv'
  OBVIOUS
<1> USE DEF ProviderInv
<1>1. CASE Tick
  <2>1. now' = now + 1 /\ now \in Nat /\ now' \in Time /\ now' # Never
    BY <1>1, ProviderAssumption DEF Tick, TypeOK, Time
  <2>2. Sound(memory, now)'
    BY <1>1, <2>1, ProviderAssumption DEF Tick, Sound, TypeOK, Snapshot, Time
  <2>3. \A c \in Caller : call[c].pc # "idle" => SoundCall(c)'
    BY <1>1, <2>1, ProviderAssumption DEF Tick, SoundCall, TypeOK, Call, Time
  <2> QED
    BY <1>1, <2>1, <2>2, <2>3 DEF Tick, TypeOK
<1>2. CASE RefreshUnconfigured
  <2>1. memory' \in Snapshot
    BY <1>2 DEF RefreshUnconfigured, TypeOK, Snapshot, Status
  <2>2. Sound(memory, now)'
    BY <1>2 DEF RefreshUnconfigured, Sound, TypeOK, Snapshot
  <2> QED
    BY <1>2, <2>1, <2>2 DEF RefreshUnconfigured, TypeOK, SoundCall
<1>3. ASSUME NEW c \in Caller, NEW kind \in {"read", "refresh"}, StartFetch(c, kind)
      PROVE  ProviderInv'
  <2> DEFINE r == [pc |-> "fetching", kind |-> kind, start |-> now, base |-> memory,
                   raw |-> memory.raw, ok |-> Cached(memory, now), failed |-> {}]
  <2>1. call' = [call EXCEPT ![c] = r] /\ UNCHANGED <<now, configured, memory>>
    BY <1>3 DEF StartFetch
  <2>2. r \in Call
    BY DEF Call, TypeOK, Snapshot, Cached
  <2>3. TypeOK'
    BY <2>1, <2>2 DEF TypeOK
  <2>4. \A e \in Cached(memory, now) :
          e \in Endpoint /\ memory.raw[e] # Never /\ now - memory.raw[e] <= Ttl[e]
    BY DEF Cached
  <2>5. \A e \in Endpoint : memory.raw[e] <= now
    BY ProviderAssumption DEF Sound, TypeOK, Snapshot, Time
  <2>6. call'[c] = r
    BY <2>1 DEF TypeOK
  <2>7. SoundCall(c)'
    BY <2>1, <2>4, <2>5, <2>6, ProviderAssumption DEF SoundCall, Sound, TypeOK, Snapshot, Time
  <2>8. \A d \in Caller \ {c} : call'[d] = call[d]
    BY <2>1 DEF TypeOK
  <2> QED
    BY <2>1, <2>3, <2>7, <2>8 DEF SoundCall
<1>4. ASSUME NEW c \in Caller, NEW e \in Endpoint, EndpointAnswers(c, e)
      PROVE  ProviderInv'
  <2>1. /\ call' = [call EXCEPT ![c].raw[e] = call[c].start, ![c].ok = @ \cup {e}]
        /\ UNCHANGED <<now, configured, memory>>
        /\ call[c].pc = "fetching"
    BY <1>4 DEF EndpointAnswers
  <2>2. call[c] \in Call
    BY DEF TypeOK
  <2>3. /\ call'[c].pc = "fetching" /\ call'[c].start = call[c].start
        /\ call'[c].base = call[c].base
        /\ call'[c].raw = [call[c].raw EXCEPT ![e] = call[c].start]
        /\ call'[c].ok = call[c].ok \cup {e}
        /\ call'[c] \in Call
    BY <2>1, <2>2 DEF TypeOK, Call
  <2>4. TypeOK'
    BY <2>1, <2>3 DEF TypeOK
  <2>5. SoundCall(c) /\ call[c].raw \in [Endpoint -> Time] /\ call[c].start \in Time
    BY <2>1, <2>2 DEF Call
  <2>6. \A f \in Endpoint : call'[c].raw[f] = IF f = e THEN call[c].start ELSE call[c].raw[f]
    BY <2>3, <2>5
  <2>7. Ttl[e] \in Nat /\ call[c].start \in Nat
    BY <2>5, ProviderAssumption DEF Time
  <2>8. SoundCall(c)'
    <3>1. \A f \in Endpoint \ call'[c].ok : call'[c].raw[f] = call'[c].base.raw[f]
      BY <2>3, <2>5, <2>6 DEF SoundCall
    <3>2. \A f \in call'[c].ok :
            /\ call'[c].raw[f] # Never
            /\ call'[c].raw[f] <= call'[c].start
            /\ call'[c].start - call'[c].raw[f] <= Ttl[f]
      BY <2>2, <2>3, <2>5, <2>6, <2>7 DEF SoundCall, Call
    <3>3. call[c].base.raw[e] <= call[c].start
      BY <2>2, <2>5, ProviderAssumption DEF SoundCall, Sound, Call, Snapshot, Time
    <3>4. \A f \in Endpoint : call'[c].raw[f] >= call'[c].base.raw[f]
      BY <2>2, <2>3, <2>5, <2>6, <3>3 DEF SoundCall, Call, Snapshot, Time
    <3> QED
      BY <2>1, <2>3, <2>5, <3>1, <3>2, <3>4 DEF SoundCall
  <2>9. \A d \in Caller \ {c} : call'[d] = call[d]
    BY <2>1 DEF TypeOK
  <2>10. now' = now /\ memory' = memory
    BY <2>1
  <2>11. \A d \in Caller \ {c} : call'[d].pc # "idle" => SoundCall(d)'
    BY <2>9, <2>10 DEF SoundCall
  <2> QED
    BY <2>4, <2>8, <2>10, <2>11
<1>5. ASSUME NEW c \in Caller, NEW e \in Endpoint, EndpointFails(c, e)
      PROVE  ProviderInv'
  <2>1. /\ call' = [call EXCEPT ![c].failed = @ \cup {e}]
        /\ UNCHANGED <<now, configured, memory>>
        /\ call[c].pc = "fetching"
    BY <1>5 DEF EndpointFails
  <2>2. call'[c] = [call[c] EXCEPT !.failed = @ \cup {e}] /\ call'[c] \in Call
    BY <2>1 DEF TypeOK, Call
  <2>3. TypeOK'
    BY <2>1, <2>2 DEF TypeOK
  <2>4. \A d \in Caller :
          /\ call'[d].pc = call[d].pc /\ call'[d].start = call[d].start
          /\ call'[d].base = call[d].base /\ call'[d].raw = call[d].raw
          /\ call'[d].ok = call[d].ok
    BY <2>1 DEF TypeOK, Call
  <2> QED
    BY <2>1, <2>3, <2>4 DEF SoundCall
<1>6. ASSUME NEW c \in Caller, FinishFetch(c) \/ RewriteRefreshed(c)
      PROVE  ProviderInv'
  <2>1. /\ memory' = Assembled(c) /\ call[c].pc # "idle"
        /\ UNCHANGED <<now, configured>>
    BY <1>6 DEF FinishFetch, RewriteRefreshed
  <2>2. memory' \in Snapshot /\ Sound(memory, now)'
    BY <2>1, AssembledSound
  <2>3. \E r \in {Idle, [call[c] EXCEPT !.pc = "rewriting"]} : call' = [call EXCEPT ![c] = r]
    BY <1>6 DEF FinishFetch, RewriteRefreshed
  <2>4. call[c] \in Call
    BY DEF TypeOK
  <2>5. \A r \in {Idle, [call[c] EXCEPT !.pc = "rewriting"]} : r \in Call
    BY <2>4, IdleType DEF Call
  <2>6. TypeOK'
    BY <2>1, <2>2, <2>3, <2>5 DEF TypeOK
  <2>7. \A d \in Caller :
          call'[d].pc # "idle" =>
             /\ call[d].pc # "idle"
             /\ call'[d].start = call[d].start /\ call'[d].base = call[d].base
             /\ call'[d].raw = call[d].raw /\ call'[d].ok = call[d].ok
    BY <2>1, <2>3, <2>4 DEF TypeOK, Call, Idle
  <2> QED
    BY <2>1, <2>2, <2>6, <2>7 DEF SoundCall
<1>7. CASE UNCHANGED vars
  BY <1>7 DEF vars, TypeOK, SoundCall
<1> QED
  BY <1>1, <1>2, <1>3, <1>4, <1>5, <1>6, <1>7 DEF Next

(* The provider's invariant holds in every behaviour.                       *)
THEOREM ProviderInvariant == Spec => []ProviderInv
<1>1. Init => ProviderInv
  <2> SUFFICES ASSUME Init PROVE ProviderInv
    OBVIOUS
  <2>1. TypeOK
    BY IdleType, ProviderAssumption DEF Init, TypeOK, Time
  <2>2. Sound(memory, now)
    BY ProviderAssumption DEF Init, Sound, NoSnapshot
  <2>4. now # Never
    BY DEF Init
  <2>3. \A c \in Caller : call[c].pc = "idle"
    BY DEF Init, Idle
  <2> QED
    BY <2>1, <2>2, <2>3, <2>4 DEF ProviderInv
<1> QED
  BY <1>1, ProviderInvStep, PTL DEF Spec

(* While the provider is reported live, the age of its core data is bounded *)
(* by staleSeconds plus the TTL, not by staleSeconds alone.                 *)
THEOREM LiveIsRecent == Spec => []LiveDataIsRecent
<1>1. ProviderInv => LiveDataIsRecent
  <2> SUFFICES ASSUME ProviderInv, FreshStatus(memory, now) = "live",
                      NEW e \in CoreEndpoint
               PROVE  now - memory.raw[e] <= StaleAfter + Ttl[e]
    BY DEF LiveDataIsRecent
  <2>1. memory.status = "live" /\ ~(memory.at = Never \/ now - memory.at > StaleAfter)
    BY DEF FreshStatus
  <2>2. e \in memory.ok /\ e \in Endpoint
    BY <2>1, ProviderAssumption DEF ProviderInv, Sound
  <2>3. memory.at - memory.raw[e] <= Ttl[e]
    BY <2>2 DEF ProviderInv, Sound
  <2>4. now \in Int /\ memory.at \in Int /\ memory.raw[e] \in Int /\ Ttl[e] \in Int /\ StaleAfter \in Int
    BY <2>2, ProviderAssumption DEF ProviderInv, TypeOK, Snapshot, Time
  <2> QED
    BY <2>1, <2>3, <2>4
<1> QED
  BY <1>1, ProviderInvariant, PTL

(* A call whose snapshot is still the stored one takes nothing back         *)
(* (fetchUwApiSnapshot: failures keep the old entry, no answer, no stamp).  *)
THEOREM UndisturbedAdvances == Spec => UndisturbedCallAdvances
<1>1. ASSUME ProviderInv, [Next]_vars, NEW c \in Caller,
             call[c].pc = "fetching", call'[c].pc # "fetching", memory = call[c].base
      PROVE  /\ memory'.at >= memory.at
             /\ \A e \in Endpoint : memory'.raw[e] >= memory.raw[e]
  <2>1. call[c] \in Call /\ SoundCall(c)
    BY <1>1 DEF ProviderInv, TypeOK
  <2>2. FinishFetch(c)
    <3> SUFFICES ASSUME ~FinishFetch(c)
                 PROVE  FALSE
      OBVIOUS
    <3>1. call \in [Caller -> Call]
      BY <1>1 DEF ProviderInv, TypeOK
    <3>2. CASE call' = call
      BY <1>1, <3>2
    <3>3. ASSUME NEW d \in Caller, NEW kind, StartFetch(d, kind)
          PROVE  call'[c].pc = "fetching"
      BY <1>1, <3>1, <3>3 DEF StartFetch
    <3>4. ASSUME NEW d \in Caller, NEW e \in Endpoint, EndpointAnswers(d, e) \/ EndpointFails(d, e)
          PROVE  call'[c].pc = "fetching"
      <4>1. call[d].pc = "fetching" /\ call[d] \in Call
        BY <3>1, <3>4 DEF EndpointAnswers, EndpointFails
      <4>2. call'[d].pc = "fetching" /\ (d # c => call'[c] = call[c])
        BY <3>1, <3>4, <4>1 DEF EndpointAnswers, EndpointFails, Call
      <4> QED
        BY <1>1, <4>2
    <3>5. ASSUME NEW d \in Caller, FinishFetch(d) \/ RewriteRefreshed(d)
          PROVE  FALSE
      <4>1. d # c
        BY <1>1, <3>5 DEF RewriteRefreshed
      <4>2. call'[c] = call[c]
        BY <3>1, <3>5, <4>1 DEF FinishFetch, RewriteRefreshed
      <4> QED
        BY <1>1, <4>2
    <3>6. CASE Next
      BY <1>1, <3>2, <3>3, <3>4, <3>5, <3>6 DEF Next, Tick, RefreshUnconfigured
    <3> QED
      BY <1>1, <3>2, <3>6 DEF vars
  <2>3. /\ memory'.at = IF call[c].ok # {} THEN call[c].start ELSE call[c].base.at
        /\ memory'.raw = call[c].raw
    BY <2>2 DEF FinishFetch, Assembled
  <2>4. call[c].base.at <= call[c].start /\ call[c].base.at \in Nat
    BY <2>1, ProviderAssumption DEF SoundCall, Sound, Call, Snapshot, Time
  <2>5. memory'.at >= memory.at
    BY <1>1, <2>1, <2>3, <2>4 DEF Call, Time
  <2> QED
    BY <1>1, <2>1, <2>3, <2>5 DEF SoundCall
<1>2. ProviderInv /\ [Next]_vars =>
         \A c \in Caller :
            call[c].pc = "fetching" /\ call'[c].pc # "fetching" /\ memory = call[c].base =>
               /\ memory'.at >= memory.at
               /\ \A e \in Endpoint : memory'.raw[e] >= memory.raw[e]
  BY <1>1
<1> QED
  BY <1>2, ProviderInvariant, PTL DEF Spec, UndisturbedCallAdvances
=============================================================================
