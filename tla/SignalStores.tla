---------------------------- MODULE SignalStores ----------------------------
(***************************************************************************)
(* The TradingView and Theta snapshot stores of the server                  *)
(* (state/tvSnapshotStore.js, state/thetaSnapshotStore.js), the routes that *)
(* write them and the senders: TradingView's webhook calls, and the Theta   *)
(* bridge (scripts/spx-bridge.mjs) with its retries and its interval.       *)
(*                                                                          *)
(* Snapshots are numbered in the order their senders build them.  A call of *)
(* the store takes the store object once, at its start, and keeps it: the   *)
(* object is shared by all calls, is created by the first of them, and may  *)
(* be replaced while a call holds it.  Only a Redis store is created over   *)
(* several steps; the others are there before another call can begin.       *)
(***************************************************************************)
EXTENDS Naturals, FiniteSets

CONSTANTS
    NoStore, RedisStore, FileStore, \* storeSingleton; memory stores are numbered
    Setups,         \* [which, mode]: the stores and STATE_STORE modes checked
    Reader,         \* calls that read
    MaxSnapshot,    \* bound on snapshots built
    Attempts,       \* delaysMs.length of the bridge
    MaxFaults       \* bound on restarts, expiries, refusals and failed writes

ASSUME StoresAssumption ==
    /\ Setups \subseteq [which : {"tv", "theta"}, mode : {"redis", "file", "memory"}]
    /\ MaxSnapshot \in Nat \ {0}
    /\ Attempts \in Nat \ {0}
    /\ MaxFaults \in Nat

ASSUME StoreNamesAssumption ==
    /\ NoStore # RedisStore /\ NoStore # FileStore /\ RedisStore # FileStore
    /\ {NoStore, RedisStore, FileStore} \intersect (1 .. MaxFaults + 1) = {}
ASSUME ReaderAssumption == Reader \intersect ((1 .. MaxSnapshot) \X (1 .. Attempts)) = {}

Missing == 0                            \* no snapshot
Snapshot == 1 .. MaxSnapshot
Unreadable == MaxSnapshot + 1           \* JSON.parse throws
Request == Snapshot \X (1 .. Attempts)  \* an attempt to post a snapshot
Call == Reader \union Request

VARIABLES
    setup,          \* which store this is and how it is configured
    store,          \* storeSingleton: none, Redis, the file or a memory store
    redis, disk,    \* what Redis and the file hold; they outlive the server
    memory,         \* what each memory store of this process holds
    call,           \* [pc, at, got] of each call: at is the store it took
    push,           \* [pc, attempt] of each snapshot's sender
    bridge,         \* runThetaOnly: "first" push, "ticking" or "ended"
    contended,      \* two writes, or two senders, were active at a time
    acked,          \* the snapshot whose write finished last
    faults

vars == <<setup, store, redis, disk, memory, call, push, bridge, contended, acked, faults>>
senderVars == <<push, bridge>>
contents == <<redis, disk, memory>>

Theta == setup.which = "theta"
MemoryStore == 1 .. MaxFaults + 1
Active(c) == call[c].pc \notin {"idle", "answered", "failed"}
ActiveWrites == {c \in Request : Active(c)}
ActivePushes == {v \in Snapshot : push[v].pc \in {"posting", "waiting"}}

\* What a store object reads.
Content(s) ==
    IF s = RedisStore THEN redis ELSE IF s = FileStore THEN disk ELSE memory[s]

\* What a read that begins now and is not refused a connection would find.
View ==
    IF store # NoStore THEN Content(store)
    ELSE IF setup.mode = "redis" THEN redis
    ELSE IF setup.mode = "file" THEN disk
    ELSE Missing

-----------------------------------------------------------------------------
(* getStore and initializeStore.                                            *)

Took(c, s) == call' = [call EXCEPT ![c].pc = "ready", ![c].at = s]

\* Whether a write that begins now contends with another one.
Contends(c) == c \in Request /\ ActiveWrites # {}

\* A memory store that is still empty.
Spare == CHOOSE m \in MemoryStore :
    \A n \in MemoryStore : memory[n] = Missing => memory[m] = Missing /\ m <= n

\* A mutant of GetStore: a memory store is made for every call.
GetStoreAfresh(c) ==
    /\ store' = IF setup.mode = "redis" THEN RedisStore ELSE IF setup.mode = "file" THEN FileStore ELSE Spare
    /\ Took(c, store')
    /\ contended' = (contended \/ Contends(c))
    /\ UNCHANGED <<setup, contents, senderVars, acked, faults>>

\* A call asks for the store: it is there, it is made at once, or Redis is
\* to be connected first.
GetStore(c) ==
    /\ \/ /\ store # NoStore
          /\ Took(c, store)
          /\ UNCHANGED store
       \/ /\ store = NoStore /\ setup.mode # "redis"
          /\ store' = IF setup.mode = "file" THEN FileStore ELSE 1
          /\ Took(c, store')
       \/ /\ store = NoStore /\ setup.mode = "redis"
          /\ call' = [call EXCEPT ![c].pc = "connect"]
          /\ UNCHANGED store
    /\ contended' = (contended \/ Contends(c))
    /\ UNCHANGED <<setup, contents, senderVars, acked, faults>>

\* A mutant of Connected: only the first connection is taken over.
ConnectedFirst(c) ==
    /\ call[c].pc = "connect"
    /\ store = NoStore
    /\ store' = RedisStore
    /\ Took(c, RedisStore)
    /\ UNCHANGED <<setup, contents, senderVars, contended, acked, faults>>

\* connect() resolves: this call's Redis store replaces whatever is there.
Connected(c) ==
    /\ call[c].pc = "connect"
    /\ store' = RedisStore
    /\ Took(c, RedisStore)
    /\ UNCHANGED <<setup, contents, senderVars, contended, acked, faults>>

\* connect() rejects: the file store replaces whatever is there.
Refused(c) ==
    /\ call[c].pc = "connect"
    /\ faults < MaxFaults
    /\ faults' = faults + 1
    /\ store' = FileStore
    /\ Took(c, FileStore)
    /\ UNCHANGED <<setup, contents, senderVars, contended, acked>>

-----------------------------------------------------------------------------
(* Reads and writes.                                                        *)

BeginRead(r) ==
    /\ call[r].pc = "idle"
    /\ GetStore(r)

\* store.read(): what the store the call took holds now; a file cut off in
\* the middle of a write makes the read fail.
Take(r) ==
    /\ call[r].pc = "ready"
    /\ call' = [call EXCEPT ![r].pc = "answered", ![r].got = Content(call[r].at)]
    /\ UNCHANGED <<setup, store, contents, senderVars, contended, acked, faults>>

EndRead(r) ==
    /\ call[r].pc = "answered"
    /\ call' = [call EXCEPT ![r] = [pc |-> "idle", at |-> NoStore, got |-> Missing]]
    /\ UNCHANGED <<setup, store, contents, senderVars, contended, acked, faults>>

\* The request of a post reaches the route.
Arrive(c) ==
    /\ push[c[1]] = [pc |-> "posting", attempt |-> c[2]]
    /\ call[c].pc = "idle"
    /\ GetStore(c)

Finish(c) ==
    /\ call' = [call EXCEPT ![c].pc = "answered"]
    /\ acked' = c[1]

\* A mutant of Put: only a Redis store is written.
PutRedisOnly(c) ==
    /\ call[c].pc = "ready"
    /\ redis' = IF call[c].at = RedisStore THEN c[1] ELSE redis
    /\ Finish(c)
    /\ UNCHANGED <<setup, store, disk, memory, senderVars, contended, faults>>

\* store.write() of Redis and of memory; fs.writeFile first empties the file.
Put(c) ==
    /\ call[c].pc = "ready"
    /\ \/ /\ call[c].at = RedisStore
          /\ redis' = c[1]
          /\ Finish(c)
          /\ UNCHANGED <<disk, memory>>
       \/ /\ call[c].at = FileStore
          /\ disk' = Unreadable
          /\ call' = [call EXCEPT ![c].pc = "fill"]
          /\ UNCHANGED <<redis, memory, acked>>
       \/ /\ call[c].at \in MemoryStore
          /\ memory' = [memory EXCEPT ![call[c].at] = c[1]]
          /\ Finish(c)
          /\ UNCHANGED <<redis, disk>>
    /\ UNCHANGED <<setup, store, senderVars, contended, faults>>

\* The text is in the file.  Over the text of another write that emptied the
\* file too, a shorter one leaves the end of the longer.
Fill(c) ==
    /\ call[c].pc = "fill"
    /\ \/ disk' = c[1]
       \/ disk \in Snapshot /\ disk' = Unreadable
    /\ Finish(c)
    /\ UNCHANGED <<setup, store, redis, memory, senderVars, contended, faults>>

\* store.write() rejects.  The TradingView store goes on in a new memory
\* store for the rest of the process; the Theta store reports the error.
WriteFails(c) ==
    /\ call[c].pc \in {"ready", "fill"}
    /\ call[c].at \notin MemoryStore
    /\ faults < MaxFaults
    /\ faults' = faults + 1
    /\ \/ /\ Theta
          /\ call' = [call EXCEPT ![c].pc = "failed"]
          /\ UNCHANGED <<store, memory, acked>>
       \/ /\ ~Theta
          /\ store' = Spare
          /\ memory' = [memory EXCEPT ![Spare] = c[1]]
          /\ Finish(c)
    /\ UNCHANGED <<setup, redis, disk, senderVars, contended>>

-----------------------------------------------------------------------------
(* The senders.                                                             *)

Built == {v \in Snapshot : push[v].pc # "new"}

\* A webhook call of TradingView, the bridge's first push or a tick of its
\* interval, which does not wait for the push before it.
BeginPush(v) ==
    /\ push[v].pc = "new"
    /\ Built = 1 .. v - 1
    /\ Theta /\ v > 1 => bridge = "ticking"
    /\ push' = [push EXCEPT ![v] = [pc |-> "posting", attempt |-> 1]]
    /\ contended' = (contended \/ ActivePushes # {} \/ ActiveWrites # {})
    /\ UNCHANGED <<setup, store, contents, call, bridge, acked, faults>>

\* The answer 202 reaches the sender.
Accepted(v) ==
    /\ push[v].pc = "posting"
    /\ call[<<v, push[v].attempt>>].pc = "answered"
    /\ push' = [push EXCEPT ![v].pc = "over"]
    /\ bridge' = IF bridge = "first" THEN "ticking" ELSE bridge
    /\ UNCHANGED <<setup, store, contents, call, contended, acked, faults>>

\* The post fails for the sender: the request or its answer is lost, or the
\* server reports an error.  The request may still be under way.  The bridge
\* sleeps and posts the same payload again; when its first push is out of
\* attempts it ends.  A webhook call is not repeated.
PostFails(v) ==
    /\ push[v].pc = "posting"
    /\ IF Theta /\ push[v].attempt < Attempts
       THEN /\ push' = [push EXCEPT ![v].pc = "waiting"]
            /\ UNCHANGED bridge
       ELSE /\ push' = [push EXCEPT ![v].pc = "failed"]
            /\ bridge' = IF bridge = "first" THEN "ended" ELSE bridge
    /\ UNCHANGED <<setup, store, contents, call, contended, acked, faults>>

\* The bridge posts the same payload again.
PostAgain(v) ==
    /\ push[v].pc = "waiting"
    /\ push' = [push EXCEPT ![v] = [pc |-> "posting", attempt |-> @.attempt + 1]]
    /\ UNCHANGED <<setup, store, contents, call, bridge, contended, acked, faults>>

-----------------------------------------------------------------------------
(* The environment.                                                         *)

\* The key of Redis expires.
Expire ==
    /\ redis # Missing
    /\ faults < MaxFaults
    /\ faults' = faults + 1
    /\ redis' = Missing
    /\ UNCHANGED <<setup, store, disk, memory, call, senderVars, contended, acked>>

\* The server ends and starts again: its calls and memory stores are gone.
Restart ==
    /\ faults < MaxFaults
    /\ faults' = faults + 1
    /\ store' = NoStore
    /\ memory' = [m \in MemoryStore |-> Missing]
    /\ call' = [c \in Call |->
                  IF c \in Reader THEN [pc |-> "idle", at |-> NoStore, got |-> Missing]
                  ELSE IF Active(c) THEN [call[c] EXCEPT !.pc = "failed"] ELSE call[c]]
    /\ UNCHANGED <<setup, redis, disk, senderVars, contended, acked>>

Init ==
    /\ setup \in Setups
    /\ store = NoStore
    /\ redis = Missing
    /\ disk = Missing
    /\ memory = [m \in MemoryStore |-> Missing]
    /\ call = [c \in Call |-> [pc |-> "idle", at |-> NoStore, got |-> Missing]]
    /\ push = [v \in Snapshot |-> [pc |-> "new", attempt |-> 1]]
    /\ bridge = IF Theta THEN "first" ELSE "ended"
    /\ contended = FALSE
    /\ acked = Missing
    /\ faults = 0

\* The steps the server goes on to take by itself.
CallStep(c) == Connected(c) \/ (c \in Reader /\ Take(c)) \/ (c \in Request /\ (Put(c) \/ Fill(c)))

Next ==
    \/ \E r \in Reader : BeginRead(r) \/ EndRead(r)
    \/ \E c \in Request : Arrive(c) \/ WriteFails(c)
    \/ \E c \in Call : CallStep(c) \/ Refused(c)
    \/ \E v \in Snapshot : BeginPush(v) \/ Accepted(v) \/ PostFails(v) \/ PostAgain(v)
    \/ Expire
    \/ Restart

Spec == Init /\ [][Next]_vars

\* The server goes on with the calls it has; a post ends, by its answer or by
\* a timeout of fetch, and so does the bridge's sleep.
Fairness ==
    /\ \A c \in Call : WF_vars(CallStep(c))
    /\ \A v \in Snapshot : WF_vars(Accepted(v) \/ PostFails(v) \/ PostAgain(v))

FairSpec == Spec /\ Fairness

-----------------------------------------------------------------------------
(* Properties.                                                              *)

Pcs == {"idle", "connect", "ready", "fill", "answered", "failed"}
Stores == {NoStore, RedisStore, FileStore} \union MemoryStore
Views == Snapshot \union {Missing, Unreadable}

\* Every part of the state keeps its range: no write takes a store that does
\* not exist, no attempt is beyond the last.
TypeOK ==
    /\ setup \in Setups
    /\ store \in Stores
    /\ redis \in Snapshot \union {Missing}
    /\ disk \in Views
    /\ memory \in [MemoryStore -> Snapshot \union {Missing}]
    /\ call \in [Call -> [pc : Pcs, at : Stores, got : Views]]
    /\ push \in [Snapshot -> [pc : {"new", "posting", "waiting", "over", "failed"}, attempt : 1 .. Attempts]]
    /\ bridge \in {"first", "ticking", "ended"}
    /\ contended \in BOOLEAN
    /\ acked \in Snapshot \union {Missing}
    /\ faults \in 0 .. MaxFaults

\* While no write is in progress, nothing has failed and no two writers have
\* met, the store shows the snapshot whose sender was answered last.
AckedIsKept ==
    ~contended /\ faults = 0 /\ ActiveWrites = {} => View = acked

\* A snapshot is lost or replaced by an older one only after a fault or after two
\* writers or senders were active at a time (the bridge does not wait).
OlderOnlyAfterOverlap ==
    [][View' < View /\ View # Unreadable => contended \/ faults' > 0]_vars

\* The invariant of the stores: types, and what was acknowledged is what shows.
StoresInv == TypeOK /\ AckedIsKept

\* Every call of the store ends although the store is made, refused or replaced
\* while it waits, and every push is accepted or given up.
CallsAndPushesEnd ==
    /\ \A c \in Call : Active(c) ~> ~Active(c)
    /\ \A v \in Snapshot : push[v].pc = "posting" ~> push[v].pc \in {"over", "failed"}

\* The stores implement the register their readers rely on.
Register ==
    INSTANCE SnapshotRegister WITH
        kept <- View,
        offered <- Built,
        writing <- {c[1] : c \in {d \in Request : Active(d)}}

RegisterSpec == Register!Spec
=============================================================================
