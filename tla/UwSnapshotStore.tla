--------------------------- MODULE UwSnapshotStore ---------------------------
(***************************************************************************)
(* The UW API snapshot store in Redis mode (storage/uwSnapshotStore.js) and *)
(* the start of the server that restores from it (server.js): an in-memory  *)
(* snapshot, a lazily connected Redis client shared by all calls, and the   *)
(* value under REDIS_KEY, which outlives the process.                       *)
(*                                                                          *)
(* Snapshots are numbered in the order writeUwApiSnapshot is called with    *)
(* them.  A call that needs Redis is an Op: it either has the client at     *)
(* once, waits for connect(), or polls every 100 ms for another call's      *)
(* connection.  Each connect() makes a client of its own; the commands of   *)
(* one client are served in the order they are sent, those of two in any,   *)
(* and any of them may be rejected.                                         *)
(***************************************************************************)
EXTENDS Integers, FiniteSets

CONSTANTS
    Op,             \* calls that can be outstanding at a time
    BootOp,         \* the one the server start uses for its restore
    RedisReachable, \* whether connect() can succeed
    MaxWrites,      \* bound on snapshots written
    MaxCrashes      \* bound on restarts of the server

ASSUME StoreAssumption ==
    /\ BootOp \in Op
    /\ RedisReachable \in BOOLEAN
    /\ MaxWrites \in Nat
    /\ MaxCrashes \in Nat

None == 0           \* no snapshot

VARIABLES
    redis,          \* the snapshot under REDIS_KEY
    memory,         \* memorySnapshot
    ready,          \* _redisReady
    connecting,     \* _redisConnecting
    connectError,   \* _redisError is set
    op,             \* [pc, kind, snap, current, behind] of each call
    booted,         \* startLiveRefreshScheduler has been called
    written,        \* snapshots written so far
    crashes,
    past            \* history: what may keep memory and Redis apart

vars == <<redis, memory, ready, connecting, connectError, op, booted, written, crashes, past>>
clientVars == <<ready, connecting, connectError>>
processVars == <<written, crashes>>

\* current: sent on the client that _redisClient is; behind: the calls whose
\* commands were sent before on the same client and are not over.
Begun(kind, snap, pc) ==
    [pc |-> pc, kind |-> kind, snap |-> snap, current |-> FALSE, behind |-> {}]
Free == Begun("read", None, "free")

\* contended: the newest write began beside another call; lost: the newest
\* snapshot that never reached Redis; expired: Redis lost its value since.
NoPast == [contended |-> FALSE, lost |-> None, expired |-> FALSE]

-----------------------------------------------------------------------------
(* getRedisClient and the command behind it.                                *)

\* The command goes out on the client there is.
Sent(kind, snap) ==
    [pc |-> "sent", kind |-> kind, snap |-> snap, current |-> TRUE,
     behind |-> {u \in Op : op[u].current}]

\* A call asks for the client: it is ready, another call is connecting, or
\* this call connects.
BeginOp(o, kind, snap) ==
    \/ /\ ready
       /\ op' = [op EXCEPT ![o] = Sent(kind, snap)]
       /\ UNCHANGED clientVars
    \/ /\ ~ready /\ connecting
       /\ op' = [op EXCEPT ![o] = Begun(kind, snap, "poll")]
       /\ UNCHANGED clientVars
    \/ /\ ~ready /\ ~connecting
       /\ op' = [op EXCEPT ![o] = Begun(kind, snap, "connect")]
       /\ connecting' = TRUE
       /\ connectError' = FALSE
       /\ UNCHANGED ready

Finished(o) == [u \in Op |-> IF u = o THEN Free ELSE [op[u] EXCEPT !.behind = @ \ {o}]]

Larger(a, b) == IF a < b THEN b ELSE a

\* A mutant of GiveUp: the poller waits on.
GiveUpSilently(o) ==
    /\ op' = Finished(o)
    /\ past' = past
    /\ booted' = booted

\* The call has no client, or its command is rejected: a read or restore finds
\* nothing, a write is dropped.
GiveUp(o) ==
    /\ op' = Finished(o)
    /\ past' = IF op[o].kind = "write" THEN [past EXCEPT !.lost = Larger(@, op[o].snap)] ELSE past
    /\ booted' = (booted \/ op[o].kind = "restore")

\* The client becomes _redisClient; commands sent on an earlier one stay there.
ConnectSucceeds(o) ==
    /\ RedisReachable
    /\ op[o].pc = "connect"
    /\ ready' = TRUE
    /\ connecting' = FALSE
    /\ op' = [u \in Op |->
                IF u = o THEN [Begun(op[o].kind, op[o].snap, "sent") EXCEPT !.current = TRUE]
                ELSE [op[u] EXCEPT !.current = FALSE]]
    /\ UNCHANGED <<redis, memory, connectError, booted, past, processVars>>

\* The client emits 'error' and keeps reconnecting: connect() stays pending.
ConnectEmitsError(o) ==
    /\ op[o].pc = "connect"
    /\ ~ready
    /\ connectError' = TRUE
    /\ connecting' = FALSE
    /\ UNCHANGED <<redis, memory, ready, op, booted, past, processVars>>

\* connect() rejects for an error the client does not retry.
ConnectRejects(o) ==
    /\ RedisReachable
    /\ op[o].pc = "connect"
    /\ connectError' = TRUE
    /\ connecting' = FALSE
    /\ ready' = FALSE
    /\ GiveUp(o)
    /\ UNCHANGED <<redis, memory, processVars>>

PollSeesClient(o) ==
    /\ op[o].pc = "poll"
    /\ ready
    /\ op' = [op EXCEPT ![o] = Sent(op[o].kind, op[o].snap)]
    /\ UNCHANGED <<redis, memory, clientVars, booted, past, processVars>>

\* The poller sees the error, or its 3 s are over.
PollGivesUp(o) ==
    /\ op[o].pc = "poll"
    /\ GiveUp(o)
    /\ UNCHANGED <<redis, memory, clientVars, processVars>>

\* A mutant of ItsTurn: commands overtake each other.
ItsTurnAlways(o) == op[o].pc = "sent"

ItsTurn(o) == op[o].pc = "sent" /\ \A u \in op[o].behind : op[u].pc = "reply"

\* A set takes effect; nobody looks at its reply.
SetServed(o) ==
    /\ ItsTurn(o)
    /\ op[o].kind = "write"
    /\ redis' = op[o].snap
    /\ op' = Finished(o)
    /\ past' = [past EXCEPT !.expired = FALSE]
    /\ UNCHANGED <<memory, clientVars, booted, processVars>>

\* A get picks up what Redis holds; its reply is still to come.
GetServed(o) ==
    /\ ItsTurn(o)
    /\ op[o].kind # "write"
    /\ op' = [op EXCEPT ![o].pc = "reply", ![o].snap = redis]
    /\ UNCHANGED <<redis, memory, clientVars, booted, past, processVars>>

\* The reply of a get: the snapshot found becomes the one in memory.
ReplyArrives(o) ==
    /\ op[o].pc = "reply"
    /\ op[o].behind = {}
    /\ memory' = IF op[o].snap # None THEN op[o].snap ELSE memory
    /\ GiveUp(o)
    /\ UNCHANGED <<redis, clientVars, processVars>>

\* client.get or client.set rejects, for an error of Redis or a connection
\* that broke before the reply.
CommandFails(o) ==
    /\ op[o].pc \in {"sent", "reply"}
    /\ GiveUp(o)
    /\ UNCHANGED <<redis, memory, clientVars, processVars>>

-----------------------------------------------------------------------------
(* The calls.                                                               *)

\* A write only follows a call in order if that is a write on the same client.
Disturbs(u) ==
    /\ op[u].pc # "free"
    /\ ~(ready /\ op[u].pc = "sent" /\ op[u].current /\ op[u].kind = "write")

Contention ==
    past' = [past EXCEPT !.contended =
               \/ \E u \in Op : Disturbs(u)
               \/ @ /\ \E u \in Op : op[u].pc # "free"]

\* A mutant of WriteSnapshot: a connected store is not written through.
WriteSnapshotMemoryOnly(o) ==
    /\ op[o].pc = "free"
    /\ written < MaxWrites
    /\ written' = written + 1
    /\ memory' = written + 1
    /\ Contention
    /\ UNCHANGED <<redis, clientVars, op, booted, crashes>>

\* writeUwApiSnapshot: memory at once, Redis without waiting.
WriteSnapshot(o) ==
    /\ op[o].pc = "free"
    /\ written < MaxWrites
    /\ written' = written + 1
    /\ memory' = written + 1
    /\ BeginOp(o, "write", written + 1)
    /\ Contention
    /\ UNCHANGED <<redis, booted, crashes>>

\* readUwApiSnapshot answers from memory.
ReadWarm ==
    /\ memory # None
    /\ UNCHANGED vars

\* readUwApiSnapshot with an empty memory asks Redis.
ReadCold(o) ==
    /\ op[o].pc = "free"
    /\ memory = None
    /\ BeginOp(o, "read", None)
    /\ UNCHANGED <<redis, memory, booted, past, processVars>>

\* The value under REDIS_KEY expires.
RedisExpires ==
    /\ redis # None
    /\ redis' = None
    /\ past' = [past EXCEPT !.expired = TRUE]
    /\ UNCHANGED <<memory, clientVars, op, booted, processVars>>

\* The server dies and starts again: the new process restores first, and its
\* restore is the first call to ask for a client.  What the old process sent
\* has been served or is lost by then.
Crash ==
    /\ crashes < MaxCrashes
    /\ crashes' = crashes + 1
    /\ memory' = None
    /\ ready' = FALSE
    /\ connecting' = TRUE
    /\ connectError' = FALSE
    /\ booted' = FALSE
    /\ op' = [o \in Op |-> IF o = BootOp THEN Begun("restore", None, "connect") ELSE Free]
    /\ past' = NoPast
    /\ UNCHANGED <<redis, written>>

Init ==
    /\ redis = None
    /\ memory = None
    /\ ready = FALSE
    /\ connecting = TRUE
    /\ connectError = FALSE
    /\ booted = FALSE
    /\ op = [o \in Op |-> IF o = BootOp THEN Begun("restore", None, "connect") ELSE Free]
    /\ written = 0
    /\ crashes = 0
    /\ past = NoPast

\* What ends a wait, whichever way.
OpStep(o) ==
    \/ ConnectSucceeds(o)
    \/ ConnectRejects(o)
    \/ PollSeesClient(o)
    \/ PollGivesUp(o)
    \/ SetServed(o)
    \/ GetServed(o)
    \/ ReplyArrives(o)
    \/ CommandFails(o)

Next ==
    \/ \E o \in Op : OpStep(o)
    \/ \E o \in Op : ConnectEmitsError(o)
    \/ \E o \in Op : WriteSnapshot(o)
    \/ \E o \in Op : ReadCold(o)
    \/ ReadWarm
    \/ RedisExpires
    \/ Crash

Spec == Init /\ [][Next]_vars

\* Connections settle when Redis is reachable, polls end and commands are
\* answered or rejected.
FairSpec == Spec /\ \A o \in Op : WF_vars(OpStep(o))

-----------------------------------------------------------------------------
(* Properties.                                                              *)

UnderWay(o) == op[o].pc # "free" /\ op[o].kind = "write"

\* The type invariant.
StoreTypeOK ==
    /\ redis \in 0 .. written
    /\ memory \in 0 .. written
    /\ written \in 0 .. MaxWrites
    /\ crashes \in 0 .. MaxCrashes
    /\ ready \in BOOLEAN /\ connecting \in BOOLEAN /\ connectError \in BOOLEAN /\ booted \in BOOLEAN
    /\ past \in [contended : BOOLEAN, lost : 0 .. written, expired : BOOLEAN]
    /\ op \in [Op -> [pc : {"free", "connect", "poll", "sent", "reply"},
                      kind : {"read", "write", "restore"}, snap : 0 .. written,
                      current : BOOLEAN, behind : SUBSET Op]]

\* Unless the newest write began beside a cold read, a connection being made
\* or commands of another client, memory and Redis part only as long as the
\* set of what is in memory is under way, or because it failed or the value
\* expired: no late reply and no late set of another call undoes either.
StoresAgree ==
    memory # None /\ ~past.contended =>
        \/ redis = memory
        \/ past.expired
        \/ past.lost = memory
        \/ \E o \in Op : UnderWay(o) /\ op[o].snap = memory

\* The invariant of the store: its types, and no snapshot lost or brought back but
\* by a set that is under way, failed or expired, or by such contention.
StoreInv == StoreTypeOK /\ StoresAgree

\* Without such contention snapshots reach Redis in the order they were
\* written, whatever sets in between fail.
WarmWritesInOrder == [][redis' # None /\ redis' < redis => past.contended]_vars

\* A reachable Redis lets the server start: the restore ends and the
\* scheduler is started after it, however connections fail in between.
SchedulerStarts == []<>booted
=============================================================================
