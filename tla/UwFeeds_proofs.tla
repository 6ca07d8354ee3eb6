---------------------------- MODULE UwFeeds_proofs ----------------------------
(***************************************************************************)
(* What holds of the two stores of what Unusual Whales delivers: of the     *)
(* snapshot store for any number of calls, writes and restarts, whether     *)
(* Redis is reachable or not, and of the queue of recent trades for any     *)
(* tape, pages in any order, and any limits.                                *)
(***************************************************************************)
EXTENDS UwSnapshotStore, FlowRecentQueue,
        FiniteSetTheorems, SequenceTheorems, WellFoundedInduction, TLAPS

USE DEF None, Never

-----------------------------------------------------------------------------
(* The snapshot store.                                                      *)

\* Only a get is waited for in the state "reply".
ShapeInv == \A o \in Op : op[o].pc = "reply" => op[o].kind # "write"

\* While no write began beside another call: writes and reads exclude each
\* other, a write that waits is alone, and those that are sent stand in one
\* line, the newest last, with nothing in Redis that is as new as they are.
CalmLine ==
    \A w \in Op : UnderWay(w) =>
        /\ memory = written /\ redis < op[w].snap
        /\ \A u \in Op : op[u].pc # "free" => op[u].kind = "write"
        /\ op[w].pc # "sent" => \A u \in Op \ {w} : op[u].pc = "free"
        /\ op[w].pc = "sent" => op[w].current
        /\ \A v \in Op \ {w} : UnderWay(v) =>
              op[v].snap # op[w].snap /\ (op[v].snap < op[w].snap => v \in op[w].behind)

\* The newest snapshot is under way as long as any is, or it was lost.
NewestNotForgotten ==
    \A w \in Op : UnderWay(w) =>
        past.lost = memory \/ \E v \in Op : UnderWay(v) /\ op[v].snap = memory

\* What a get has picked up is what Redis still holds, or it expired since.
RepliesAreTrue ==
    \A r \in Op : op[r].pc = "reply" => op[r].snap \in {None, redis} \/ past.expired

\* The inductive invariant.
Calm == ~past.contended => CalmLine /\ NewestNotForgotten /\ RepliesAreTrue /\ StoresAgree
LineInv == StoreTypeOK /\ ShapeInv /\ Calm

\* The record of a call, as the type invariant has it.
OpRecord(n) ==
    [pc : {"free", "connect", "poll", "sent", "reply"}, kind : {"read", "write", "restore"},
     snap : 0 .. n, current : BOOLEAN, behind : SUBSET Op]

(* What the end of a call leaves: the others as they were, behind one less. *)
LEMMA FinishedFacts ==
    ASSUME StoreTypeOK, NEW o \in Op, op' = Finished(o)
    PROVE  /\ op' \in [Op -> OpRecord(written)]
           /\ op'[o] = Free
           /\ \A u \in Op \ {o} :
                 /\ op'[u].pc = op[u].pc /\ op'[u].kind = op[u].kind /\ op'[u].snap = op[u].snap
                 /\ op'[u].current = op[u].current /\ op'[u].behind = op[u].behind \ {o}
<1>1. \A u \in Op : op[u] \in OpRecord(written)
  BY DEF StoreTypeOK, OpRecord
<1>2. Free \in OpRecord(written)
  BY DEF Free, Begun, OpRecord, StoreTypeOK
<1>3. \A u \in Op \ {o} : op'[u] = [op[u] EXCEPT !.behind = @ \ {o}]
  BY DEF Finished
<1> QED
  BY <1>1, <1>2, <1>3 DEF Finished, OpRecord

(* A call that asks for the client becomes one that is sent, polls or        *)
(* connects, and carries what it was given.                                 *)
LEMMA BeginOpFacts ==
    ASSUME StoreTypeOK, NEW o \in Op, NEW kind \in {"read", "write", "restore"}, NEW snap,
           BeginOp(o, kind, snap)
    PROVE  /\ \A u \in Op \ {o} : op'[u] = op[u]
           /\ op'[o].kind = kind /\ op'[o].snap = snap
           /\ op'[o].pc \in {"poll", "connect", "sent"}
           /\ op'[o].pc = "sent" <=> ready
           /\ op'[o].pc = "sent" =>
                 op'[o].current /\ op'[o].behind = {u \in Op : op[u].current}
           /\ op'[o].current \in BOOLEAN /\ op'[o].behind \in SUBSET Op
           /\ op' = [op EXCEPT ![o] = op'[o]]
           /\ ready' \in BOOLEAN /\ connecting' \in BOOLEAN /\ connectError' \in BOOLEAN
           /\ op'[o] \in [pc : {"free", "connect", "poll", "sent", "reply"},
                          kind : {"read", "write", "restore"}, snap : {snap},
                          current : BOOLEAN, behind : SUBSET Op]
<1>1. PICK r \in {Sent(kind, snap), Begun(kind, snap, "poll"), Begun(kind, snap, "connect")} :
         op' = [op EXCEPT ![o] = r] /\ (r = Sent(kind, snap) <=> ready)
  <2>1. Sent(kind, snap).pc = "sent" /\ Begun(kind, snap, "poll").pc = "poll"
        /\ Begun(kind, snap, "connect").pc = "connect"
    BY DEF Sent, Begun
  <2> QED
    BY <2>1 DEF BeginOp
<1>2. op \in [Op -> OpRecord(written)] /\ ready \in BOOLEAN /\ connecting \in BOOLEAN /\ connectError \in BOOLEAN
  BY DEF StoreTypeOK, OpRecord
<1>3. ready' \in BOOLEAN /\ connecting' \in BOOLEAN /\ connectError' \in BOOLEAN
  BY <1>2 DEF BeginOp, clientVars
<1>4. op'[o] = r /\ \A u \in Op \ {o} : op'[u] = op[u]
  BY <1>1, <1>2
<1>5. /\ r.kind = kind /\ r.snap = snap /\ r.pc \in {"poll", "connect", "sent"}
      /\ r.pc = "sent" <=> ready
      /\ r.current \in BOOLEAN /\ r.behind \in SUBSET Op
      /\ r \in [pc : {"free", "connect", "poll", "sent", "reply"}, kind : {"read", "write", "restore"},
                snap : {snap}, current : BOOLEAN, behind : SUBSET Op]
  <2>1. CASE r = Sent(kind, snap)
    BY <1>1, <2>1 DEF Sent
  <2>2. CASE r = Begun(kind, snap, "poll") \/ r = Begun(kind, snap, "connect")
    <3>1. r # Sent(kind, snap)
      BY <2>2 DEF Sent, Begun
    <3>2. ~ready
      BY <1>1, <3>1
    <3>3. CASE r = Begun(kind, snap, "poll")
      BY <3>2, <3>3 DEF Begun
    <3>4. CASE r = Begun(kind, snap, "connect")
      BY <3>2, <3>4 DEF Begun
    <3> QED
      BY <2>2, <3>3, <3>4
  <2> QED
    BY <1>1, <2>1, <2>2
<1>6. r.pc = "sent" => r.current /\ r.behind = {u \in Op : op[u].current}
  BY <1>1 DEF Sent, Begun
<1> QED
  BY <1>1, <1>3, <1>4, <1>5, <1>6

(* Every step keeps the types.                                              *)
LEMMA StoreTypeStep == StoreTypeOK /\ [Next]_vars => StoreTypeOK'
<1> SUFFICES ASSUME StoreTypeOK, [Next]_vars
             PROVE  StoreTypeOK'
  OBVIOUS
<1> USE StoreAssumption DEF clientVars, processVars
<1>1. op \in [Op -> OpRecord(written)] /\ redis \in 0 .. written /\ memory \in 0 .. written
      /\ written \in Nat /\ past.lost \in 0 .. written /\ NoPast \in [contended : BOOLEAN, lost : 0 .. written, expired : BOOLEAN]
  BY DEF StoreTypeOK, OpRecord, NoPast
<1>2. ASSUME NEW o \in Op, GiveUp(o), UNCHANGED <<redis, written, crashes>>, memory' \in 0 .. written,
             ready' \in BOOLEAN /\ connecting' \in BOOLEAN /\ connectError' \in BOOLEAN
      PROVE  StoreTypeOK'
  <2>1. op' \in [Op -> OpRecord(written)]
    BY <1>2, FinishedFacts DEF GiveUp
  <2>2. past' \in [contended : BOOLEAN, lost : 0 .. written, expired : BOOLEAN]
    <3>1. Larger(past.lost, op[o].snap) \in 0 .. written
      BY <1>1 DEF Larger, OpRecord
    <3> QED
      BY <1>2, <3>1 DEF GiveUp, StoreTypeOK
  <2>3. booted' \in BOOLEAN
    BY <1>2 DEF GiveUp, StoreTypeOK
  <2> QED
    BY <1>2, <2>1, <2>2, <2>3 DEF StoreTypeOK, OpRecord
<1>3. ASSUME NEW o \in Op, ConnectRejects(o) \/ PollGivesUp(o) \/ CommandFails(o)
      PROVE  StoreTypeOK'
  BY <1>3, <1>2 DEF ConnectRejects, PollGivesUp, CommandFails, StoreTypeOK
<1>4. ASSUME NEW o \in Op, ReplyArrives(o)
      PROVE  StoreTypeOK'
  <2>1. memory' \in 0 .. written
    BY <1>1, <1>4 DEF ReplyArrives, OpRecord
  <2> QED
    BY <1>4, <1>2, <2>1 DEF ReplyArrives, StoreTypeOK
<1>5. ASSUME NEW o \in Op, SetServed(o)
      PROVE  StoreTypeOK'
  <2>1. op' \in [Op -> OpRecord(written)]
    BY <1>5, FinishedFacts DEF SetServed
  <2>2. redis' \in 0 .. written
    BY <1>1, <1>5 DEF SetServed, OpRecord
  <2> QED
    BY <1>5, <2>1, <2>2 DEF SetServed, StoreTypeOK, OpRecord
<1>6. ASSUME NEW o \in Op, GetServed(o)
      PROVE  StoreTypeOK'
  <2>1. op' \in [Op -> OpRecord(written)]
    BY <1>1, <1>6 DEF GetServed, OpRecord
  <2> QED
    BY <1>6, <2>1 DEF GetServed, StoreTypeOK, OpRecord
<1>7. ASSUME NEW o \in Op, ConnectSucceeds(o)
      PROVE  StoreTypeOK'
  <2>1. [Begun(op[o].kind, op[o].snap, "sent") EXCEPT !.current = TRUE] \in OpRecord(written)
    BY <1>1 DEF Begun, OpRecord
  <2>2. ASSUME NEW u \in Op
        PROVE  [op[u] EXCEPT !.current = FALSE] \in OpRecord(written)
    <3>1. op[u] \in OpRecord(written)
      BY <1>1
    <3>2. ASSUME NEW r \in OpRecord(written)
          PROVE  [r EXCEPT !.current = FALSE] \in OpRecord(written)
      BY DEF OpRecord
    <3> QED
      BY <3>1, <3>2
  <2>3. op' \in [Op -> OpRecord(written)]
    BY <1>7, <2>1, <2>2 DEF ConnectSucceeds
  <2> QED
    BY <1>7, <2>3 DEF ConnectSucceeds, StoreTypeOK, OpRecord
<1>8. ASSUME NEW o \in Op, ConnectEmitsError(o)
      PROVE  StoreTypeOK'
  BY <1>8 DEF ConnectEmitsError, StoreTypeOK
<1>9. ASSUME NEW o \in Op, PollSeesClient(o)
      PROVE  StoreTypeOK'
  <2>1. Sent(op[o].kind, op[o].snap) \in OpRecord(written)
    BY <1>1 DEF Sent, Begun, OpRecord
  <2>2. op' \in [Op -> OpRecord(written)]
    BY <1>1, <1>9, <2>1 DEF PollSeesClient
  <2> QED
    BY <1>9, <2>2 DEF PollSeesClient, StoreTypeOK, OpRecord
<1>10. ASSUME NEW o \in Op, WriteSnapshot(o)
       PROVE  StoreTypeOK'
  <2>1. written' = written + 1 /\ memory' = written + 1 /\ written' \in 0 .. MaxWrites
    BY <1>1, <1>10 DEF WriteSnapshot, StoreTypeOK
  <2>2. /\ op'[o] \in OpRecord(written') /\ op' = [op EXCEPT ![o] = op'[o]]
        /\ ready' \in BOOLEAN /\ connecting' \in BOOLEAN /\ connectError' \in BOOLEAN
    BY <1>1, <1>10, <2>1, BeginOpFacts DEF WriteSnapshot, OpRecord
  <2>3. \A u \in Op : op[u] \in OpRecord(written')
    BY <1>1, <2>1 DEF OpRecord
  <2>4. op' \in [Op -> OpRecord(written')]
    BY <1>1, <2>2, <2>3
  <2>5. past' \in [contended : BOOLEAN, lost : 0 .. written', expired : BOOLEAN]
    <3>1. PICK b \in BOOLEAN : past' = [past EXCEPT !.contended = b]
      BY <1>10, Zenon DEF WriteSnapshot, Contention
    <3>2. past' = [contended |-> b, lost |-> past.lost, expired |-> past.expired]
      BY <3>1 DEF StoreTypeOK
    <3>3. past.lost \in 0 .. written' /\ past.expired \in BOOLEAN
      BY <1>1, <2>1 DEF StoreTypeOK
    <3> QED
      BY <3>2, <3>3
  <2>6. redis' \in 0 .. written' /\ memory' \in 0 .. written' /\ UNCHANGED <<booted, crashes>>
    BY <1>1, <1>10, <2>1 DEF WriteSnapshot
  <2> QED
    BY <2>1, <2>2, <2>4, <2>5, <2>6 DEF StoreTypeOK, OpRecord
<1>11. ASSUME NEW o \in Op, ReadCold(o)
       PROVE  StoreTypeOK'
  <2>1. /\ op'[o] \in OpRecord(written) /\ op' = [op EXCEPT ![o] = op'[o]]
        /\ ready' \in BOOLEAN /\ connecting' \in BOOLEAN /\ connectError' \in BOOLEAN
    BY <1>1, <1>11, BeginOpFacts DEF ReadCold, OpRecord
  <2>2. op' \in [Op -> OpRecord(written)]
    BY <1>1, <2>1
  <2> QED
    BY <1>11, <2>1, <2>2 DEF ReadCold, StoreTypeOK, OpRecord
<1>12. CASE RedisExpires
  <2>1. past' = [contended |-> past.contended, lost |-> past.lost, expired |-> TRUE]
    BY <1>12 DEF RedisExpires, StoreTypeOK
  <2>2. past' \in [contended : BOOLEAN, lost : 0 .. written, expired : BOOLEAN]
    BY <1>1, <2>1 DEF StoreTypeOK
  <2> QED
    BY <1>1, <1>12, <2>2 DEF RedisExpires, StoreTypeOK
<1>13. CASE Crash
  <2>1. Free \in OpRecord(written) /\ Begun("restore", None, "connect") \in OpRecord(written)
    BY <1>1 DEF Free, Begun, OpRecord
  <2>2. op' \in [Op -> OpRecord(written)]
    BY <1>13, <2>1 DEF Crash
  <2>3. crashes' \in 0 .. MaxCrashes
    BY <1>13 DEF Crash, StoreTypeOK
  <2>4. UNCHANGED <<redis, written>> /\ memory' = 0 /\ past' = NoPast
    BY <1>13 DEF Crash
  <2>5. ready' \in BOOLEAN /\ connecting' \in BOOLEAN /\ connectError' \in BOOLEAN /\ booted' \in BOOLEAN
    BY <1>13 DEF Crash
  <2>6. written \in 0 .. MaxWrites
    BY DEF StoreTypeOK
  <2> QED
    BY <1>1, <2>2, <2>3, <2>4, <2>5, <2>6 DEF StoreTypeOK, OpRecord
<1>14. CASE ReadWarm \/ UNCHANGED vars
  BY <1>14 DEF ReadWarm, vars, StoreTypeOK
<1> QED
  BY <1>3, <1>4, <1>5, <1>6, <1>7, <1>8, <1>9, <1>10, <1>11, <1>12, <1>13, <1>14 DEF Next, OpStep

(* A call that ends without having reached Redis leaves the line calm: if   *)
(* it was the newest write, it is remembered as lost.                       *)
LEMMA GivingUpIsCalm ==
    ASSUME LineInv, NEW o \in Op, op[o].pc # "free", GiveUp(o), UNCHANGED <<redis, memory, written>>
    PROVE  ShapeInv' /\ Calm'
<1>1. /\ op'[o].pc = "free" /\ op'[o].kind = "read"
      /\ \A u \in Op \ {o} :
            /\ op'[u].pc = op[u].pc /\ op'[u].kind = op[u].kind /\ op'[u].snap = op[u].snap
            /\ op'[u].current = op[u].current /\ op'[u].behind = op[u].behind \ {o}
  BY FinishedFacts DEF GiveUp, LineInv, Free, Begun
<1>2. ShapeInv'
  BY <1>1 DEF LineInv, ShapeInv
<1>3. /\ past'.contended = past.contended /\ past'.expired = past.expired
      /\ op[o].kind = "write" => past'.lost = Larger(past.lost, op[o].snap)
      /\ op[o].kind # "write" => past'.lost = past.lost
      /\ past.lost \in 0 .. written /\ op[o].snap \in 0 .. written /\ written \in Nat
  BY DEF GiveUp, LineInv, StoreTypeOK
<1>4. ASSUME ~past.contended
      PROVE  CalmLine' /\ NewestNotForgotten' /\ RepliesAreTrue' /\ StoresAgree'
  <2>1. CalmLine /\ NewestNotForgotten /\ RepliesAreTrue /\ StoresAgree
    BY <1>4 DEF LineInv, Calm
  <2>2. \A w \in Op : UnderWay(w)' => w # o /\ UnderWay(w)
    BY <1>1 DEF UnderWay
  <2>3. CalmLine'
    BY <1>1, <2>1, <2>2 DEF CalmLine, UnderWay
  <2>4. past.lost = memory /\ (\E w \in Op : UnderWay(w)) => past'.lost = memory
    BY <1>3, <2>1 DEF CalmLine, Larger
  <2>5. UnderWay(o) /\ op[o].snap = memory => past'.lost = memory
    BY <1>3, <2>1 DEF CalmLine, UnderWay, Larger
  <2>6. \A v \in Op \ {o} : UnderWay(v) => UnderWay(v)' /\ op'[v].snap = op[v].snap
    BY <1>1 DEF UnderWay
  <2>7. NewestNotForgotten'
    BY <2>1, <2>2, <2>4, <2>5, <2>6 DEF NewestNotForgotten
  <2>8. RepliesAreTrue'
    BY <1>1, <1>3, <2>1 DEF RepliesAreTrue
  <2>9. StoresAgree'
    <3>1. CASE \E w \in Op : UnderWay(w)
      BY <1>4, <2>1, <2>4, <2>5, <2>6, <3>1 DEF NewestNotForgotten, StoresAgree
    <3>2. CASE ~\E w \in Op : UnderWay(w)
      <4>1. past' = past
        BY <3>2 DEF UnderWay, GiveUp
      <4> QED
        BY <1>3, <2>1, <3>2, <4>1, <1>4 DEF StoresAgree, UnderWay
    <3> QED
      BY <3>1, <3>2
  <2> QED
    BY <2>3, <2>7, <2>8, <2>9
<1> QED
  BY <1>2, <1>3, <1>4 DEF Calm

(* A call that begins to wait or to send, and is no write, keeps the line:   *)
(* a read begins only while memory is empty, when no write can be under way. *)
LEMMA ReadingIsCalm ==
    ASSUME LineInv, NEW o \in Op, ReadCold(o)
    PROVE  ShapeInv' /\ Calm'
<1>1. /\ \A u \in Op \ {o} : op'[u] = op[u]
      /\ op'[o].kind = "read" /\ op'[o].pc \in {"poll", "connect", "sent"}
      /\ op[o].pc = "free" /\ memory = 0 /\ UNCHANGED <<redis, memory, past, written>>
  BY BeginOpFacts DEF ReadCold, LineInv, processVars
<1>2. ShapeInv'
  BY <1>1 DEF LineInv, ShapeInv
<1>3. ASSUME ~past.contended
      PROVE  CalmLine' /\ NewestNotForgotten' /\ RepliesAreTrue' /\ StoresAgree'
  <2>1. CalmLine /\ NewestNotForgotten /\ RepliesAreTrue /\ StoresAgree
    BY <1>3 DEF LineInv, Calm
  <2>2. \A w \in Op : ~UnderWay(w)
    <3>1. \A w \in Op : op[w].snap \in 0 .. written /\ redis \in 0 .. written /\ written \in Nat
      BY DEF LineInv, StoreTypeOK
    <3> QED
      BY <1>1, <2>1, <3>1 DEF CalmLine
  <2>3. \A w \in Op : ~UnderWay(w)'
    BY <1>1, <2>2 DEF UnderWay
  <2> QED
    BY <1>1, <2>1, <2>3 DEF CalmLine, NewestNotForgotten, RepliesAreTrue, StoresAgree
<1> QED
  BY <1>1, <1>2, <1>3 DEF Calm

(* A call that gets its client: a write that waited was alone, and a read    *)
(* meets no write.                                                          *)
LEMMA SendingIsCalm ==
    ASSUME LineInv, NEW o \in Op, ConnectSucceeds(o) \/ PollSeesClient(o)
    PROVE  ShapeInv' /\ Calm'
<1>1. op \in [Op -> OpRecord(written)]
  BY DEF LineInv, StoreTypeOK, OpRecord
<1>2. /\ op[o].pc \in {"connect", "poll"}
      /\ op'[o].pc = "sent" /\ op'[o].kind = op[o].kind /\ op'[o].snap = op[o].snap /\ op'[o].current
      /\ UNCHANGED <<redis, memory, past, written>>
  BY <1>1 DEF ConnectSucceeds, PollSeesClient, Begun, Sent, processVars
<1>3. \A u \in Op \ {o} :
        /\ op'[u].pc = op[u].pc /\ op'[u].kind = op[u].kind /\ op'[u].snap = op[u].snap
  BY <1>1 DEF ConnectSucceeds, PollSeesClient, OpRecord
<1>4. ShapeInv'
  BY <1>2, <1>3 DEF LineInv, ShapeInv
<1>5. ASSUME ~past.contended
      PROVE  CalmLine' /\ NewestNotForgotten' /\ RepliesAreTrue' /\ StoresAgree'
  <2>1. CalmLine /\ NewestNotForgotten /\ RepliesAreTrue /\ StoresAgree
    BY <1>5 DEF LineInv, Calm
  <2>2. \A w \in Op : UnderWay(w)' <=> UnderWay(w)
    BY <1>2, <1>3 DEF UnderWay
  <2>3. \A w \in Op : UnderWay(w) => w = o
    BY <1>2, <2>1 DEF CalmLine, UnderWay
  <2>4. CalmLine'
    <3> SUFFICES ASSUME UnderWay(o)
                 PROVE  /\ memory = written /\ redis < op[o].snap
                        /\ \A u \in Op : op'[u].pc # "free" => op'[u].kind = "write"
      BY <1>2, <2>2, <2>3 DEF CalmLine
    <3> QED
      BY <1>2, <1>3, <2>1 DEF CalmLine
  <2>5. NewestNotForgotten' /\ StoresAgree'
    BY <1>2, <1>3, <2>1, <2>2 DEF NewestNotForgotten, StoresAgree
  <2>6. RepliesAreTrue'
    BY <1>2, <1>3, <2>1 DEF RepliesAreTrue
  <2> QED
    BY <2>4, <2>5, <2>6
<1> QED
  BY <1>2, <1>4, <1>5 DEF Calm

(* A write that begins goes to the end of the line, or sets out alone, or   *)
(* begins beside another call.                                              *)
LEMMA WritingIsCalm ==
    ASSUME LineInv, NEW o \in Op, WriteSnapshot(o)
    PROVE  ShapeInv' /\ Calm'
<1>1. /\ \A u \in Op \ {o} : op'[u] = op[u]
      /\ op'[o].kind = "write" /\ op'[o].snap = written + 1
      /\ op'[o].pc \in {"poll", "connect", "sent"}
      /\ op'[o].pc = "sent" <=> ready
      /\ op'[o].pc = "sent" => op'[o].current /\ op'[o].behind = {u \in Op : op[u].current}
  BY BeginOpFacts DEF WriteSnapshot, LineInv
<1>2. /\ op[o].pc = "free" /\ memory' = written + 1 /\ written' = written + 1 /\ redis' = redis
      /\ redis \in 0 .. written /\ written \in Nat
      /\ \A u \in Op : op[u].snap \in 0 .. written
  BY DEF WriteSnapshot, LineInv, StoreTypeOK
<1>3. ShapeInv'
  BY <1>1 DEF LineInv, ShapeInv
<1>4. /\ past'.contended <=> (\E u \in Op : Disturbs(u)) \/ (past.contended /\ \E u \in Op : op[u].pc # "free")
      /\ past'.expired = past.expired /\ past'.lost = past.lost
  <2>1. PICK b \in BOOLEAN :
           /\ past' = [past EXCEPT !.contended = b]
           /\ b <=> (\E u \in Op : Disturbs(u)) \/ (past.contended /\ \E u \in Op : op[u].pc # "free")
    BY Zenon DEF WriteSnapshot, Contention
  <2>2. past'.contended = b /\ past'.expired = past.expired /\ past'.lost = past.lost
    BY <2>1 DEF LineInv, StoreTypeOK
  <2> QED
    BY <2>1, <2>2
<1>5. ASSUME ~past'.contended
      PROVE  CalmLine' /\ NewestNotForgotten' /\ RepliesAreTrue' /\ StoresAgree'
  <2>1. \A u \in Op : op[u].pc # "free" => op[u].kind = "write" /\ op[u].pc = "sent" /\ op[u].current /\ ready
    BY <1>4, <1>5 DEF Disturbs
  <2>2. (\E u \in Op : op[u].pc # "free") => CalmLine
    BY <1>4, <1>5 DEF LineInv, Calm
  <2>3. \A w \in Op \ {o} : UnderWay(w) =>
           /\ op[w].pc = "sent" /\ w \in op'[o].behind /\ op'[o].pc = "sent"
           /\ redis < op[w].snap
           /\ \A v \in Op \ {w} : UnderWay(v) =>
                 op[v].snap # op[w].snap /\ (op[v].snap < op[w].snap => v \in op[w].behind)
    <3> SUFFICES ASSUME NEW w \in Op \ {o}, UnderWay(w)
                 PROVE  /\ op[w].pc = "sent" /\ w \in op'[o].behind /\ op'[o].pc = "sent"
                        /\ redis < op[w].snap
                        /\ \A v \in Op \ {w} : UnderWay(v) =>
                              op[v].snap # op[w].snap /\ (op[v].snap < op[w].snap => v \in op[w].behind)
      OBVIOUS
    <3>1. op'[o].pc = "sent" /\ w \in op'[o].behind
      BY <1>1, <2>1 DEF UnderWay
    <3>2. CalmLine
      BY <2>2 DEF UnderWay
    <3>3. op[w].pc = "sent"
      BY <2>1 DEF UnderWay
    <3> QED
      BY <3>1, <3>2, <3>3 DEF CalmLine
  <2>4. UnderWay(o)' /\ \A w \in Op \ {o} : UnderWay(w)' <=> UnderWay(w)
    BY <1>1 DEF UnderWay
  <2>5. \A u \in Op : op'[u].pc # "free" => op'[u].kind = "write"
    BY <1>1, <2>1
  <2>6. CalmLine'
    <3>1. op'[o].pc # "sent" => \A u \in Op \ {o} : op'[u].pc = "free"
      BY <1>1, <2>1
    <3>2. ASSUME NEW w \in Op, UnderWay(w)'
          PROVE  /\ memory' = written' /\ redis' < op'[w].snap
                 /\ op'[w].pc # "sent" => \A u \in Op \ {w} : op'[u].pc = "free"
                 /\ op'[w].pc = "sent" => op'[w].current
                 /\ \A v \in Op \ {w} : UnderWay(v)' =>
                       op'[v].snap # op'[w].snap /\ (op'[v].snap < op'[w].snap => v \in op'[w].behind)
      <4>1. CASE w = o
        BY <1>1, <1>2, <2>3, <2>4, <3>1, <4>1
      <4>2. CASE w # o
        BY <1>1, <1>2, <2>1, <2>3, <2>4, <3>2, <4>2 DEF UnderWay
      <4> QED
        BY <4>1, <4>2
    <3> QED
      BY <2>5, <3>2 DEF CalmLine
  <2>7. op'[o].snap = memory'
    BY <1>1, <1>2
  <2>8. RepliesAreTrue'
    BY <1>1, <2>5, <1>3 DEF RepliesAreTrue, ShapeInv
  <2> QED
    BY <2>4, <2>6, <2>7, <2>8 DEF NewestNotForgotten, StoresAgree
<1> QED
  BY <1>3, <1>5 DEF Calm

(* A set takes its turn: the sets that are left are newer, and Redis goes   *)
(* forward.                                                                 *)
LEMMA SetIsCalm ==
    ASSUME LineInv, NEW o \in Op, SetServed(o)
    PROVE  ShapeInv' /\ Calm' /\ (~past.contended => redis < redis' /\ redis' \in Nat)
<1>1. /\ op'[o].pc = "free" /\ op'[o].kind = "read"
      /\ \A u \in Op \ {o} :
            /\ op'[u].pc = op[u].pc /\ op'[u].kind = op[u].kind /\ op'[u].snap = op[u].snap
            /\ op'[u].current = op[u].current /\ op'[u].behind = op[u].behind \ {o}
  BY FinishedFacts DEF SetServed, LineInv, Free, Begun
<1>2. ShapeInv'
  BY <1>1 DEF LineInv, ShapeInv
<1>3. /\ past'.contended = past.contended /\ past'.lost = past.lost
      /\ UNCHANGED <<memory, written>> /\ redis' = op[o].snap /\ redis \in 0 .. written
      /\ written \in Nat /\ \A u \in Op : op[u].snap \in 0 .. written
  BY DEF SetServed, LineInv, StoreTypeOK, processVars
<1>4. UnderWay(o) /\ op[o].pc = "sent" /\ \A u \in op[o].behind : op[u].pc = "reply"
  BY DEF SetServed, ItsTurn, UnderWay
<1>5. ASSUME ~past.contended
      PROVE  CalmLine' /\ NewestNotForgotten' /\ RepliesAreTrue' /\ StoresAgree' /\ redis < redis'
             /\ redis' \in Nat
  <2>1. CalmLine /\ NewestNotForgotten
    BY <1>5 DEF LineInv, Calm
  <2>2. \A w \in Op : UnderWay(w)' => w # o /\ UnderWay(w)
    BY <1>1 DEF UnderWay
  <2>3. redis < redis' /\ redis' \in Nat /\ memory = written
    BY <1>3, <1>4, <2>1 DEF CalmLine
  <2>4. ASSUME NEW w \in Op \ {o}, UnderWay(w)
        PROVE  redis' < op[w].snap
    <3>1. op[w].snap # op[o].snap /\ (op[w].snap < op[o].snap => w \in op[o].behind)
      BY <1>4, <2>1, <2>4 DEF CalmLine
    <3>2. w \notin op[o].behind
      BY <1>4, <2>4 DEF LineInv, ShapeInv, UnderWay
    <3> QED
      BY <1>3, <3>1, <3>2
  <2>5. CalmLine'
    BY <1>1, <1>3, <2>1, <2>2, <2>4 DEF CalmLine, UnderWay
  <2>6. past.lost = memory \/ redis' = memory
        \/ \E v \in Op \ {o} : UnderWay(v)' /\ op'[v].snap = memory
    BY <1>1, <1>3, <1>4, <2>1 DEF NewestNotForgotten, UnderWay
  <2>7. redis' = memory => \A w \in Op : ~UnderWay(w)'
    BY <1>3, <2>2, <2>3, <2>4
  <2>8. RepliesAreTrue'
    BY <1>1, <1>4, <2>1 DEF RepliesAreTrue, CalmLine, LineInv, ShapeInv
  <2> QED
    BY <1>3, <2>3, <2>5, <2>6, <2>7, <2>8 DEF NewestNotForgotten, StoresAgree
<1> QED
  BY <1>2, <1>3, <1>5 DEF Calm

(* A get is served, and its reply reaches memory while no write is under way. *)
LEMMA GetIsCalm ==
    ASSUME LineInv, NEW o \in Op, GetServed(o) \/ ReplyArrives(o)
    PROVE  ShapeInv' /\ Calm'
<1>1. /\ op[o].pc # "free" /\ op[o].kind # "write" /\ UNCHANGED <<redis, written, past>>
      /\ \A u \in Op \ {o} :
            op'[u].pc = op[u].pc /\ op'[u].kind = op[u].kind /\ op'[u].snap = op[u].snap
      /\ op'[o].kind # "write"
      /\ op'[o].pc = "reply" => op'[o].snap = redis
      /\ memory' # memory => op[o].pc = "reply" /\ op[o].snap # None /\ memory' = op[o].snap
  <2>1. CASE GetServed(o)
    BY <2>1 DEF GetServed, ItsTurn, LineInv, StoreTypeOK, processVars
  <2>2. CASE ReplyArrives(o)
    BY <2>2, FinishedFacts DEF ReplyArrives, GiveUp, LineInv, ShapeInv, Free, Begun, processVars
  <2> QED
    BY <2>1, <2>2
<1>2. ShapeInv'
  BY <1>1 DEF LineInv, ShapeInv
<1>3. ASSUME ~past.contended
      PROVE  CalmLine' /\ NewestNotForgotten' /\ RepliesAreTrue' /\ StoresAgree'
  <2>1. CalmLine /\ NewestNotForgotten /\ RepliesAreTrue /\ StoresAgree
    BY <1>3 DEF LineInv, Calm
  <2>2. \A w \in Op : ~UnderWay(w)
    BY <1>1, <2>1 DEF CalmLine
  <2>3. \A w \in Op : ~UnderWay(w)'
    BY <1>1, <2>2 DEF UnderWay
  <2>4. RepliesAreTrue'
    BY <1>1, <2>1 DEF RepliesAreTrue
  <2>5. StoresAgree'
    BY <1>1, <2>1, <2>2, <2>3 DEF StoresAgree, RepliesAreTrue
  <2> QED
    BY <2>3, <2>4, <2>5 DEF CalmLine, NewestNotForgotten
<1> QED
  BY <1>1, <1>2, <1>3 DEF Calm

(* Every step keeps the line, and takes Redis back only under contention.   *)
LEMMA LineStep ==
    ASSUME LineInv, [Next]_vars
    PROVE  ShapeInv' /\ Calm' /\ (redis' # None /\ redis' < redis => past.contended)
<1>1. redis \in 0 .. written /\ written \in Nat /\ memory \in 0 .. written
  BY DEF LineInv, StoreTypeOK
<1>2. ASSUME NEW o \in Op, ConnectRejects(o) \/ PollGivesUp(o) \/ CommandFails(o)
      PROVE  ShapeInv' /\ Calm' /\ redis' = redis
  BY <1>2, GivingUpIsCalm DEF ConnectRejects, PollGivesUp, CommandFails, processVars
<1>3. ASSUME NEW o \in Op, ConnectSucceeds(o) \/ PollSeesClient(o)
      PROVE  ShapeInv' /\ Calm' /\ redis' = redis
  BY <1>3, SendingIsCalm DEF ConnectSucceeds, PollSeesClient
<1>4. ASSUME NEW o \in Op, SetServed(o)
      PROVE  ShapeInv' /\ Calm' /\ (~past.contended => redis < redis' /\ redis' \in Nat)
  BY <1>4, SetIsCalm
<1>5. ASSUME NEW o \in Op, GetServed(o) \/ ReplyArrives(o)
      PROVE  ShapeInv' /\ Calm' /\ redis' = redis
  BY <1>5, GetIsCalm DEF GetServed, ReplyArrives
<1>6. ASSUME NEW o \in Op, WriteSnapshot(o) \/ ReadCold(o)
      PROVE  ShapeInv' /\ Calm' /\ redis' = redis
  BY <1>6, WritingIsCalm, ReadingIsCalm DEF WriteSnapshot, ReadCold
<1>7. ASSUME NEW o \in Op, ConnectEmitsError(o)
      PROVE  ShapeInv' /\ Calm' /\ redis' = redis
  BY <1>7 DEF ConnectEmitsError, LineInv, ShapeInv, Calm, CalmLine, NewestNotForgotten,
              RepliesAreTrue, StoresAgree, UnderWay, processVars
<1>8. CASE RedisExpires
  <2>1. /\ past'.expired /\ past'.contended = past.contended /\ past'.lost = past.lost
        /\ UNCHANGED <<op, memory, written>> /\ redis' = 0
    BY <1>8 DEF RedisExpires, LineInv, StoreTypeOK, processVars
  <2>2. CalmLine => CalmLine'
    <3>1. \A w \in Op : op[w].snap \in 0 .. written
      BY DEF LineInv, StoreTypeOK
    <3> QED
      BY <1>1, <2>1, <3>1 DEF CalmLine, UnderWay
  <2> QED
    BY <2>1, <2>2 DEF LineInv, ShapeInv, Calm, NewestNotForgotten, RepliesAreTrue, StoresAgree, UnderWay
<1>9. CASE Crash
  <2>1. /\ memory' = 0 /\ redis' = redis
        /\ \A u \in Op : op'[u].pc \in {"free", "connect"} /\ op'[u].kind # "write"
    BY <1>9 DEF Crash, Free, Begun
  <2> QED
    BY <1>1, <2>1 DEF ShapeInv, Calm, CalmLine, NewestNotForgotten, RepliesAreTrue, StoresAgree, UnderWay
<1>10. CASE ReadWarm \/ UNCHANGED vars
  <2>1. UNCHANGED <<redis, memory, op, written, past>>
    BY <1>10 DEF ReadWarm, vars
  <2> QED
    BY <1>1, <2>1 DEF LineInv, ShapeInv, Calm, CalmLine, NewestNotForgotten, RepliesAreTrue,
                      StoresAgree, UnderWay
<1>11. CASE \E o \in Op : OpStep(o)
  BY <1>1, <1>2, <1>3, <1>4, <1>5, <1>11 DEF OpStep
<1> QED
  BY <1>1, <1>6, <1>7, <1>8, <1>9, <1>10, <1>11 DEF Next

(* So the line is kept throughout.                                          *)
LEMMA LineInvariant == Spec => []LineInv
<1>1. Init => LineInv
  <2> SUFFICES ASSUME Init
               PROVE  LineInv
    OBVIOUS
  <2>1. \A u \in Op : op[u].pc \in {"free", "connect"} /\ op[u].kind # "write"
    BY DEF Init, Free, Begun
  <2>2. StoreTypeOK
    <3>1. Free \in OpRecord(0) /\ Begun("restore", None, "connect") \in OpRecord(0)
      BY DEF Free, Begun, OpRecord
    <3>2. op \in [Op -> OpRecord(0)] /\ written = 0
      BY <3>1 DEF Init
    <3>3. 0 \in 0 .. MaxWrites /\ 0 \in 0 .. MaxCrashes
      BY StoreAssumption
    <3>4. past \in [contended : BOOLEAN, lost : 0 .. 0, expired : BOOLEAN]
      BY DEF Init, NoPast
    <3>5. ready \in BOOLEAN /\ connecting \in BOOLEAN /\ connectError \in BOOLEAN /\ booted \in BOOLEAN
      BY DEF Init
    <3>6. redis = 0 /\ memory = 0 /\ crashes = 0
      BY DEF Init
    <3> QED
      BY <3>2, <3>3, <3>4, <3>5, <3>6 DEF StoreTypeOK, OpRecord
  <2> QED
    BY <2>1, <2>2 DEF Init, LineInv, ShapeInv, Calm, CalmLine, NewestNotForgotten, RepliesAreTrue,
                      StoresAgree, UnderWay
<1>2. LineInv /\ [Next]_vars => LineInv'
  BY StoreTypeStep, LineStep DEF LineInv
<1> QED
  BY <1>1, <1>2, PTL DEF Spec

(* Memory and Redis part only by a set that is under way, failed, or expired, *)
(* unless the newest write began beside a call that can come in between.    *)
THEOREM StoreInvariant == Spec => []StoreInv
<1>1. LineInv => StoreInv
  <2>1. CASE past.contended
    BY <2>1 DEF LineInv, StoreInv, StoresAgree
  <2>2. CASE ~past.contended
    BY <2>2 DEF LineInv, StoreInv, Calm
  <2> QED
    BY <2>1, <2>2
<1> QED
  BY <1>1, LineInvariant, PTL

(* Snapshots reach Redis in the order they were written, whatever sets fail  *)
(* and however clients come and go, while no write began beside such a call. *)
THEOREM WritesInOrder == Spec => WarmWritesInOrder
<1>1. LineInv /\ [Next]_vars => (redis' # None /\ redis' < redis => past.contended)
  BY LineStep
<1> QED
  BY <1>1, LineInvariant, PTL DEF Spec, WarmWritesInOrder

-----------------------------------------------------------------------------
(* Least members and sorted sets.                                           *)

\* The order of the natural numbers as a relation.
Less == {ss \in Nat \X Nat : ss[1] < ss[2]}

(* A set of natural numbers that is not empty has a least member.           *)
LEMMA LeastMember ==
    ASSUME NEW T \in SUBSET Nat, T # {}
    PROVE  \E m \in T : \A n \in T : m <= n
<1>1. IsWellFoundedOn(Less, Nat)
  BY NatLessThanWellFounded DEF OpToRel, Less
<1>2. PICK m \in T : \A n \in T : <<n, m>> \notin Less
  BY <1>1, WFMin
<1>3. \A n \in T : ~(n < m)
  BY <1>2 DEF Less
<1>4. \A n \in T : n \in Nat /\ m \in Nat
  OBVIOUS
<1> QED
  BY <1>3, <1>4

(* So that the least member of the set is what Min returns.                 *)
LEMMA MinOfSet ==
    ASSUME NEW T \in SUBSET Nat, T # {}
    PROVE  Min(T) \in T /\ \A n \in T : Min(T) <= n
BY LeastMember DEF Min

(* A set of the first natural numbers has a number of members.              *)
LEMMA SmallIsFinite ==
    ASSUME NEW k \in Nat, NEW S \in SUBSET (1 .. k)
    PROVE  IsFiniteSet(S) /\ Cardinality(S) \in Nat
<1>1. IsFiniteSet(1 .. k)
  BY FS_Interval
<1>2. IsFiniteSet(S)
  BY <1>1, FS_Subset
<1> QED
  BY <1>2, FS_CardinalityType

(* Sorted as a sequence s, for a set S of natural numbers.                  *)
Sorts(s, S) ==
    /\ s \in [1 .. Cardinality(S) -> S]
    /\ Range(s) = S
    /\ \A i, j \in DOMAIN s : i < j => s[i] < s[j]

(* Every set of the first natural numbers can be sorted: the least bound    *)
(* for which this failed would be the greatest member of the set, and the   *)
(* rest of the set could be sorted before it.                               *)
LEMMA CanSort ==
    ASSUME NEW k \in Nat, NEW S \in SUBSET (1 .. k)
    PROVE  \E s : Sorts(s, S)
<1> DEFINE Bad == {n \in Nat : \E T \in SUBSET (1 .. n) : \A s : ~Sorts(s, T)}
<1> SUFFICES ASSUME Bad # {}
             PROVE  FALSE
  OBVIOUS
<1>1. PICK n \in Bad : \A m \in Bad : n <= m
  BY LeastMember
<1>2. PICK T \in SUBSET (1 .. n) : \A s : ~Sorts(s, T)
  OBVIOUS
<1>3. n \in Nat
  OBVIOUS
<1>4. IsFiniteSet(T) /\ Cardinality(T) \in Nat
  BY <1>3, SmallIsFinite
<1>5. T # {}
  <2> SUFFICES ASSUME T = {}
               PROVE  Sorts([i \in {} |-> 0], {})
    BY <1>2
  <2>1. Cardinality({}) = 0 /\ 1 .. 0 = {}
    BY FS_EmptySet
  <2> QED
    BY <2>1 DEF Sorts, Range
<1>6. n # 0 /\ n - 1 \in Nat
  <2> HIDE DEF Bad
  <2>1. n = 0 => 1 .. n = {}
    BY <1>3
  <2>2. n # 0
    BY <1>5, <2>1
  <2> QED
    BY <1>3, <2>2
<1>7. n - 1 \notin Bad
  BY <1>1, <1>3, <1>6
<1>8. ASSUME n \notin T
      PROVE  FALSE
  <2>1. T \in SUBSET (1 .. n - 1)
    BY <1>3, <1>8
  <2> QED
    BY <1>2, <1>6, <1>7, <2>1
<1>9. n \in T
  BY <1>8
<1>10. T \ {n} \in SUBSET (1 .. n - 1)
  BY <1>3
<1>11. PICK r : Sorts(r, T \ {n})
  BY <1>6, <1>7, <1>10
<1> DEFINE c == Cardinality(T)
           s == [i \in 1 .. c |-> IF i = c THEN n ELSE r[i]]
<1>12. c \in Nat /\ c # 0 /\ Cardinality(T \ {n}) = c - 1
  BY <1>4, <1>5, <1>9, FS_RemoveElement, FS_EmptySet
<1>13. /\ DOMAIN r = 1 .. c - 1
       /\ \A i \in 1 .. c - 1 : r[i] \in T /\ r[i] \in 1 .. n - 1
       /\ \A t \in T \ {n} : \E i \in 1 .. c - 1 : r[i] = t
       /\ \A i, j \in 1 .. c - 1 : i < j => r[i] < r[j]
  BY <1>10, <1>11, <1>12 DEF Sorts, Range
<1> HIDE DEF c
<1>14. s \in [1 .. c -> T]
  BY <1>9, <1>12, <1>13
<1>15. \A i, j \in 1 .. c : i < j => s[i] < s[j]
  BY <1>3, <1>12, <1>13
<1>16. \A t \in T : \E i \in 1 .. c : s[i] = t
  <2> SUFFICES ASSUME NEW t \in T
               PROVE  \E i \in 1 .. c : s[i] = t
    OBVIOUS
  <2>1. CASE t = n
    BY <1>12, <2>1
  <2>2. CASE t # n
    BY <1>12, <1>13, <2>2
  <2> QED
    BY <2>1, <2>2
<1>17. Range(s) = T
  BY <1>14, <1>16 DEF Range
<1>18. Sorts(s, T)
  BY <1>14, <1>15, <1>17 DEF Sorts, c
<1> QED
  BY <1>2, <1>18

(* What Ascending returns: every member of the set, and each of them once.  *)
LEMMA AscendingSorts ==
    ASSUME NEW k \in Nat, NEW S \in SUBSET (1 .. k)
    PROVE  /\ Ascending(S) \in Seq(S) /\ Range(Ascending(S)) = S
           /\ IsInjective(Ascending(S))
<1>1. PICK t : Sorts(t, S)
  BY CanSort
<1>2. Sorts(Ascending(S), S)
  BY <1>1 DEF Ascending, Sorts
<1>3. IsFiniteSet(S) /\ Cardinality(S) \in Nat
  BY SmallIsFinite
<1>4. Ascending(S) \in Seq(S) /\ Range(Ascending(S)) = S
  BY <1>2, <1>3, SeqDef DEF Sorts
<1>5. IsInjective(Ascending(S))
  <2> DEFINE a == Ascending(S)
  <2>1. /\ DOMAIN a = 1 .. Cardinality(S)
        /\ \A i, j \in DOMAIN a : i < j => a[i] < a[j]
        /\ \A i \in DOMAIN a : a[i] \in 1 .. k
    BY <1>2 DEF Sorts
  <2> HIDE DEF a
  <2>2. \A i, j \in DOMAIN a : a[i] = a[j] => i = j
    BY <1>3, <2>1
  <2> QED
    BY <2>2 DEF IsInjective, a
<1> QED
  BY <1>4, <1>5

-----------------------------------------------------------------------------
(* What eviction and the hard limit leave.                                  *)

(* The end of a sequence from m on.                                         *)
From(q, m) == SubSeq(q, m, Len(q))

(* It keeps the members from there on, and repeats nothing anew.            *)
LEMMA FromKeeps ==
    ASSUME NEW S, NEW q \in Seq(S), NEW m \in 1 .. Len(q) + 1
    PROVE  /\ From(q, m) \in Seq(S) /\ Len(From(q, m)) = Len(q) - m + 1
           /\ \A x : x \in Range(From(q, m)) <=> \E i \in m .. Len(q) : q[i] = x
           /\ Once(q) => Once(From(q, m))
<1> DEFINE r == From(q, m)
<1>1. Len(q) \in Nat /\ DOMAIN q = 1 .. Len(q) /\ \A i \in 1 .. Len(q) : q[i] \in S
  BY LenProperties, ElementOfSeq
<1>2. /\ r \in Seq(S)
      /\ Len(r) = IF m <= Len(q) THEN Len(q) - m + 1 ELSE 0
      /\ \A i \in 1 .. Len(q) - m + 1 : r[i] = q[m + i - 1]
  BY <1>1, SubSeqProperties DEF From
<1> HIDE DEF r
<1>3. Len(r) = Len(q) - m + 1 /\ DOMAIN r = 1 .. Len(q) - m + 1
  BY <1>1, <1>2, LenProperties
<1>4. \A x : x \in Range(r) <=> \E i \in m .. Len(q) : q[i] = x
  <2> SUFFICES ASSUME NEW x
               PROVE  (\E i \in 1 .. Len(q) - m + 1 : r[i] = x) <=> \E i \in m .. Len(q) : q[i] = x
    BY <1>3 DEF Range
  <2>1. ASSUME NEW i \in 1 .. Len(q) - m + 1
        PROVE  m + i - 1 \in m .. Len(q) /\ q[m + i - 1] = r[i]
    BY <1>1, <1>2
  <2>2. ASSUME NEW i \in m .. Len(q)
        PROVE  i - m + 1 \in 1 .. Len(q) - m + 1 /\ r[i - m + 1] = q[i]
    <3>1. i - m + 1 \in 1 .. Len(q) - m + 1 /\ m + (i - m + 1) - 1 = i
      BY <1>1
    <3> QED
      BY <1>2, <3>1
  <2> QED
    BY <2>1, <2>2
<1>5. ASSUME Once(q)
      PROVE  Once(r)
  <2> SUFFICES ASSUME NEW i \in 1 .. Len(q) - m + 1, NEW j \in 1 .. Len(q) - m + 1, r[i] = r[j],
                      r[i] \notin Nameless
               PROVE  i = j
    BY <1>3 DEF Once
  <2>1. /\ m + i - 1 \in DOMAIN q /\ m + j - 1 \in DOMAIN q /\ q[m + i - 1] = q[m + j - 1]
        /\ q[m + i - 1] \notin Nameless
    BY <1>1, <1>2
  <2>2. m + i - 1 = m + j - 1
    BY <1>5, <2>1 DEF Once
  <2> QED
    BY <1>1, <2>2
<1> QED
  BY <1>2, <1>3, <1>4, <1>5 DEF r

(* Eviction takes the head, and no trade that is not too old.               *)
LEMMA EvictedIsEnd ==
    ASSUME NEW S, NEW q \in Seq(S)
    PROVE  \E m \in 1 .. Len(q) + 1 :
              /\ Evicted(q) = From(q, m)
              /\ \A i \in DOMAIN q : Age(q[i]) <= MaxAge => m <= i
<1> DEFINE young == {i \in DOMAIN q : Age(q[i]) <= MaxAge}
<1>1. Len(q) \in Nat /\ DOMAIN q = 1 .. Len(q)
  BY LenProperties
<1>2. CASE young = {}
  <2>1. From(q, Len(q) + 1) = <<>>
    BY <1>1, SubSeqEmpty DEF From
  <2> QED
    BY <1>1, <1>2, <2>1 DEF Evicted
<1>3. CASE young # {}
  <2>1. young \in SUBSET Nat
    BY <1>1
  <2>2. Min(young) \in young /\ \A i \in young : Min(young) <= i
    <3> HIDE DEF young
    <3> QED
      BY <1>3, <2>1, MinOfSet
  <2>3. Evicted(q) = From(q, Min(young))
    BY <1>3 DEF Evicted, From
  <2> DEFINE m == Min(young)
  <2>4. m \in 1 .. Len(q) + 1 /\ \A i \in DOMAIN q : Age(q[i]) <= MaxAge => m <= i
    BY <1>1, <2>2
  <2>5. Evicted(q) = From(q, m)
    BY <2>3
  <2> HIDE DEF m
  <2> QED
    BY <2>4, <2>5
<1> QED
  BY <1>2, <1>3

(* The hard limit takes the head only where it leaves the queue full.       *)
LEMMA CappedIsEnd ==
    ASSUME NEW S, NEW q \in Seq(S)
    PROVE  \E m \in 1 .. Len(q) + 1 :
              /\ Capped(q) = From(q, m)
              /\ Len(q) - m + 1 <= MaxSize
              /\ m = 1 \/ Len(q) - m + 1 = MaxSize
<1>1. Len(q) \in Nat /\ MaxSize \in Nat \ {0}
  BY LenProperties, QueueAssumption
<1>2. CASE Len(q) > MaxSize
  <2> DEFINE m == Len(q) - MaxSize + 1
  <2>1. Capped(q) = From(q, m)
    BY <1>2 DEF Capped, From
  <2>2. m \in 1 .. Len(q) + 1 /\ Len(q) - m + 1 = MaxSize
    BY <1>1, <1>2
  <2> HIDE DEF m
  <2> QED
    BY <1>1, <2>1, <2>2
<1>3. CASE ~(Len(q) > MaxSize)
  BY <1>1, <1>3, SubSeqFull DEF Capped, From
<1> QED
  BY <1>2, <1>3

(* A queue that was appended to and cut: trades with an id in it once, each *)
(* of them from the queue or from what was appended; and who is missing was *)
(* too old or the queue is full.                                            *)
LEMMA CutKeeps ==
    ASSUME NEW S, NEW q \in Seq(S), NEW n \in Seq(S),
           Once(q), Once(n), Range(q) \intersect Range(n) \subseteq Nameless
    PROVE  LET r == Capped(Evicted(q \o n))
           IN  /\ r \in Seq(S) /\ Len(r) <= MaxSize /\ Once(r)
               /\ Range(r) \subseteq Range(q) \cup Range(n)
               /\ \A x \in Range(q) : Age(x) <= MaxAge /\ x \notin Range(r) => Len(r) = MaxSize
<1> DEFINE w == q \o n
           e == Evicted(w)
           r == Capped(e)
<1>1. /\ Len(q) \in Nat /\ DOMAIN q = 1 .. Len(q) /\ Len(n) \in Nat /\ DOMAIN n = 1 .. Len(n)
      /\ w \in Seq(S) /\ Len(w) = Len(q) + Len(n) /\ DOMAIN w = 1 .. Len(q) + Len(n)
      /\ \A i \in 1 .. Len(q) + Len(n) : w[i] = IF i <= Len(q) THEN q[i] ELSE n[i - Len(q)]
  BY LenProperties, ConcatProperties
<1>2. Range(w) \subseteq Range(q) \cup Range(n) /\ Range(q) \subseteq Range(w)
  <2> HIDE DEF w
  <2>1. ASSUME NEW i \in 1 .. Len(q) + Len(n)
        PROVE  w[i] \in Range(q) \cup Range(n)
    <3>1. CASE i <= Len(q)
      BY <1>1, <3>1 DEF Range
    <3>2. CASE ~(i <= Len(q))
      <4>1. i - Len(q) \in DOMAIN n /\ w[i] = n[i - Len(q)]
        BY <1>1, <3>2
      <4> QED
        BY <4>1 DEF Range
    <3> QED
      BY <3>1, <3>2
  <2>2. ASSUME NEW i \in 1 .. Len(q)
        PROVE  i \in DOMAIN w /\ q[i] = w[i]
    BY <1>1
  <2> QED
    BY <1>1, <2>1, <2>2 DEF Range
<1>3. Once(w)
  <2> HIDE DEF w
  <2> SUFFICES ASSUME NEW i \in DOMAIN w, NEW j \in DOMAIN w, w[i] = w[j], w[i] \notin Nameless
               PROVE  i = j
    BY DEF Once
  <2>1. CASE i <= Len(q) /\ j <= Len(q)
    BY <1>1, <2>1 DEF Once
  <2>2. CASE ~(i <= Len(q)) /\ ~(j <= Len(q))
    <3>1. /\ i - Len(q) \in DOMAIN n /\ j - Len(q) \in DOMAIN n
          /\ n[i - Len(q)] = n[j - Len(q)] /\ n[i - Len(q)] \notin Nameless
      BY <1>1, <2>2
    <3>2. i - Len(q) = j - Len(q)
      BY <3>1 DEF Once
    <3> QED
      BY <1>1, <3>2
  <2>3. ASSUME NEW a \in DOMAIN w, NEW b \in DOMAIN w, a <= Len(q), ~(b <= Len(q)),
               w[a] \notin Nameless
        PROVE  w[a] # w[b]
    <3>1. a \in DOMAIN q /\ w[a] = q[a] /\ b - Len(q) \in DOMAIN n /\ w[b] = n[b - Len(q)]
      BY <1>1, <2>3
    <3>2. w[a] \in Range(q) /\ w[b] \in Range(n)
      BY <3>1 DEF Range
    <3> QED
      BY <2>3, <3>2
  <2> QED
    BY <2>1, <2>2, <2>3
<1> HIDE DEF w
<1>4. PICK m \in 1 .. Len(w) + 1 :
         /\ e = From(w, m)
         /\ \A i \in DOMAIN w : Age(w[i]) <= MaxAge => m <= i
  BY <1>1, EvictedIsEnd
<1>5. /\ e \in Seq(S)
      /\ \A x : x \in Range(e) <=> \E i \in m .. Len(w) : w[i] = x
      /\ Once(e)
  <2> HIDE DEF e
  <2>1. /\ From(w, m) \in Seq(S)
        /\ \A x : x \in Range(From(w, m)) <=> \E i \in m .. Len(w) : w[i] = x
        /\ Once(From(w, m))
    BY <1>1, <1>3, FromKeeps
  <2> QED
    BY <1>4, <2>1
<1>6. Range(e) \subseteq Range(w) /\ \A x \in Range(w) : Age(x) <= MaxAge => x \in Range(e)
  <2>1. \A x : x \in Range(w) <=> \E i \in 1 .. Len(w) : w[i] = x
    BY <1>1 DEF Range
  <2>2. \A i \in m .. Len(w) : i \in 1 .. Len(w)
    BY <1>1
  <2>3. \A i \in 1 .. Len(w) : Age(w[i]) <= MaxAge => i \in m .. Len(w)
    BY <1>1, <1>4
  <2> QED
    BY <1>5, <2>1, <2>2, <2>3
<1> HIDE DEF e
<1>7. PICK k \in 1 .. Len(e) + 1 :
         /\ r = From(e, k)
         /\ Len(e) - k + 1 <= MaxSize
         /\ k = 1 \/ Len(e) - k + 1 = MaxSize
  BY <1>5, CappedIsEnd
<1>8. /\ r \in Seq(S) /\ Len(r) = Len(e) - k + 1 /\ Once(r)
      /\ \A x : x \in Range(r) <=> \E i \in k .. Len(e) : e[i] = x
  BY <1>5, <1>7, FromKeeps
<1>9. /\ Range(r) \subseteq Range(e)
      /\ k = 1 => Range(e) \subseteq Range(r)
  <2>1. Len(e) \in Nat /\ \A x : x \in Range(e) <=> \E i \in 1 .. Len(e) : e[i] = x
    BY <1>5, LenProperties DEF Range
  <2>2. \A i \in k .. Len(e) : i \in 1 .. Len(e)
    BY <2>1
  <2> QED
    BY <1>8, <2>1, <2>2
<1> HIDE DEF r
<1>10. \A x \in Range(q) : Age(x) <= MaxAge /\ x \notin Range(r) => Len(r) = MaxSize
  BY <1>2, <1>6, <1>7, <1>8, <1>9
<1>11. r \in Seq(S) /\ Len(r) <= MaxSize /\ Once(r) /\ Range(r) \subseteq Range(q) \cup Range(n)
  BY <1>2, <1>6, <1>7, <1>8, <1>9
<1> QED
  BY <1>10, <1>11 DEF r, e, w

-----------------------------------------------------------------------------
(* The queue.                                                               *)

(* The queue starts empty, and remembers nothing.                           *)
LEMMA QueueInitially == QueueInit => QueueInv
<1> SUFFICES ASSUME QueueInit PROVE QueueInv
  OBVIOUS
<1>1. /\ DOMAIN tape = {} /\ Range(queue) = {} /\ Len(tape) = 0 /\ Len(queue) = 0
      /\ DOMAIN queue = {}
  BY DEF QueueInit, Range
<1>2. TypeOK
  BY <1>1, QueueAssumption DEF QueueInit, TypeOK, Trade
<1>3. Remembers
  BY <1>1 DEF QueueInit, Remembers, Trade
<1>4. NoTradeTwice
  BY <1>1 DEF NoTradeTwice, Once
<1> QED
  BY <1>2, <1>3, <1>4 DEF QueueInv

(* A page is appended: what it brings is new to the queue, because a trade  *)
(* of the queue that is not remembered is too old, and what stays of the    *)
(* queue stays remembered as long as it could be appended once more.        *)
LEMMA AppendStep ==
    ASSUME QueueInv, NEW p \in Poller, AppendPage(p)
    PROVE  /\ QueueInv'
           /\ \A id \in Range(queue) :
                 Age(id) <= MaxAge /\ id \notin Range(queue') => Len(queue') = MaxSize
<1> DEFINE S == {id \in page[p] : seen[id] = Never /\ Age(id) <= MaxAge}
           new == Fresh(page[p])
<1>1. S \in SUBSET (1 .. MaxTrades) /\ MaxTrades \in Nat
  BY QueueAssumption DEF QueueInv, TypeOK, Trade
<1>2. new = Ascending(S)
  BY DEF Fresh
<1> HIDE DEF S
<1>3. new \in Seq(S) /\ Range(new) = S /\ IsInjective(new)
  BY <1>1, <1>2, AscendingSorts
<1> HIDE DEF new
<1>4. queue \in Seq(Trade) /\ new \in Seq(Trade)
  BY <1>1, <1>3, SeqMonotonic DEF QueueInv, TypeOK, Trade
<1>8. /\ now \in 1 .. MaxTime /\ seen \in [Trade -> 0 .. MaxTime] /\ MaxAge \in Int
      /\ tape \in Seq(1 .. MaxTime) /\ page \in [Poller -> SUBSET Trade]
      /\ DOMAIN tape = 1 .. Len(tape) /\ Len(tape) \in Nat
      /\ \A id \in DOMAIN tape : tape[id] \in Int /\ Age(id) \in Int
  <2>1. tape \in Seq(1 .. MaxTime) /\ now \in Int
    BY DEF QueueInv, TypeOK
  <2>2. DOMAIN tape = 1 .. Len(tape) /\ Len(tape) \in Nat
    BY <2>1, LenProperties
  <2>3. \A id \in DOMAIN tape : tape[id] \in 1 .. MaxTime
    BY <2>1, <2>2, ElementOfSeq
  <2>4. \A id \in DOMAIN tape : tape[id] \in Int /\ Age(id) \in Int
    BY <2>1, <2>3 DEF Age
  <2> QED
    BY <2>2, <2>4, QueueAssumption DEF QueueInv, TypeOK
<1>5. Range(queue) \intersect Range(new) \subseteq Nameless
  BY <1>3, <1>8 DEF S, QueueInv, Remembers
<1>6. queue' = Capped(Evicted(queue \o new)) /\ seen' = Remembered(new)
      /\ UNCHANGED <<now, tape, page>>
  BY DEF AppendPage, new
<1>7. /\ queue' \in Seq(Trade) /\ Len(queue') <= MaxSize /\ Once(queue')
      /\ Range(queue') \subseteq Range(queue) \cup S
      /\ \A id \in Range(queue) :
            Age(id) <= MaxAge /\ id \notin Range(queue') => Len(queue') = MaxSize
  BY <1>3, <1>4, <1>5, <1>6, CutKeeps DEF QueueInv, NoTradeTwice, Once, IsInjective
<1>9. TypeOK'
  BY <1>3, <1>6, <1>7, <1>8, QueueAssumption DEF QueueInv, TypeOK, Remembered
<1>10. \A id \in S : id \in Trade /\ id \in DOMAIN tape
  BY <1>1 DEF S, QueueInv, Remembers, Trade
<1>11. \A id \in Trade : seen'[id] = IF id \in S \ Nameless THEN now
                                    ELSE IF seen[id] # 0 /\ now - seen[id] <= SeenTtl THEN seen[id] ELSE 0
  BY <1>3, <1>6 DEF Remembered
<1>12. ASSUME NEW id \in Range(queue')
       PROVE  id \in DOMAIN tape /\ (seen'[id] # 0 \/ Age(id) > MaxAge \/ id \in Nameless)
  <2>1. id \in Trade
    BY <1>7, RangeOfSeq
  <2>2. CASE id \in S
    BY <1>8, <1>10, <1>11, <2>1, <2>2
  <2>3. CASE id \in Range(queue) /\ id \notin S
    <3>1. id \in DOMAIN tape /\ (seen[id] # 0 \/ Age(id) > MaxAge \/ id \in Nameless)
      BY <2>3 DEF QueueInv, Remembers
    <3>2. CASE seen[id] # 0 /\ ~(Age(id) > MaxAge)
      <4>1. tape[id] <= seen[id] /\ seen[id] \in Int /\ tape[id] \in Int
        BY <1>8, <2>1, <3>1, <3>2 DEF QueueInv, Remembers
      <4>2. now - seen[id] <= SeenTtl
        BY <1>8, <3>2, <4>1, QueueAssumption DEF Age
      <4> QED
        BY <1>11, <2>1, <2>3, <3>1, <3>2, <4>2
    <3> QED
      BY <3>1, <3>2
  <2> QED
    BY <1>7, <2>2, <2>3
<1>13. Remembers'
  <2>1. \A q \in Poller : page[q] \subseteq DOMAIN tape
    BY DEF QueueInv, Remembers
  <2>2. \A id \in DOMAIN tape : tape[id] <= now
    BY DEF QueueInv, Remembers
  <2>3. \A id \in Trade : seen'[id] # 0 =>
           id \in DOMAIN tape /\ tape[id] <= seen'[id] /\ seen'[id] <= now
    <3> SUFFICES ASSUME NEW id \in Trade, seen'[id] # 0
                 PROVE  id \in DOMAIN tape /\ tape[id] <= seen'[id] /\ seen'[id] <= now
      OBVIOUS
    <3>1. CASE id \in S \ Nameless
      BY <1>8, <1>10, <1>11, <2>2, <3>1
    <3>2. CASE id \notin S \ Nameless
      BY <1>11, <3>2 DEF QueueInv, Remembers
    <3> QED
      BY <3>1, <3>2
  <2>4. \A id \in Nameless \cap Trade : seen'[id] = 0
    BY <1>11 DEF QueueInv, Remembers
  <2>5. \A id \in Range(queue') : (Age(id) > MaxAge) = (Age(id) > MaxAge)'
    BY <1>6 DEF Age
  <2> QED
    BY <1>6, <1>12, <2>1, <2>2, <2>3, <2>4, <2>5 DEF Remembers, Age
<1> QED
  BY <1>7, <1>9, <1>13 DEF QueueInv, NoTradeTwice, Once

(* A trade that executes is later than all before it.                       *)
LEMMA ExecuteStep == QueueInv /\ Execute => QueueInv'
<1> SUFFICES ASSUME QueueInv, Execute
             PROVE  QueueInv'
  OBVIOUS
<1>1. /\ tape \in Seq(1 .. MaxTime) /\ now \in 1 .. MaxTime /\ Len(tape) < MaxTrades
      /\ tape' = Append(tape, now)
      /\ UNCHANGED <<now, page, queue, seen>>
  BY DEF QueueInv, TypeOK, Execute
<1>2. /\ Len(tape) \in Nat /\ DOMAIN tape = 1 .. Len(tape)
      /\ tape' \in Seq(1 .. MaxTime) /\ Len(tape') = Len(tape) + 1
      /\ \A i \in 1 .. Len(tape) : tape'[i] = tape[i]
      /\ tape'[Len(tape) + 1] = now
  BY <1>1, LenProperties, AppendProperties
<1>3. DOMAIN tape' = 1 .. Len(tape) + 1
  BY <1>2, LenProperties
<1>4. TypeOK'
  BY <1>1, <1>2, QueueAssumption DEF QueueInv, TypeOK
<1>5. Remembers'
  <2>1. \A id \in DOMAIN tape : id \in DOMAIN tape' /\ tape'[id] = tape[id]
    BY <1>2, <1>3
  <2>2. \A id \in DOMAIN tape' : tape'[id] <= now
    <3> SUFFICES ASSUME NEW id \in 1 .. Len(tape) + 1
                 PROVE  tape'[id] <= now
      BY <1>3
    <3>1. CASE id = Len(tape) + 1
      BY <1>1, <1>2, <3>1
    <3>2. CASE id # Len(tape) + 1
      <4>1. id \in DOMAIN tape
        BY <1>2, <3>2
      <4> QED
        BY <2>1, <4>1 DEF QueueInv, Remembers
    <3> QED
      BY <3>1, <3>2
  <2>3. \A id \in DOMAIN tape : Age(id)' = Age(id)
    BY <1>1, <2>1 DEF Age
  <2> QED
    BY <1>1, <2>1, <2>2, <2>3 DEF QueueInv, Remembers
<1> QED
  BY <1>1, <1>4, <1>5 DEF QueueInv, NoTradeTwice, Once

(* The clock, the pages and a restart.                                      *)
LEMMA OtherStep ==
    ASSUME QueueInv, Tick \/ (\E p \in Poller : Fetch(p)) \/ Restart \/ UNCHANGED queueVars
    PROVE  QueueInv'
<1>1. /\ now \in 1 .. MaxTime /\ seen \in [Trade -> 0 .. MaxTime]
      /\ tape \in Seq(1 .. MaxTime) /\ Len(tape) <= MaxTrades /\ page \in [Poller -> SUBSET Trade]
      /\ queue \in Seq(Trade) /\ Len(queue) <= MaxSize
      /\ PageSize \in Int /\ MaxTrades \in Nat /\ MaxTime \in Nat /\ MaxAge \in Nat /\ MaxSize \in Nat
  BY QueueAssumption DEF QueueInv, TypeOK
<1>2. DOMAIN tape = 1 .. Len(tape) /\ Len(tape) \in Nat
  BY <1>1, LenProperties
<1>3. \A id \in DOMAIN tape : tape[id] \in 1 .. MaxTime
  BY <1>1, <1>2, ElementOfSeq
<1>4. CASE Tick
  <2>1. now' = now + 1 /\ now' \in 1 .. MaxTime /\ UNCHANGED <<tape, page, queue, seen>>
    BY <1>1, <1>4 DEF Tick
  <2>2. TypeOK'
    BY <1>1, <2>1 DEF TypeOK
  <2>3. \A id \in DOMAIN tape : tape[id] <= now' /\ (Age(id) > MaxAge => Age(id)' > MaxAge)
    BY <1>1, <1>3, <2>1 DEF QueueInv, Remembers, Age
  <2>4. \A id \in Trade : seen[id] # 0 /\ seen[id] <= now => seen[id] <= now'
    BY <1>1, <2>1
  <2>5. Remembers'
    BY <2>1, <2>3, <2>4 DEF QueueInv, Remembers
  <2> QED
    BY <2>1, <2>2, <2>5 DEF QueueInv, NoTradeTwice, Once
<1>5. ASSUME NEW p \in Poller, Fetch(p)
      PROVE  QueueInv'
  <2>1. /\ page' = [page EXCEPT ![p] = Latest] /\ UNCHANGED <<now, tape, queue, seen>>
        /\ Latest \subseteq DOMAIN tape
    BY <1>5 DEF Fetch, Latest
  <2>2. Latest \subseteq Trade
    BY <1>1, <1>2, <2>1 DEF Trade
  <2>3. TypeOK'
    BY <1>1, <2>1, <2>2 DEF TypeOK
  <2>4. \A q \in Poller : page'[q] \subseteq DOMAIN tape
    BY <1>1, <2>1 DEF QueueInv, Remembers
  <2>5. \A id : Age(id)' = Age(id)
    BY <2>1 DEF Age
  <2>6. Remembers'
    BY <2>1, <2>4, <2>5 DEF QueueInv, Remembers
  <2> QED
    BY <2>1, <2>3, <2>6 DEF QueueInv, NoTradeTwice, Once
<1>6. CASE Restart
  <2>1. /\ queue' = <<>> /\ seen' = [id \in Trade |-> 0] /\ UNCHANGED <<now, tape, page>>
        /\ Range(queue') = {} /\ DOMAIN queue' = {} /\ Len(queue') = 0
    BY <1>6 DEF Restart, Range
  <2>2. TypeOK'
    BY <1>1, <2>1 DEF TypeOK
  <2>3. Remembers'
    BY <2>1 DEF QueueInv, Remembers
  <2> QED
    BY <2>1, <2>2, <2>3 DEF QueueInv, NoTradeTwice, Once
<1>7. CASE UNCHANGED queueVars
  <2>1. \A id : Age(id)' = Age(id)
    BY <1>7 DEF queueVars, Age
  <2> QED
    BY <1>7, <2>1 DEF queueVars, QueueInv, TypeOK, Remembers, NoTradeTwice, Once
<1> QED
  BY <1>4, <1>5, <1>6, <1>7

(* Every step keeps the invariant.                                          *)
LEMMA QueueStep == QueueInv /\ [QueueNext]_queueVars => QueueInv'
BY AppendStep, ExecuteStep, OtherStep DEF QueueNext

(* Whatever pages come back in whatever order, over however many restarts:  *)
(* the queue keeps to its limit and has no trade twice that has an id.      *)
THEOREM QueueInvariant == QueueSpec => []QueueInv
BY QueueInitially, QueueStep, PTL DEF QueueSpec

(* A young trade leaves the queue only by the hard limit or a restart.      *)
THEOREM YoungStay == QueueSpec => YoungTradesKept
<1>1. QueueInv /\ [QueueNext]_queueVars =>
         [\A id \in Range(queue) :
             Age(id) <= MaxAge /\ id \notin Range(queue') => Len(queue') = MaxSize \/ Restart]_queueVars
  <2> SUFFICES ASSUME QueueInv, QueueNext, NEW id \in Range(queue),
                      Age(id) <= MaxAge, id \notin Range(queue')
               PROVE  Len(queue') = MaxSize \/ Restart
    OBVIOUS
  <2>1. ASSUME NEW p \in Poller, AppendPage(p)
        PROVE  Len(queue') = MaxSize
    BY <2>1, AppendStep
  <2>2. ~Tick /\ ~Execute /\ \A p \in Poller : ~Fetch(p)
    BY DEF Tick, Execute, Fetch
  <2> QED
    BY <2>1, <2>2 DEF QueueNext
<1> QED
  BY <1>1, QueueInvariant, PTL DEF QueueSpec, YoungTradesKept
=============================================================================
