------------------------- MODULE SignalStores_proofs -------------------------
(***************************************************************************)
(* What holds of the snapshot stores for any number of snapshots, readers,  *)
(* attempts and faults, and that they implement SnapshotRegister.           *)
(***************************************************************************)
EXTENDS SignalStores, TLAPS, WellFoundedInduction

USE DEF Missing

-----------------------------------------------------------------------------
(* The inductive invariant.                                                 *)

\* The store that a server without faults uses.
Home == IF setup.mode = "redis" THEN RedisStore ELSE IF setup.mode = "file" THEN FileStore ELSE 1

\* What is kept was once built, and a request carries what was built.
Grounded ==
    /\ redis \in Built \union {Missing}
    /\ disk \in Built \union {Missing, Unreadable}
    /\ \A m \in MemoryStore : memory[m] \in Built \union {Missing}
    /\ \A c \in Request : Active(c) => c[1] \in Built

\* A call holds a store that was made, the home of the server until a fault.
Held ==
    /\ \A c \in Call : call[c].pc = "connect" => setup.mode = "redis"
    /\ \A c \in Call : call[c].pc \in {"ready", "fill"} =>
          /\ store # NoStore /\ call[c].at # NoStore
          /\ faults = 0 => call[c].at = store
    /\ \A c \in Call : call[c].pc = "fill" => c \in Request /\ call[c].at = FileStore
    /\ store = NoStore => \A m \in MemoryStore : memory[m] = Missing
    /\ faults = 0 => store \in {NoStore, Home}

\* Senders that never met write one at a time, and always the newest snapshot.
OneAtATime ==
    /\ \A c, d \in Request : Active(c) /\ Active(d) => c = d
    /\ \A c \in Request : call[c].pc = "fill" => disk = Unreadable
    /\ \A c \in Request : Active(c) => \A u \in Built : u <= c[1]
    /\ \A v \in ActivePushes : \A u \in Built : u <= v

Alone == ~contended => OneAtATime

\* A sender that waits has an attempt left.
AttemptLeft == \A v \in Snapshot : push[v].pc = "waiting" => push[v].attempt < Attempts

IInv == StoresInv /\ Grounded /\ Held /\ Alone /\ AttemptLeft

-----------------------------------------------------------------------------
(* Data.                                                                    *)

(* The snapshots, and what the stores can show.                             *)
LEMMA Numbers ==
    /\ MaxSnapshot \in Nat \ {0} /\ Attempts \in Nat \ {0} /\ MaxFaults \in Nat
    /\ Snapshot \subseteq Nat \ {0} /\ \A v \in Snapshot : v < Unreadable
    /\ Unreadable \in Nat \ {0} /\ Unreadable \notin Snapshot
    /\ MemoryStore \subseteq Nat /\ 1 \in MemoryStore
    /\ NoStore \notin MemoryStore /\ RedisStore \notin MemoryStore /\ FileStore \notin MemoryStore
    /\ NoStore # RedisStore /\ NoStore # FileStore /\ RedisStore # FileStore
    /\ Reader \intersect Request = {}
    /\ \A c \in Request : c[1] \in Snapshot /\ c[2] \in 1 .. Attempts /\ c = <<c[1], c[2]>>
    /\ \A s \in Setups : s.which \in {"tv", "theta"} /\ s.mode \in {"redis", "file", "memory"}
<1>1. MaxSnapshot \in Nat \ {0} /\ Attempts \in Nat \ {0} /\ MaxFaults \in Nat
  BY StoresAssumption
<1>2. /\ NoStore \notin MemoryStore /\ RedisStore \notin MemoryStore /\ FileStore \notin MemoryStore
      /\ NoStore # RedisStore /\ NoStore # FileStore /\ RedisStore # FileStore
  BY StoreNamesAssumption DEF MemoryStore
<1>3. Reader \intersect Request = {}
  BY ReaderAssumption DEF Request, Snapshot
<1>4. \A c \in Request : c[1] \in Snapshot /\ c[2] \in 1 .. Attempts /\ c = <<c[1], c[2]>>
  BY DEF Request
<1>5. \A s \in Setups : s.which \in {"tv", "theta"} /\ s.mode \in {"redis", "file", "memory"}
  BY StoresAssumption
<1> QED
  BY <1>1, <1>2, <1>3, <1>4, <1>5 DEF Snapshot, Unreadable, MemoryStore

Less == {ss \in Nat \X Nat : ss[1] < ss[2]}

(* There is a memory store to go on in.                                     *)
LEMMA SpareIsMemory ==
    ASSUME memory \in [MemoryStore -> Snapshot \union {Missing}]
    PROVE  Spare \in MemoryStore
<1> DEFINE T == {m \in MemoryStore : memory[m] = Missing}
<1>1. \E m \in MemoryStore : \A n \in MemoryStore : memory[n] = Missing => memory[m] = Missing /\ m <= n
  <2>1. CASE T = {}
    BY <2>1, Numbers
  <2>2. CASE T # {}
    <3>1. T \subseteq Nat
      BY Numbers
    <3>2. IsWellFoundedOn(Less, Nat)
      BY NatLessThanWellFounded DEF OpToRel, Less
    <3>3. PICK m \in T : \A n \in T : <<n, m>> \notin Less
      BY <2>2, <3>1, <3>2, WFMin
    <3>4. \A n \in T : ~(n < m)
      BY <3>1, <3>3 DEF Less
    <3> QED
      BY <3>1, <3>4
  <2> QED
    BY <2>1, <2>2
<1> QED
  BY <1>1 DEF Spare

CallRecord == [pc : Pcs, at : Stores, got : Views]
PushRecord == [pc : {"new", "posting", "waiting", "over", "failed"}, attempt : 1 .. Attempts]

(* The types of the state that the steps below rest on.                     *)
LEMMA Types ==
    ASSUME IInv
    PROVE  /\ setup.mode \in {"redis", "file", "memory"} /\ store \in Stores
           /\ call \in [Call -> CallRecord] /\ push \in [Snapshot -> PushRecord]
           /\ memory \in [MemoryStore -> Snapshot \union {Missing}]
           /\ faults \in Nat /\ contended \in BOOLEAN /\ acked \in Snapshot \union {Missing}
           /\ Built \subseteq Snapshot
BY Numbers DEF IInv, StoresInv, TypeOK, CallRecord, PushRecord, Built

(* What a read would find was built, or is nothing, or cannot be read.      *)
LEMMA ViewType ==
    ASSUME IInv
    PROVE  View \in Built \union {Missing, Unreadable}
<1>1. store \in {NoStore, RedisStore, FileStore} \union MemoryStore
  BY Types DEF Stores
<1> QED
  BY <1>1, Numbers DEF IInv, Grounded, View, Content

(* One call changes, to a record of its type.                               *)
LEMMA OneCall ==
    ASSUME IInv, NEW c \in Call, NEW r \in CallRecord, call' = [call EXCEPT ![c] = r]
    PROVE  /\ call' \in [Call -> CallRecord]
           /\ call'[c] = r
           /\ \A d \in Call \ {c} : call'[d] = call[d]
BY Types

(* A call that has taken its store is ready there, and the others stay.      *)
LEMMA TookFacts ==
    ASSUME IInv, NEW c \in Call, NEW s \in Stores, Took(c, s)
    PROVE  /\ call' \in [Call -> CallRecord]
           /\ call'[c].pc = "ready" /\ call'[c].at = s
           /\ \A d \in Call \ {c} : call'[d] = call[d]
<1> DEFINE r == [call[c] EXCEPT !.pc = "ready", !.at = s]
<1>1. call[c] \in CallRecord
  BY Types
<1>2. r \in CallRecord /\ r.pc = "ready" /\ r.at = s
  BY <1>1 DEF CallRecord, Pcs
<1>3. call' = [call EXCEPT ![c] = r]
  BY DEF Took
<1> HIDE DEF r
<1> QED
  BY <1>2, <1>3, OneCall

(* getStore never changes what a read finds, and leaves the call with the   *)
(* store there is, or waiting for Redis.                                    *)
LEMMA GetStoreKeeps ==
    ASSUME IInv, NEW c \in Call, GetStore(c)
    PROVE  /\ call' \in [Call -> CallRecord]
           /\ call'[c].pc \in {"connect", "ready"}
           /\ \A d \in Call \ {c} : call'[d] = call[d]
           /\ store' \in Stores /\ Held' /\ View' = View
           /\ contended' = (contended \/ Contends(c))
           /\ UNCHANGED <<setup, contents, senderVars, acked, faults>>
<1>0. /\ contended' = (contended \/ Contends(c))
      /\ setup' = setup /\ redis' = redis /\ disk' = disk /\ memory' = memory
      /\ push' = push /\ bridge' = bridge /\ acked' = acked /\ faults' = faults
  BY DEF GetStore, contents, senderVars
<1>1. CASE store # NoStore /\ Took(c, store) /\ store' = store
  <2>1. /\ call' \in [Call -> CallRecord]
        /\ call'[c].pc = "ready" /\ call'[c].at = store
        /\ \A d \in Call \ {c} : call'[d] = call[d]
    BY <1>1, Types, TookFacts
  <2>2. Held'
    BY <1>0, <1>1, <2>1 DEF IInv, Held, Home
  <2>3. View' = View
    BY <1>0, <1>1 DEF View, Content
  <2> QED
    BY <1>0, <1>1, <2>1, <2>2, <2>3, Types DEF contents, senderVars
<1>2. CASE /\ store = NoStore /\ setup.mode # "redis"
           /\ store' = IF setup.mode = "file" THEN FileStore ELSE 1
           /\ Took(c, store')
  <2>0. store' \in Stores /\ store' # NoStore /\ store' = Home
    BY <1>2, Numbers, Types DEF Stores, Home
  <2>1. /\ call' \in [Call -> CallRecord]
        /\ call'[c].pc = "ready" /\ call'[c].at = store'
        /\ \A d \in Call \ {c} : call'[d] = call[d]
    BY <1>2, <2>0, TookFacts
  <2>2. Held'
    BY <1>0, <1>2, <2>0, <2>1 DEF IInv, Held, Home
  <2>3. View' = View
    BY <1>0, <1>2, <2>0, Numbers, Types DEF IInv, Held, View, Content
  <2> QED
    BY <1>0, <1>2, <2>0, <2>1, <2>2, <2>3 DEF contents, senderVars
<1>3. CASE /\ store = NoStore /\ setup.mode = "redis"
           /\ call' = [call EXCEPT ![c].pc = "connect"] /\ store' = store
  <2> DEFINE r == [call[c] EXCEPT !.pc = "connect"]
  <2>0. r \in CallRecord /\ r.pc = "connect"
    BY Types DEF CallRecord, Pcs
  <2>1. call' = [call EXCEPT ![c] = r]
    BY <1>3
  <2> HIDE DEF r
  <2>2. call' \in [Call -> CallRecord] /\ call'[c].pc = "connect" /\ \A d \in Call \ {c} : call'[d] = call[d]
    BY <2>0, <2>1, OneCall
  <2>3. Held'
    BY <1>0, <1>3, <2>2 DEF IInv, Held, Home
  <2>4. View' = View
    BY <1>0, <1>3 DEF View, Content
  <2> QED
    BY <1>0, <1>3, <2>2, <2>3, <2>4, Types DEF contents, senderVars
<1> QED
  BY <1>1, <1>2, <1>3 DEF GetStore

-----------------------------------------------------------------------------
(* Steps.                                                                   *)

\* The snapshots being written, as the register sees them.
Writes == {c[1] : c \in {d \in Request : Active(d)}}

\* A step of the register, and one that goes back only after an overlap.
Implements ==
    /\ [Register!Next]_(Register!vars)
    /\ View' < View /\ View # Unreadable => contended \/ faults' > 0

Good == IInv' /\ Implements

(* The steps of the register, one by one.                                   *)
LEMMA AbstractStutter ==
    ASSUME View' = View, Built' = Built, Writes' = Writes, contended' = contended, faults' = faults,
           View \in Nat
    PROVE  Implements
BY DEF Implements, Register!vars, Writes

(* A loss of what was kept is a fault of the register.                       *)
LEMMA AbstractFault ==
    ASSUME faults' \in {faults, faults + 1}, faults' > 0, Writes' \subseteq Writes,
           View' \in Built \union {Missing, Unreadable}, Built' = Built, contended' = contended
    PROVE  Implements
BY DEF Implements, Register!Next, Register!Fault, Writes

(* A snapshot that starts to be written is a write of the register, a file   *)
(* being unreadable in between.                                              *)
LEMMA AbstractWrite ==
    ASSUME NEW v \in Built, Writes' = Writes \union {v}, View' \in {View, Unreadable},
           contended' \in {contended, TRUE}, Built' = Built, faults' = faults, Built \subseteq Snapshot,
           View \in Built \union {Missing, Unreadable}
    PROVE  Implements
<1>1. Register!Write(v)
  BY DEF Register!Write, Writes
<1>2. ~(View' < View)
  BY Numbers
<1> QED
  BY <1>1, <1>2 DEF Implements, Register!Next

(* What has been put, or filled into a file, is written in the register.     *)
LEMMA AbstractWritten ==
    ASSUME NEW v \in Snapshot, v \in Writes, Writes' \in {Writes, Writes \ {v}},
           View' = v \/ (contended /\ View' = Unreadable),
           contended \/ View \in {Missing, Unreadable} \/ (View \in Nat /\ View <= v),
           Built' = Built, contended' = contended, faults' = faults
    PROVE  Implements
<1>1. Register!Written(v)
  BY DEF Register!Written, Writes
<1>2. View' < View /\ View # Unreadable => contended
  BY Numbers
<1> QED
  BY <1>1, <1>2 DEF Implements, Register!Next

(* A step that only a reader's call takes part in.                          *)
LEMMA ReaderStep ==
    ASSUME IInv, NEW r \in Reader, UNCHANGED <<setup, store, contents, senderVars, contended, acked, faults>>,
           call' \in [Call -> CallRecord], \A d \in Call \ {r} : call'[d] = call[d],
           call'[r].pc \in {"idle", "answered"}
    PROVE  Good
<1>1. \A c \in Request : c \in Call /\ call'[c] = call[c]
  BY Numbers DEF Call
<1>2. /\ setup' = setup /\ store' = store /\ redis' = redis /\ disk' = disk /\ memory' = memory
      /\ push' = push /\ bridge' = bridge /\ contended' = contended /\ acked' = acked /\ faults' = faults
  BY DEF contents, senderVars
<1>3. View' = View /\ Built' = Built /\ ActivePushes' = ActivePushes
  BY <1>2 DEF View, Content, Built, ActivePushes
<1>4. ActiveWrites' = ActiveWrites /\ Writes' = Writes /\ \A c \in Request : Active(c)' = Active(c)
  BY <1>1 DEF ActiveWrites, Writes, Active
<1>5. StoresInv'
  BY <1>2, <1>3, <1>4 DEF IInv, StoresInv, TypeOK, AckedIsKept, CallRecord
<1>6. Grounded' /\ AttemptLeft'
  BY <1>2, <1>3, <1>4 DEF IInv, Grounded, AttemptLeft
<1>7. Held'
  BY <1>2 DEF IInv, Held, Home
<1>8. Alone'
  BY <1>1, <1>2, <1>3, <1>4 DEF IInv, Alone, OneAtATime
<1>9. Implements
  BY <1>2, <1>3, <1>4, ViewType, Types, Numbers, AbstractStutter
<1> QED
  BY <1>5, <1>6, <1>7, <1>8, <1>9 DEF Good, IInv

(* A read begins.                                                           *)
LEMMA BeginReadStep ==
    ASSUME IInv, NEW r \in Reader, BeginRead(r)
    PROVE  Good
<1>1. r \in Call /\ r \notin Request
  BY Numbers DEF Call
<1>2. /\ call' \in [Call -> CallRecord]
      /\ \A d \in Call \ {r} : call'[d] = call[d]
      /\ store' \in Stores /\ Held' /\ View' = View
      /\ contended' = (contended \/ Contends(r))
      /\ UNCHANGED <<setup, contents, senderVars, acked, faults>>
  BY <1>1, GetStoreKeeps DEF BeginRead
<1>3. /\ setup' = setup /\ redis' = redis /\ disk' = disk /\ memory' = memory
      /\ push' = push /\ bridge' = bridge /\ contended' = contended /\ acked' = acked /\ faults' = faults
  BY <1>1, <1>2, Types DEF contents, senderVars, Contends
<1>4. \A c \in Request : c \in Call /\ call'[c] = call[c]
  BY <1>1, <1>2 DEF Call
<1>5. Built' = Built /\ ActivePushes' = ActivePushes
  BY <1>3 DEF Built, ActivePushes
<1>6. ActiveWrites' = ActiveWrites /\ Writes' = Writes /\ \A c \in Request : Active(c)' = Active(c)
  BY <1>4 DEF ActiveWrites, Writes, Active
<1>7. StoresInv'
  BY <1>2, <1>3, <1>6 DEF IInv, StoresInv, TypeOK, AckedIsKept, CallRecord
<1>8. Grounded' /\ AttemptLeft'
  BY <1>3, <1>5, <1>6 DEF IInv, Grounded, AttemptLeft
<1>9. Alone'
  BY <1>3, <1>4, <1>5, <1>6 DEF IInv, Alone, OneAtATime
<1>10. Implements
  BY <1>2, <1>3, <1>5, <1>6, ViewType, Types, Numbers, AbstractStutter
<1> QED
  BY <1>2, <1>7, <1>8, <1>9, <1>10 DEF Good, IInv

(* A read takes its answer, and ends.                                       *)
LEMMA ReadStep ==
    ASSUME IInv, NEW r \in Reader, Take(r) \/ EndRead(r)
    PROVE  Good
<1>0. r \in Call
  BY DEF Call
<1>1. CASE Take(r)
  <2> DEFINE x == [call[r] EXCEPT !.pc = "answered", !.got = Content(call[r].at)]
  <2>1. call[r].at \in {RedisStore, FileStore} \union MemoryStore
    BY <1>0, <1>1, Types DEF Take, IInv, Held, CallRecord, Stores
  <2>2. Content(call[r].at) \in Views
    BY <2>1, Numbers, Types DEF IInv, StoresInv, TypeOK, Content, Views
  <2>3. x \in CallRecord /\ x.pc = "answered" /\ call' = [call EXCEPT ![r] = x]
    BY <1>0, <1>1, <2>2, Types DEF Take, CallRecord, Pcs
  <2> HIDE DEF x
  <2>4. UNCHANGED <<setup, store, contents, senderVars, contended, acked, faults>>
    BY <1>1 DEF Take
  <2> QED
    BY <1>0, <2>3, <2>4, OneCall, ReaderStep
<1>2. CASE EndRead(r)
  <2> DEFINE x == [pc |-> "idle", at |-> NoStore, got |-> Missing]
  <2>1. x \in CallRecord /\ x.pc = "idle" /\ call' = [call EXCEPT ![r] = x]
    BY <1>2 DEF EndRead, CallRecord, Pcs, Stores, Views
  <2> HIDE DEF x
  <2>2. UNCHANGED <<setup, store, contents, senderVars, contended, acked, faults>>
    BY <1>2 DEF EndRead
  <2> QED
    BY <1>0, <2>1, <2>2, OneCall, ReaderStep
<1> QED
  BY <1>1, <1>2

(* A request reaches the route.                                             *)
LEMMA ArriveStep ==
    ASSUME IInv, NEW c \in Request, Arrive(c)
    PROVE  Good
<1>1. c \in Call /\ c[1] \in Snapshot /\ push[c[1]].pc = "posting" /\ call[c].pc = "idle"
  BY Numbers DEF Call, Arrive
<1>2. /\ call' \in [Call -> CallRecord]
      /\ call'[c].pc \in {"connect", "ready"}
      /\ \A d \in Call \ {c} : call'[d] = call[d]
      /\ store' \in Stores /\ Held' /\ View' = View
      /\ contended' = (contended \/ Contends(c))
      /\ UNCHANGED <<setup, contents, senderVars, acked, faults>>
  BY <1>1, GetStoreKeeps DEF Arrive
<1>3. /\ setup' = setup /\ redis' = redis /\ disk' = disk /\ memory' = memory
      /\ push' = push /\ bridge' = bridge /\ acked' = acked /\ faults' = faults
      /\ contended' = (contended \/ ActiveWrites # {}) /\ contended' \in BOOLEAN
  BY <1>2, Types DEF contents, senderVars, Contends
<1>4. Active(c)' /\ \A d \in Request \ {c} : d \in Call /\ call'[d] = call[d] /\ Active(d)' = Active(d)
  BY <1>2 DEF Active, Call
<1>5. Built' = Built /\ ActivePushes' = ActivePushes /\ c[1] \in Built /\ c[1] \in ActivePushes
  BY <1>1, <1>3 DEF Built, ActivePushes
<1>6. Writes' = Writes \union {c[1]} /\ c \in ActiveWrites'
  BY <1>1, <1>4 DEF Writes, ActiveWrites, Active
<1>7. StoresInv'
  BY <1>2, <1>3, <1>6 DEF IInv, StoresInv, TypeOK, AckedIsKept, CallRecord
<1>8. Grounded' /\ AttemptLeft'
  BY <1>3, <1>4, <1>5 DEF IInv, Grounded, AttemptLeft
<1>9. Alone'
  <2> SUFFICES ASSUME ~contended' PROVE OneAtATime'
    BY DEF Alone
  <2>1. ~contended /\ ActiveWrites = {}
    BY <1>3
  <2>2. \A d \in Request : Active(d)' => d = c
    BY <1>4, <2>1 DEF ActiveWrites
  <2>3. \A d \in Request : call'[d].pc = "fill" => Active(d)'
    BY DEF Active
  <2> QED
    BY <1>2, <1>5, <2>1, <2>2, <2>3 DEF IInv, Alone, OneAtATime
<1>10. Implements
  BY <1>2, <1>3, <1>5, <1>6, ViewType, Types, AbstractWrite
<1> QED
  BY <1>2, <1>7, <1>8, <1>9, <1>10 DEF Good, IInv

(* connect() resolves or rejects: another store may replace the one there,  *)
(* which after a fault only may show something else.                        *)
LEMMA ConnectStep ==
    ASSUME IInv, NEW c \in Call, Connected(c) \/ Refused(c)
    PROVE  Good
<1>1. PICK s \in {RedisStore, FileStore} :
        /\ store' = s /\ Took(c, s)
        /\ \/ s = RedisStore /\ faults' = faults
           \/ s = FileStore /\ faults' = faults + 1 /\ faults' <= MaxFaults
        /\ UNCHANGED <<setup, contents, senderVars, contended, acked>>
  BY Types, Numbers DEF Connected, Refused
<1>2. call[c].pc = "connect" /\ setup.mode = "redis"
  BY DEF Connected, Refused, IInv, Held
<1>3. /\ setup' = setup /\ redis' = redis /\ disk' = disk /\ memory' = memory
      /\ push' = push /\ bridge' = bridge /\ contended' = contended /\ acked' = acked
  BY <1>1 DEF contents, senderVars
<1>4. s \in Stores /\ s # NoStore /\ s \notin MemoryStore
  BY Numbers DEF Stores
<1>5. /\ call' \in [Call -> CallRecord]
      /\ call'[c].pc = "ready" /\ call'[c].at = s
      /\ \A d \in Call \ {c} : call'[d] = call[d]
  BY <1>1, <1>4, TookFacts
<1>6. \A d \in Request : d \in Call /\ Active(d)' = Active(d)
  BY <1>2, <1>5 DEF Active, Call
<1>7. \A d \in Request : call'[d].pc = "fill" => call[d].pc = "fill"
  BY <1>5 DEF Call
<1>8. ActiveWrites' = ActiveWrites /\ Writes' = Writes /\ Built' = Built /\ ActivePushes' = ActivePushes
  BY <1>3, <1>6 DEF ActiveWrites, Writes, Built, ActivePushes
<1>9. faults' = 0 => faults = 0 /\ View' = View /\ store' = RedisStore
  BY <1>1, <1>2, <1>3, <1>4, Types, Numbers DEF View, Content, IInv, Held, Home
<1>10. View' \in Built \union {Missing, Unreadable}
  BY <1>1, <1>3, <1>4 DEF View, Content, IInv, Grounded
<1>11. StoresInv'
  BY <1>1, <1>3, <1>4, <1>5, <1>8, <1>9, Types, Numbers DEF IInv, StoresInv, TypeOK, AckedIsKept, CallRecord
<1>12. Grounded' /\ AttemptLeft'
  BY <1>3, <1>6, <1>8 DEF IInv, Grounded, AttemptLeft
<1>13. Held'
  BY <1>1, <1>2, <1>3, <1>4, <1>5, <1>9, Types, Numbers DEF IInv, Held, Home
<1>14. Alone'
  BY <1>3, <1>6, <1>7, <1>8 DEF IInv, Alone, OneAtATime
<1>15. Implements
  <2>1. CASE faults' = 0
    BY <2>1, <1>3, <1>8, <1>9, ViewType, Types, Numbers, AbstractStutter
  <2>2. CASE faults' > 0
    BY <2>2, <1>1, <1>3, <1>8, <1>10, Types, AbstractFault
  <2>3. faults' \in Nat
    BY <1>1, Types
  <2> QED
    BY <2>1, <2>2, <2>3
<1> QED
  BY <1>11, <1>12, <1>13, <1>14, <1>15 DEF Good, IInv

\* What a write leaves in the store that its call took.
Wrote(c) ==
    \/ /\ call[c].at = RedisStore
       /\ redis' = c[1] /\ disk' = disk /\ memory' = memory
    \/ /\ call[c].at \in MemoryStore
       /\ memory' = [memory EXCEPT ![call[c].at] = c[1]] /\ redis' = redis /\ disk' = disk
    \/ /\ call[c].at = FileStore /\ call[c].pc = "fill"
       /\ disk' = c[1] \/ (disk \in Snapshot /\ disk' = Unreadable)
       /\ redis' = redis /\ memory' = memory

(* A write ends: its snapshot is kept and acknowledged.                     *)
LEMMA WrittenStep ==
    ASSUME IInv, NEW c \in Request, call[c].pc \in {"ready", "fill"}, Wrote(c), Finish(c),
           UNCHANGED <<setup, store, senderVars, contended, faults>>
    PROVE  Good
<1>1. /\ setup' = setup /\ store' = store /\ push' = push /\ bridge' = bridge
      /\ contended' = contended /\ faults' = faults /\ acked' = c[1]
  BY DEF senderVars, Finish
<1>2. c \in Call /\ c[1] \in Snapshot /\ c \in ActiveWrites /\ c[1] \in Writes /\ c[1] \in Built
  BY Numbers DEF Call, ActiveWrites, Active, Writes, IInv, Grounded
<1>3. call' \in [Call -> CallRecord] /\ call'[c].pc = "answered" /\ \A d \in Call \ {c} : call'[d] = call[d]
  <2> DEFINE r == [call[c] EXCEPT !.pc = "answered"]
  <2>1. r \in CallRecord /\ r.pc = "answered" /\ call' = [call EXCEPT ![c] = r]
    BY <1>2, Types DEF CallRecord, Pcs, Finish
  <2> HIDE DEF r
  <2> QED
    BY <1>2, <2>1, OneCall
<1>4. ~Active(c)' /\ \A d \in Request \ {c} : d \in Call /\ call'[d] = call[d] /\ Active(d)' = Active(d)
  BY <1>3 DEF Active, Call
<1>5. ActiveWrites' = ActiveWrites \ {c} /\ Writes' \in {Writes, Writes \ {c[1]}}
  BY <1>2, <1>4 DEF ActiveWrites, Writes
<1>6. Built' = Built /\ ActivePushes' = ActivePushes
  BY <1>1 DEF Built, ActivePushes
<1>7. ~contended => /\ ActiveWrites = {c} /\ \A u \in Built : u <= c[1]
                    /\ call[c].pc = "fill" => disk = Unreadable /\ disk \notin Snapshot
  BY <1>2, Numbers DEF IInv, Alone, OneAtATime, ActiveWrites
<1>8. store # NoStore /\ store \in Stores /\ (faults = 0 => call[c].at = store)
  BY <1>2, Types DEF IInv, Held
<1>9. call[c].at = store => View' = c[1] \/ (contended /\ View' = Unreadable)
  BY <1>1, <1>2, <1>7, <1>8, Numbers, Types DEF Wrote, View, Content
<1>10. call[c].at # store => View' = View
  BY <1>1, <1>8, Numbers, Types DEF Wrote, View, Content, Stores
<1>11. Grounded'
  BY <1>1, <1>2, <1>4, <1>6, Types DEF IInv, Grounded, Wrote
<1>12. StoresInv'
  <2>1. redis' \in Snapshot \union {Missing} /\ disk' \in Views
    BY <1>6, <1>11, Types DEF Grounded, Views
  <2>2. memory' \in [MemoryStore -> Snapshot \union {Missing}]
    BY <1>2, Types DEF Wrote
  <2>3. TypeOK'
    BY <1>1, <1>2, <1>3, <2>1, <2>2 DEF IInv, StoresInv, TypeOK, CallRecord
  <2>4. AckedIsKept'
    BY <1>1, <1>8, <1>9 DEF AckedIsKept
  <2> QED
    BY <2>3, <2>4 DEF StoresInv
<1>13. Held'
  <2>1. \A d \in Call : call'[d].pc \in {"connect", "ready", "fill"} => d # c /\ call'[d] = call[d]
    BY <1>3
  <2> QED
    BY <1>1, <1>8, <2>1 DEF IInv, Held, Home
<1>14. Alone'
  BY <1>1, <1>3, <1>4, <1>5, <1>6, <1>7 DEF IInv, Alone, OneAtATime, ActiveWrites, Active
<1>15. AttemptLeft'
  BY <1>1 DEF IInv, AttemptLeft
<1>16. Implements
  <2>1. CASE call[c].at = store
    <3>1. contended \/ View \in {Missing, Unreadable} \/ (View \in Nat /\ View <= c[1])
      BY <1>7, ViewType, Types, Numbers
    <3> QED
      BY <2>1, <3>1, <1>1, <1>2, <1>5, <1>6, <1>9, AbstractWritten
  <2>2. CASE call[c].at # store
    <3>1. faults > 0
      BY <2>2, <1>8, Types
    <3>2. Writes' \subseteq Writes
      BY <1>5
    <3> QED
      BY <2>2, <3>1, <3>2, <1>1, <1>6, <1>10, ViewType, AbstractFault
  <2> QED
    BY <2>1, <2>2
<1> QED
  BY <1>11, <1>12, <1>13, <1>14, <1>15, <1>16 DEF Good, IInv

(* fs.writeFile empties the file.                                           *)
LEMMA EmptyStep ==
    ASSUME IInv, NEW c \in Request, call[c].pc = "ready", call[c].at = FileStore, disk' = Unreadable,
           call' = [call EXCEPT ![c].pc = "fill"],
           UNCHANGED <<setup, store, redis, memory, senderVars, contended, acked, faults>>
    PROVE  Good
<1>1. /\ setup' = setup /\ store' = store /\ redis' = redis /\ memory' = memory /\ push' = push
      /\ bridge' = bridge /\ contended' = contended /\ acked' = acked /\ faults' = faults
  BY DEF senderVars
<1>2. c \in Call /\ c \in ActiveWrites /\ c[1] \in Writes /\ c[1] \in Built
  BY Numbers DEF Call, ActiveWrites, Active, Writes, IInv, Grounded
<1>3. /\ call' \in [Call -> CallRecord] /\ call'[c].pc = "fill" /\ call'[c].at = FileStore
      /\ \A d \in Call \ {c} : call'[d] = call[d]
  <2> DEFINE r == [call[c] EXCEPT !.pc = "fill"]
  <2>1. r \in CallRecord /\ r.pc = "fill" /\ r.at = FileStore /\ call' = [call EXCEPT ![c] = r]
    BY <1>2, Types DEF CallRecord, Pcs
  <2> HIDE DEF r
  <2> QED
    BY <1>2, <2>1, OneCall
<1>4. \A d \in Request : d \in Call /\ Active(d)' = Active(d)
  BY <1>3 DEF Active, Call
<1>5. ActiveWrites' = ActiveWrites /\ Writes' = Writes /\ Writes' = Writes \union {c[1]}
  BY <1>2, <1>4 DEF ActiveWrites, Writes
<1>6. Built' = Built /\ ActivePushes' = ActivePushes
  BY <1>1 DEF Built, ActivePushes
<1>7. StoresInv'
  BY <1>1, <1>2, <1>3, <1>5 DEF IInv, StoresInv, TypeOK, AckedIsKept, CallRecord, Views
<1>8. Grounded' /\ AttemptLeft'
  BY <1>1, <1>4, <1>6 DEF IInv, Grounded, AttemptLeft
<1>9. Held'
  BY <1>1, <1>2, <1>3 DEF IInv, Held, Home
<1>10. Alone'
  BY <1>1, <1>4, <1>5, <1>6 DEF IInv, Alone, OneAtATime
<1>11. View' \in {View, Unreadable}
  BY <1>1, Numbers, Types DEF View, Content, Stores
<1>12. Implements
  BY <1>1, <1>2, <1>5, <1>6, <1>11, ViewType, Types, AbstractWrite
<1> QED
  BY <1>7, <1>8, <1>9, <1>10, <1>12 DEF Good, IInv

(* A write goes on.                                                         *)
LEMMA PutStep ==
    ASSUME IInv, NEW c \in Request, Put(c) \/ Fill(c)
    PROVE  Good
<1>1. CASE Put(c) /\ call[c].at = FileStore
  <2>1. /\ call[c].pc = "ready" /\ disk' = Unreadable /\ call' = [call EXCEPT ![c].pc = "fill"]
        /\ UNCHANGED <<setup, store, redis, memory, senderVars, contended, acked, faults>>
    BY <1>1, Numbers DEF Put
  <2> QED
    BY <1>1, <2>1, EmptyStep
<1>2. CASE Put(c) /\ call[c].at # FileStore
  <2>1. call[c].pc = "ready" /\ Wrote(c) /\ Finish(c) /\ UNCHANGED <<setup, store, senderVars, contended, faults>>
    BY <1>2 DEF Put, Wrote
  <2> QED
    BY <2>1, WrittenStep
<1>3. CASE Fill(c)
  <2>1. c \in Call /\ call[c].at = FileStore
    BY <1>3 DEF Fill, IInv, Held, Call
  <2>2. call[c].pc = "fill" /\ Wrote(c) /\ Finish(c) /\ UNCHANGED <<setup, store, senderVars, contended, faults>>
    BY <1>3, <2>1 DEF Fill, Wrote
  <2> QED
    BY <2>2, WrittenStep
<1> QED
  BY <1>1, <1>2, <1>3

(* A write rejects: Theta's is given up, TradingView's goes to a new memory *)
(* store, which is what reads find from then on.                            *)
LEMMA WriteFailsStep ==
    ASSUME IInv, NEW c \in Request, WriteFails(c)
    PROVE  Good
<1>1. /\ setup' = setup /\ redis' = redis /\ disk' = disk /\ push' = push /\ bridge' = bridge
      /\ contended' = contended /\ faults' = faults + 1 /\ faults' \in 1 .. MaxFaults
  BY Types, Numbers DEF WriteFails, senderVars
<1>2. c \in Call /\ c[1] \in Snapshot /\ c \in ActiveWrites /\ c[1] \in Built
      /\ call[c].pc \in {"ready", "fill"}
  BY Numbers DEF Call, ActiveWrites, Active, IInv, Grounded, WriteFails
<1>3. PICK end \in {"failed", "answered"} : call' = [call EXCEPT ![c].pc = end]
  BY DEF WriteFails, Finish
<1>4. call' \in [Call -> CallRecord] /\ call'[c].pc = end /\ \A d \in Call \ {c} : call'[d] = call[d]
  <2> DEFINE r == [call[c] EXCEPT !.pc = end]
  <2>1. r \in CallRecord /\ r.pc = end /\ call' = [call EXCEPT ![c] = r]
    BY <1>2, <1>3, Types DEF CallRecord, Pcs
  <2> HIDE DEF r
  <2> QED
    BY <1>2, <2>1, OneCall
<1>5. ~Active(c)' /\ \A d \in Request \ {c} : d \in Call /\ call'[d] = call[d] /\ Active(d)' = Active(d)
  BY <1>4 DEF Active, Call
<1>6. ActiveWrites' = ActiveWrites \ {c} /\ Writes' \subseteq Writes
  BY <1>2, <1>5 DEF ActiveWrites, Writes
<1>7. Built' = Built /\ ActivePushes' = ActivePushes
  BY <1>1 DEF Built, ActivePushes
<1>8. store # NoStore
  BY <1>2 DEF IInv, Held
<1>9. \/ store' = store /\ memory' = memory /\ acked' = acked
      \/ \E m \in MemoryStore :
            store' = m /\ memory' = [memory EXCEPT ![m] = c[1]] /\ acked' = c[1]
  BY Types, SpareIsMemory DEF WriteFails, Finish
<1>10. store' \in Stores /\ store' # NoStore
  BY <1>8, <1>9, Types, Numbers DEF Stores
<1>11. /\ memory' \in [MemoryStore -> Snapshot \union {Missing}]
       /\ \A m \in MemoryStore : memory'[m] \in Built \union {Missing}
       /\ acked' \in Snapshot \union {Missing}
  BY <1>2, <1>9, Types DEF IInv, Grounded
<1>12. Grounded'
  BY <1>1, <1>5, <1>7, <1>11 DEF IInv, Grounded
<1>13. View' \in Built \union {Missing, Unreadable}
  BY <1>7, <1>10, <1>12, Numbers DEF View, Content, Grounded, Stores
<1>14. StoresInv'
  <2>1. TypeOK'
    BY <1>1, <1>4, <1>10, <1>11 DEF IInv, StoresInv, TypeOK, CallRecord
  <2>2. AckedIsKept'
    BY <1>1 DEF AckedIsKept
  <2> QED
    BY <2>1, <2>2 DEF StoresInv
<1>15. Held'
  <2>1. \A d \in Call : call'[d].pc \in {"connect", "ready", "fill"} => d # c /\ call'[d] = call[d]
    BY <1>4
  <2> QED
    BY <1>1, <1>10, <2>1 DEF IInv, Held
<1>16. Alone'
  BY <1>1, <1>5, <1>6, <1>7, <1>4 DEF IInv, Alone, OneAtATime, ActiveWrites, Active
<1>17. AttemptLeft'
  BY <1>1 DEF IInv, AttemptLeft
<1>18. Implements
  BY <1>1, <1>6, <1>7, <1>13, AbstractFault
<1> QED
  BY <1>12, <1>14, <1>15, <1>16, <1>17, <1>18 DEF Good, IInv

(* A sender goes on with what it has built.                                 *)
LEMMA SenderStep ==
    ASSUME IInv, NEW v \in Snapshot, Accepted(v) \/ PostFails(v) \/ PostAgain(v)
    PROVE  Good
<1>1. /\ setup' = setup /\ store' = store /\ redis' = redis /\ disk' = disk /\ memory' = memory
      /\ call' = call /\ contended' = contended /\ acked' = acked /\ faults' = faults
  BY DEF Accepted, PostFails, PostAgain, contents
<1>2. bridge' \in {"first", "ticking", "ended"}
  BY DEF Accepted, PostFails, PostAgain, IInv, StoresInv, TypeOK
<1>3. PICK r : /\ push' = [push EXCEPT ![v] = r] /\ r \in PushRecord /\ r.pc # "new"
               /\ r.pc = "waiting" => r.attempt < Attempts
               /\ r.pc \in {"posting", "waiting"} => push[v].pc \in {"posting", "waiting"}
               /\ push[v].pc # "new"
  <2>1. push[v] \in PushRecord
    BY Types
  <2>2. CASE PostAgain(v)
    <3> DEFINE r == [pc |-> "posting", attempt |-> push[v].attempt + 1]
    <3>1. push' = [push EXCEPT ![v] = r] /\ push[v].pc = "waiting" /\ push[v].attempt < Attempts
      BY <2>2 DEF PostAgain, IInv, AttemptLeft
    <3>2. r \in PushRecord /\ r.pc = "posting"
      BY <2>1, <3>1, Numbers DEF PushRecord
    <3> HIDE DEF r
    <3> QED
      BY <3>1, <3>2
  <2>3. CASE Accepted(v)
    <3> DEFINE r == [push[v] EXCEPT !.pc = "over"]
    <3>1. push' = [push EXCEPT ![v] = r] /\ push[v].pc = "posting"
      BY <2>3 DEF Accepted
    <3>2. r \in PushRecord /\ r.pc = "over"
      BY <2>1 DEF PushRecord
    <3> QED
      BY <3>1, <3>2
  <2>4. CASE PostFails(v) /\ Theta /\ push[v].attempt < Attempts
    <3> DEFINE r == [push[v] EXCEPT !.pc = "waiting"]
    <3>1. push' = [push EXCEPT ![v] = r] /\ push[v].pc = "posting"
      BY <2>4 DEF PostFails
    <3>2. r \in PushRecord /\ r.pc = "waiting" /\ r.attempt = push[v].attempt
      BY <2>1 DEF PushRecord
    <3> QED
      BY <2>4, <3>1, <3>2
  <2>5. CASE PostFails(v) /\ ~(Theta /\ push[v].attempt < Attempts)
    <3> DEFINE r == [push[v] EXCEPT !.pc = "failed"]
    <3>1. push' = [push EXCEPT ![v] = r] /\ push[v].pc = "posting"
      BY <2>5 DEF PostFails
    <3>2. r \in PushRecord /\ r.pc = "failed"
      BY <2>1 DEF PushRecord
    <3> QED
      BY <3>1, <3>2
  <2> QED
    BY <2>2, <2>3, <2>4, <2>5
<1>4. /\ push' \in [Snapshot -> PushRecord] /\ push'[v] = r
      /\ \A u \in Snapshot \ {v} : push'[u] = push[u]
  BY <1>3, Types
<1>5. Built' = Built /\ ActivePushes' \subseteq ActivePushes
  BY <1>3, <1>4 DEF Built, ActivePushes
<1>6. ActiveWrites' = ActiveWrites /\ Writes' = Writes /\ \A c \in Request : Active(c)' = Active(c)
  BY <1>1 DEF ActiveWrites, Writes, Active
<1>7. View' = View
  BY <1>1 DEF View, Content
<1>8. StoresInv'
  BY <1>1, <1>2, <1>4, <1>6, <1>7 DEF IInv, StoresInv, TypeOK, AckedIsKept, PushRecord
<1>9. Grounded' /\ Held'
  BY <1>1, <1>5, <1>6 DEF IInv, Grounded, Held, Home
<1>10. Alone'
  BY <1>1, <1>5, <1>6 DEF IInv, Alone, OneAtATime
<1>11. AttemptLeft'
  BY <1>3, <1>4 DEF IInv, AttemptLeft
<1>12. Implements
  BY <1>1, <1>5, <1>6, <1>7, ViewType, Types, Numbers, AbstractStutter
<1> QED
  BY <1>8, <1>9, <1>10, <1>11, <1>12 DEF Good, IInv

(* A sender builds the next snapshot.                                       *)
LEMMA BeginPushStep ==
    ASSUME IInv, NEW v \in Snapshot, BeginPush(v)
    PROVE  Good
<1>1. /\ setup' = setup /\ store' = store /\ redis' = redis /\ disk' = disk /\ memory' = memory
      /\ call' = call /\ bridge' = bridge /\ acked' = acked /\ faults' = faults
      /\ contended' = (contended \/ ActivePushes # {} \/ ActiveWrites # {})
      /\ push[v].pc = "new" /\ Built = 1 .. v - 1
  BY DEF BeginPush, contents
<1>2. /\ push' \in [Snapshot -> PushRecord] /\ push'[v] = [pc |-> "posting", attempt |-> 1]
      /\ \A u \in Snapshot \ {v} : push'[u] = push[u]
  <2> DEFINE r == [pc |-> "posting", attempt |-> 1]
  <2>1. r \in PushRecord /\ push' = [push EXCEPT ![v] = r]
    BY Numbers DEF BeginPush, PushRecord
  <2> HIDE DEF r
  <2>2. push'[v] = r /\ push' \in [Snapshot -> PushRecord] /\ \A u \in Snapshot \ {v} : push'[u] = push[u]
    BY <2>1, Types
  <2> QED
    BY <2>2 DEF r
<1>3. Built' = Built \union {v} /\ v \notin Built
  BY <1>1, <1>2 DEF Built
<1>4. ActivePushes' = ActivePushes \union {v}
  BY <1>2 DEF ActivePushes
<1>5. ActiveWrites' = ActiveWrites /\ Writes' = Writes /\ \A c \in Request : Active(c)' = Active(c)
  BY <1>1 DEF ActiveWrites, Writes, Active
<1>6. View' = View /\ contended' \in BOOLEAN
  BY <1>1, Types DEF View, Content
<1>7. StoresInv'
  BY <1>1, <1>2, <1>5, <1>6 DEF IInv, StoresInv, TypeOK, AckedIsKept, PushRecord
<1>8. Grounded' /\ Held'
  BY <1>1, <1>3, <1>5 DEF IInv, Grounded, Held, Home
<1>9. Alone'
  <2> SUFFICES ASSUME ~contended' PROVE OneAtATime'
    BY DEF Alone
  <2>1. ~contended /\ ActivePushes = {} /\ ActiveWrites = {}
    BY <1>1
  <2>2. \A u \in Built' : u <= v
    BY <1>1, <1>3, Numbers
  <2>3. \A c \in Request : ~Active(c)
    BY <2>1 DEF ActiveWrites
  <2>4. \A c \in Request : call'[c].pc = "fill" => Active(c)
    BY <1>1 DEF Active
  <2> QED
    BY <1>4, <1>5, <2>1, <2>2, <2>3, <2>4 DEF OneAtATime
<1>10. AttemptLeft'
  BY <1>2 DEF IInv, AttemptLeft
<1>11. Implements
  <2>1. Register!Offer(v)
    BY <1>1, <1>3, <1>5, <1>6, Types DEF Register!Offer, Writes
  <2>2. ~(View' < View)
    BY <1>6, ViewType, Types, Numbers
  <2> QED
    BY <2>1, <2>2 DEF Implements, Register!Next
<1> QED
  BY <1>7, <1>8, <1>9, <1>10, <1>11 DEF Good, IInv

(* Redis forgets, or the server begins anew.                                *)
LEMMA ExpireStep ==
    ASSUME IInv, Expire
    PROVE  Good
<1>1. /\ setup' = setup /\ store' = store /\ disk' = disk /\ memory' = memory /\ call' = call
      /\ push' = push /\ bridge' = bridge /\ contended' = contended /\ acked' = acked
      /\ redis' = Missing /\ faults' = faults + 1 /\ faults' \in 1 .. MaxFaults
  BY Types, Numbers DEF Expire, senderVars
<1>2. Built' = Built /\ ActivePushes' = ActivePushes
  BY <1>1 DEF Built, ActivePushes
<1>3. ActiveWrites' = ActiveWrites /\ Writes' = Writes /\ \A c \in Request : Active(c)' = Active(c)
  BY <1>1 DEF ActiveWrites, Writes, Active
<1>4. View' \in {View, Missing}
  BY <1>1 DEF View, Content
<1>5. StoresInv'
  BY <1>1 DEF IInv, StoresInv, TypeOK, AckedIsKept
<1>6. Grounded' /\ Held' /\ AttemptLeft'
  BY <1>1, <1>2, <1>3 DEF IInv, Grounded, Held, AttemptLeft
<1>7. Alone'
  BY <1>1, <1>2, <1>3 DEF IInv, Alone, OneAtATime
<1>8. Implements
  BY <1>1, <1>2, <1>3, <1>4, ViewType, AbstractFault
<1> QED
  BY <1>5, <1>6, <1>7, <1>8 DEF Good, IInv

(* A restart empties the memory and forgets the store and every call.        *)
LEMMA RestartStep ==
    ASSUME IInv, Restart
    PROVE  Good
<1> DEFINE Idle == [pc |-> "idle", at |-> NoStore, got |-> Missing]
<1>1. /\ setup' = setup /\ store' = NoStore /\ redis' = redis /\ disk' = disk
      /\ push' = push /\ bridge' = bridge /\ contended' = contended /\ acked' = acked
      /\ memory' = [m \in MemoryStore |-> Missing] /\ faults' = faults + 1 /\ faults' \in 1 .. MaxFaults
  BY Types, Numbers DEF Restart, senderVars
<1>2. \A c \in Call : call'[c] \in CallRecord /\ call'[c].pc \in {"idle", "answered", "failed"}
  <2> SUFFICES ASSUME NEW c \in Call
               PROVE  call'[c] \in CallRecord /\ call'[c].pc \in {"idle", "answered", "failed"}
    OBVIOUS
  <2>1. call[c] \in CallRecord
    BY Types
  <2>2. Idle \in CallRecord /\ Idle.pc = "idle"
    BY DEF CallRecord, Pcs, Stores, Views
  <2>3. [call[c] EXCEPT !.pc = "failed"] \in CallRecord /\ [call[c] EXCEPT !.pc = "failed"].pc = "failed"
    BY <2>1 DEF CallRecord, Pcs
  <2>4. call'[c] \in {Idle, [call[c] EXCEPT !.pc = "failed"]} \/ (call'[c] = call[c] /\ ~Active(c))
    BY DEF Restart
  <2> QED
    BY <2>1, <2>2, <2>3, <2>4 DEF Active
<1>3. call' \in [Call -> CallRecord]
  BY <1>2 DEF Restart
<1>4. \A c \in Request : c \in Call /\ ~Active(c)'
  BY <1>2 DEF Active, Call
<1>5. ActiveWrites' = {} /\ Writes' = {}
  BY <1>4 DEF ActiveWrites, Writes
<1>6. Built' = Built /\ ActivePushes' = ActivePushes
  BY <1>1 DEF Built, ActivePushes
<1>7. \A m \in MemoryStore : memory'[m] = Missing
  BY <1>1
<1>8. StoresInv'
  BY <1>1, <1>3 DEF IInv, StoresInv, TypeOK, AckedIsKept, CallRecord, Stores
<1>9. Grounded' /\ AttemptLeft'
  BY <1>1, <1>4, <1>6, <1>7 DEF IInv, Grounded, AttemptLeft
<1>10. Held'
  BY <1>1, <1>2, <1>7 DEF Held
<1>11. Alone'
  <2>1. \A c \in Request : call'[c].pc # "fill"
    BY <1>2, <1>4
  <2> QED
    BY <1>1, <1>4, <1>6, <2>1 DEF IInv, Alone, OneAtATime
<1>12. View' \in Built \union {Missing, Unreadable}
  BY <1>1 DEF View, IInv, Grounded
<1>13. Implements
  BY <1>1, <1>5, <1>6, <1>12, AbstractFault
<1> QED
  BY <1>8, <1>9, <1>10, <1>11, <1>13 DEF Good, IInv

-----------------------------------------------------------------------------
(* The theorems.                                                            *)

(* The stores start empty.                                                  *)
LEMMA InitIInv == Init => IInv /\ Register!Init
<1> SUFFICES ASSUME Init PROVE IInv /\ Register!Init
  OBVIOUS
<1> DEFINE Idle == [pc |-> "idle", at |-> NoStore, got |-> Missing]
           New  == [pc |-> "new", attempt |-> 1]
<1>1. Idle \in CallRecord /\ Idle.pc = "idle" /\ call = [c \in Call |-> Idle]
  BY DEF Init, CallRecord, Pcs, Stores, Views
<1>2. New \in PushRecord /\ New.pc = "new" /\ push = [v \in Snapshot |-> New]
  BY Numbers DEF Init, PushRecord
<1> HIDE DEF Idle, New
<1>3. Built = {} /\ ActivePushes = {}
  BY <1>2 DEF Built, ActivePushes
<1>4. \A c \in Request : c \in Call /\ ~Active(c)
  BY <1>1 DEF Active, Call
<1>5. ActiveWrites = {} /\ Writes = {}
  BY <1>4 DEF ActiveWrites, Writes
<1>6. TypeOK
  <2>1. call \in [Call -> CallRecord] /\ push \in [Snapshot -> PushRecord]
    BY <1>1, <1>2
  <2>2. bridge \in {"first", "ticking", "ended"} /\ contended \in BOOLEAN
    BY DEF Init
  <2>3. memory \in [MemoryStore -> Snapshot \union {Missing}]
    BY DEF Init
  <2>4. /\ setup \in Setups /\ store \in Stores
        /\ redis \in Snapshot \union {Missing} /\ disk \in Views
        /\ acked \in Snapshot \union {Missing} /\ faults \in 0 .. MaxFaults
    BY Numbers DEF Init, Stores, Views
  <2> QED
    BY <2>1, <2>2, <2>3, <2>4 DEF TypeOK, CallRecord, PushRecord
<1>7. View = Missing /\ AckedIsKept
  BY DEF Init, View, AckedIsKept
<1>8. Grounded /\ Held /\ Alone /\ AttemptLeft
  BY <1>1, <1>2, <1>3, <1>4, Numbers DEF Init, Grounded, Held, Alone, OneAtATime, AttemptLeft, Call
<1>9. Register!Init
  BY <1>3, <1>5, <1>7 DEF Init, Register!Init, Writes
<1> QED
  BY <1>6, <1>7, <1>8, <1>9 DEF IInv, StoresInv

(* Every step keeps the invariant and is one of the register.               *)
LEMMA EveryStep ==
    ASSUME IInv, [Next]_vars
    PROVE  Good
<1>1. ASSUME NEW r \in Reader, BeginRead(r) \/ EndRead(r)
      PROVE  Good
  BY <1>1, BeginReadStep, ReadStep
<1>2. ASSUME NEW c \in Request, Arrive(c) \/ WriteFails(c)
      PROVE  Good
  BY <1>2, ArriveStep, WriteFailsStep
<1>3. ASSUME NEW c \in Call, CallStep(c) \/ Refused(c)
      PROVE  Good
  BY <1>3, ConnectStep, ReadStep, PutStep DEF CallStep
<1>4. ASSUME NEW v \in Snapshot, BeginPush(v) \/ Accepted(v) \/ PostFails(v) \/ PostAgain(v)
      PROVE  Good
  BY <1>4, BeginPushStep, SenderStep
<1>5. CASE UNCHANGED vars
  <2>1. /\ View' = View /\ Built' = Built /\ Writes' = Writes
        /\ contended' = contended /\ faults' = faults
    BY <1>5 DEF vars, View, Content, Built, Writes, Active
  <2>2. IInv'
    BY <1>5 DEF vars, IInv, StoresInv, TypeOK, AckedIsKept, ActiveWrites, Active, View, Content,
                Grounded, Built, Held, Home, Alone, OneAtATime, ActivePushes, AttemptLeft
  <2> QED
    BY <2>1, <2>2, ViewType, Types, Numbers, AbstractStutter DEF Good
<1> QED
  BY <1>1, <1>2, <1>3, <1>4, <1>5, ExpireStep, RestartStep DEF Next

(* The inductive invariant holds of every behaviour.                         *)
LEMMA IInvariant == Spec => []IInv
<1>1. Init => IInv
  BY InitIInv
<1>2. IInv /\ [Next]_vars => IInv'
  BY EveryStep DEF Good
<1> QED
  BY <1>1, <1>2, PTL DEF Spec

(* While nothing failed and writers did not meet, what was acknowledged is  *)
(* what a read finds, in every mode of the stores.                          *)
THEOREM StoresInvariant == Spec => []StoresInv
<1>1. IInv => StoresInv
  BY DEF IInv
<1> QED
  BY <1>1, IInvariant, PTL

(* The stores implement the register.                                       *)
THEOREM StoresImplementRegister == Spec => RegisterSpec
<1>1. Init => Register!Init
  BY InitIInv
<1>2. IInv /\ [Next]_vars => [Register!Next]_(Register!vars)
  BY EveryStep DEF Good, Implements
<1> QED
  BY <1>1, <1>2, IInvariant, PTL DEF Spec, RegisterSpec, Register!Spec

(* A store goes back to an older snapshot, or to none, only after a fault   *)
(* or after writers or senders met.                                         *)
THEOREM OlderNeedsOverlap == Spec => OlderOnlyAfterOverlap
<1>1. IInv /\ [Next]_vars => [View' < View /\ View # Unreadable => contended \/ faults' > 0]_vars
  BY EveryStep DEF Good, Implements
<1> QED
  BY <1>1, IInvariant, PTL DEF Spec, OlderOnlyAfterOverlap
=============================================================================
