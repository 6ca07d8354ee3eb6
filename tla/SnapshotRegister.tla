-------------------------- MODULE SnapshotRegister --------------------------
(***************************************************************************)
(* What the readers of a snapshot store may rely on, whatever it is kept    *)
(* in: a register that shows the snapshot written last.  A write in         *)
(* progress may make it unreadable, writes that contend may leave it so,    *)
(* and only a fault (a restart, an expiry, a refused connection, a failed   *)
(* write) makes it show anything else that was once offered, or nothing.    *)
(***************************************************************************)
EXTENDS Naturals

CONSTANTS
    Snapshot,       \* what senders may offer
    Missing,        \* no snapshot is kept
    Unreadable      \* what is kept cannot be read

VARIABLES
    kept,           \* what a read that begins now would find
    offered,        \* every snapshot a sender has built
    writing,        \* the snapshots being written
    contended,      \* two writes have been in progress at a time
    faults          \* faults so far

vars == <<kept, offered, writing, contended, faults>>

Init ==
    /\ kept = Missing
    /\ offered = {}
    /\ writing = {}
    /\ contended = FALSE
    /\ faults = 0

\* A sender builds a snapshot.
Offer(v) ==
    /\ v \notin offered
    /\ offered' = offered \union {v}
    /\ contended' \in {contended, TRUE}
    /\ UNCHANGED <<kept, writing, faults>>

\* A write goes on: it starts, or makes what is kept unreadable for a while.
Write(v) ==
    /\ v \in offered
    /\ writing' = writing \union {v}
    /\ contended' \in {contended, TRUE}
    /\ kept' \in {kept, Unreadable}
    /\ UNCHANGED <<offered, faults>>

\* A write ends, with its snapshot kept.  A contended one may leave the
\* register unreadable.
Written(v) ==
    /\ v \in writing
    /\ writing' \in {writing, writing \ {v}}
    /\ \/ kept' = v
       \/ contended /\ kept' = Unreadable
    /\ UNCHANGED <<offered, contended, faults>>

\* A fault, or what it leads to later: any snapshot offered, or none, may be
\* what is found.
Fault ==
    /\ faults' \in {faults, faults + 1}
    /\ faults' > 0
    /\ kept' \in offered \union {Missing, Unreadable}
    /\ writing' \subseteq writing
    /\ UNCHANGED <<offered, contended>>

Next ==
    \/ \E v \in Snapshot : Offer(v) \/ Write(v) \/ Written(v)
    \/ Fault

Spec == Init /\ [][Next]_vars
=============================================================================
