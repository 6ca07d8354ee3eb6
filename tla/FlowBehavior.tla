---------------------------- MODULE FlowBehavior ----------------------------
(***************************************************************************)
(* What the option flow says: algorithms/flow-behavior-engine.js over the   *)
(* shared queue of algorithms/premium-acceleration-queue.js.                *)
(*                                                                          *)
(* Premium is in millions, put/call ratios in tenths.  An entry of the      *)
(* queue is its net premium and its age; the oldest entry is first.         *)
(***************************************************************************)
EXTENDS GammaRegime

CONSTANTS
    ShortWindow,    \* 5 minutes
    LongWindow,     \* 15 minutes, WINDOW_MS
    NearBound,      \* 5 minutes, the tolerance of _findEntryNear
    MaxEntries      \* MAX_ENTRIES

ASSUME WindowAssumption ==
    /\ ShortWindow \in Nat
    /\ LongWindow \in Nat
    /\ ShortWindow <= LongWindow
    /\ NearBound \in Nat
    /\ MaxEntries \in Nat \ {0}

Direction(delta, threshold) ==
    IF delta > threshold THEN "bullish" ELSE IF delta < -threshold THEN "bearish" ELSE "flat"

\* computeWindowDirection: the change of net premium over the window, or over
\* the whole queue, marked as a fallback, if the window has fewer than two entries.
Window(queue, span) ==
    LET inside == SelectSeq(queue, LAMBDA e : e.age <= span)
        used   == IF Len(inside) < 2 THEN queue ELSE inside
        delta  == used[Len(used)].net - used[1].net
    IN  IF Len(queue) < 2
        THEN [direction |-> "unknown", delta |-> Null, fallback |-> FALSE]
        ELSE IF Len(inside) < 2
        THEN [direction |-> Direction(delta, 2), delta |-> delta, fallback |-> TRUE]
        ELSE [direction |-> Direction(delta, IF span <= ShortWindow THEN 2 ELSE 5),
              delta |-> delta, fallback |-> FALSE]

-----------------------------------------------------------------------------
\* near a wall: within half a percent of the price
Near(spot, wall) == spot # 0 /\ wall # Null /\ 200 * Abs(spot - wall) < spot

\* classifyFlowBehavior.  Premiums and ratio have gone through safeNumber, so
\* its test for missing data never holds for a null.
Classify(in, regime, spot) ==
    LET net     == SafeNumber(in.net)
        call    == Abs(SafeNumber(in.call))
        put     == Abs(SafeNumber(in.put))
        pc      == SafeNumber(in.pc)
        bearish == net < -5 \/ pc > 15
        bullish == net > 5 \/ pc < 8
        as(b, c) == [behavior |-> b, confidence |-> c]
    IN  IF bearish
        THEN IF Near(spot, in.putWall) THEN as("put_squeezed", "high")
             ELSE IF in.braking \/ regime = "positive" THEN as("put_squeezed", "medium")
             ELSE as("put_effective", "high")
        ELSE IF bullish
        THEN IF Near(spot, in.callWall) THEN as("call_capped", "high")
             ELSE IF put > call /\ pc > 10 THEN as("mixed", "medium")
             ELSE as("call_effective", "high")
        ELSE IF 10 * call > 7 * put /\ 10 * call < 13 * put THEN as("mixed", "medium")
        ELSE as("neutral", "low")

\* Confidence is raised by agreement of the windows and lowered by conflict.
Adjusted(confidence, aligned, conflict) ==
    CASE aligned /\ confidence = "low"     -> "medium"
      [] aligned /\ confidence = "medium"  -> "high"
      [] conflict /\ confidence = "high"   -> "medium"
      [] OTHER                             -> confidence

\* buildFlowBehaviorEngine.  spot is safeNumber of the live price.
FlowRead(in, queue, regime, spot) ==
    LET short    == Window(queue, ShortWindow)
        long     == Window(queue, LongWindow)
        both     == {short.direction, long.direction} \cap {"unknown", "flat"} = {}
        aligned  == both /\ short.direction = long.direction
        conflict == both /\ short.direction # long.direction
        class    == Classify(in, regime, SafeNumber(spot))
        degraded == \/ short.fallback \/ long.fallback
                    \/ short.delta # Null /\ short.delta = long.delta
    IN  [behavior       |-> class.behavior,
         confidence     |-> Adjusted(class.confidence, aligned, conflict),
         short          |-> short.direction,
         long           |-> long.direction,
         shortFallback  |-> short.fallback,
         longFallback   |-> long.fallback,
         aligned        |-> aligned,
         conflict       |-> conflict,
         showsDirection |-> ~degraded]

\* prohibit_direction
Prohibited(behavior) ==
    CASE behavior \in {"put_effective", "call_capped"}  -> {"CALL"}
      [] behavior \in {"put_squeezed", "call_effective"} -> {"PUT"}
      [] behavior = "mixed"                              -> {"CALL", "PUT"}
      [] OTHER                                           -> {}

-----------------------------------------------------------------------------
\* A mutant of Pushed: the bound is checked before the entry is added.
PushedLate(queue, in) ==
    LET kept == IF Len(queue) > MaxEntries THEN Tail(queue) ELSE queue
    IN  IF in.net = Null THEN queue ELSE Append(kept, [net |-> in.net, age |-> 0])

\* push: a snapshot without a net premium is not stored, and the oldest entry
\* makes room for the newest.
Pushed(queue, in) ==
    LET longer == Append(queue, [net |-> in.net, age |-> 0])
    IN  IF in.net = Null THEN queue
        ELSE IF Len(longer) > MaxEntries THEN Tail(longer)
        ELSE longer

\* _findEntryNear: the entry nearest to the given age, the older of equals,
\* unless it is further from it than the tolerance.
EntryNear(queue, age) ==
    LET Off(i) == Abs(queue[i].age - age)
        best   == CHOOSE i \in DOMAIN queue :
                      /\ \A j \in DOMAIN queue : Off(i) <= Off(j)
                      /\ \A j \in 1 .. i - 1 : Off(i) < Off(j)
    IN  IF queue = <<>> \/ Off(best) > NearBound THEN Null ELSE queue[best].net

\* compute: acceleration is the change of the last window, and is announced as
\* such if it exceeds that of the window before by a fifth.
Acceleration(queue) ==
    LET then    == EntryNear(queue, LongWindow)
        before  == EntryNear(queue, 2 * LongWindow)
        delta   == queue[Len(queue)].net - then
        earlier == then - before
    IN  IF Len(queue) < 2 THEN [status |-> "building", accelerating |-> FALSE]
        ELSE IF then = Null THEN [status |-> "insufficient", accelerating |-> FALSE]
        ELSE [status |-> "ready",
              accelerating |-> /\ before # Null
                               /\ delta * earlier > 0
                               /\ 5 * Abs(delta) > 6 * Abs(earlier)]
=============================================================================
