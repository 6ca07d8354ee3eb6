------------------------------- MODULE Values -------------------------------
(***************************************************************************)
(* What the decision engines take from JavaScript: numbers that may be      *)
(* missing, and Array.prototype.sort and filter, both of which leave rows   *)
(* that compare equal in the order they came in.  A place is an index into  *)
(* the rows; a key gives a place the number that is compared.               *)
(***************************************************************************)
EXTENDS Integers, FiniteSets, Sequences

\* null of every numeric field.  No price, premium or exposure has this value.
Null == -100000

\* safeNumber, safeN and numberOrNull outside algorithms/safe-number.js:
\* Number(null) is 0.
SafeNumber(x) == IF x = Null THEN 0 ELSE x

\* a ?? b
Or(a, b) == IF a # Null THEN a ELSE b

-----------------------------------------------------------------------------
\* Whether place i comes before place j.
Before(key, i, j) == key[i] < key[j] \/ (key[i] = key[j] /\ i < j)

\* The rows at some places, by key: first the one that none comes before.
Arranged(rows, places, key) ==
    [k \in 1 .. Cardinality(places) |->
        rows[CHOOSE i \in places : Cardinality({j \in places : Before(key, j, i)}) = k - 1]]

SortedBy(rows, key) == Arranged(rows, DOMAIN rows, key)

Picked(rows, places) == Arranged(rows, places, [i \in places |-> 0])

\* The first of the places of the largest weight.
FirstHeaviest(places, weight) ==
    CHOOSE i \in places : /\ \A j \in places : weight[j] <= weight[i]
                          /\ \A j \in places : j < i => weight[j] < weight[i]
=============================================================================
