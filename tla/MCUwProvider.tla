---------------------------- MODULE MCUwProvider ----------------------------
(***************************************************************************)
(* UwProvider with a core endpoint of a short TTL and a non-core endpoint   *)
(* of a longer one.                                                         *)
(***************************************************************************)
EXTENDS UwProvider, TLC

CONSTANTS spot, flow, c1, c2

MCTtl == (spot :> 1) @@ (flow :> 2)
Symmetry == Permutations(Caller)
=============================================================================
