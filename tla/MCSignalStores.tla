--------------------------- MODULE MCSignalStores ---------------------------
(* The instance of SignalStores that TLC checks. *)
EXTENDS SignalStores

MCSetups ==
    {[which |-> "tv", mode |-> "file"], [which |-> "tv", mode |-> "redis"],
     [which |-> "theta", mode |-> "memory"], [which |-> "theta", mode |-> "redis"],
     [which |-> "theta", mode |-> "file"]}
=============================================================================
