---------------------------- MODULE MCSignalJobs ----------------------------
(***************************************************************************)
(* Values for the model checking of SignalJobs.                             *)
(***************************************************************************)
EXTENDS SignalJobs

\* The price moves between two answers of UW, by more than TrendMin.
MCSpot == <<10, 13>>
=============================================================================
