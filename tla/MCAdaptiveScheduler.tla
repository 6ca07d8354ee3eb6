------------------------ MODULE MCAdaptiveScheduler ------------------------
(***************************************************************************)
(* A small instance of AdaptiveScheduler: one critical endpoint and one     *)
(* that is skipped in some phases and shed in minimal mode, with interval   *)
(* tables of one or two ticks in the proportions of the code's tables.      *)
(***************************************************************************)
EXTENDS AdaptiveScheduler, TLC

CONSTANTS flow, volume

Row(f, v) == (flow :> f) @@ (volume :> v)

MCIntervalTable ==
    [oi_burst    |-> Row(Skip, Skip),
     trf_burst   |-> Row(1, Skip),
     pre_open    |-> Row(1, Skip),
     open_sprint |-> Row(1, 1),
     midday      |-> Row(2, 2),
     closing     |-> Row(1, 2)]

MCTurboInterval == Row(1, 1)

\* 0, 80 (79.5 rounded up) and 90 percent of the quota used.
MCQuotaReports ==
    {[daily_limit |-> 10,  remaining |-> 10],
     [daily_limit |-> 200, remaining |-> 41],
     [daily_limit |-> 10,  remaining |-> 1]}
=============================================================================
