---------------------------- MODULE MCLiveRefresh ----------------------------
(***************************************************************************)
(* A critical endpoint, one shed in minimal mode and one that is only       *)
(* fetched along, as spot_gex is.                                           *)
(***************************************************************************)
EXTENDS LiveRefresh, TLC

CONSTANTS flow, volume, gex, warmup

Row(f, v) == [e \in Endpoint |-> IF e = flow THEN f ELSE v]

MCIntervalTable ==
    [oi_burst    |-> Row(0, 0),
     trf_burst   |-> Row(1, 0),
     pre_open    |-> Row(1, 0),
     open_sprint |-> Row(1, 1),
     midday      |-> Row(2, 2),
     closing     |-> Row(1, 2)]

MCTurboInterval == Row(1, 1)

\* nothing and 90 percent of the quota used
MCQuotaReports ==
    {[daily_limit |-> 10, remaining |-> 10], [daily_limit |-> 10, remaining |-> 1]}
=============================================================================
