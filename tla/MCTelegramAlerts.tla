--------------------------- MODULE MCTelegramAlerts ---------------------------
(***************************************************************************)
(* Orders that cross every check of the watcher, and plans of three levels. *)
(***************************************************************************)
EXTENDS TelegramAlerts, TLC

CONSTANTS r1, r2, h1, h2

Order(status, dir, inst, conf) == [status |-> status, dir |-> dir, inst |-> inst, conf |-> conf]

MCAbOrder ==
    {Order("blocked", "", "", 50),
     Order("ready", "long", "call", 65),
     Order("ready", "short", "put", 50)}

Plan(status, event, stale, allowed) ==
    [status |-> status, event_type |-> event, side |-> "bullish", stale |-> stale,
     mixed_or_mock |-> FALSE, allowed |-> allowed]

\* a ready plan, and one that is only waiting in a blocked environment
MCPlanView == {Plan("ready", "breakout", FALSE, TRUE), Plan("waiting", "breakout", FALSE, FALSE)}

=============================================================================
