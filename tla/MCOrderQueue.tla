---------------------------- MODULE MCOrderQueue ----------------------------
(* TLC instances of OrderQueue: which callers are active. *)
EXTENDS OrderQueue

CONSTANTS p1, tA, tB

R(p, a, g, prio, mtp, cb) ==
    [position |-> p, action |-> a, target |-> g, priority |-> prio, multiTp |-> mtp,
     hasSide |-> TRUE, hasQty |-> TRUE, callback |-> cb]

\* The initial SL of an entry; the SL that a reconnect finds missing; the
\* multi-TP engine's SL shift; the watcher's SL move,
\* whose params carry no side; the WS manager's emergency close; a TP order.
InitialSl(p, g)   == R(p, "place_sl", g, 40, FALSE, TRUE)
EmergencySl(p, g) == R(p, "place_sl", g, 0, FALSE, FALSE)
MultiTpSl(p, g)   == R(p, "replace_sl", g, 10, TRUE, FALSE)
WatcherSl(p, g)   == [R(p, "replace_sl", g, 10, FALSE, FALSE) EXCEPT !.hasSide = FALSE]
CloseAll(p)       == R(p, "emergency_market_close", NoTarget, 1, FALSE, FALSE)
PlaceTp(p, g)     == R(p, "place_tp", g, 40, FALSE, TRUE)

\* An entry's SL, the multi-TP moves that follow it and the WS manager's close.
AllCallers == {InitialSl(p1, tA), MultiTpSl(p1, tA), MultiTpSl(p1, tB), CloseAll(p1)}
=============================================================================
