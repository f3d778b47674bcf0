----------------------------- MODULE PositionFSM -----------------------------
(***************************************************************************)
(* PositionStateMachine (app/services/position/state_machine.py): the      *)
(* transition table and the machine that walks it.  A machine is a record  *)
(* of the current state and of _pre_reconnect_state.                       *)
(***************************************************************************)
PositionStates ==
    {"pending", "entering", "open", "adjusting", "closing", "closed",
     "cancelled", "failed", "reconnecting", "error_recovery"}

Triggers ==
    {"entry_submitted", "entry_filled", "entry_rejected", "entry_cancelled",
     "entry_timeout", "indicator_trigger", "trailing_tick", "breakeven_reached",
     "volatility_shift", "adjustment_complete", "adjustment_failed",
     "sl_triggered", "tp_triggered", "partial_close", "manual_close",
     "all_closed", "close_failed", "ws_disconnected", "ws_reconnected",
     "sync_complete", "emergency_sl_placed", "emergency_close"}

NoSavedState == "none"

Machine == [state : PositionStates, saved : PositionStates \cup {NoSavedState}]

\* The rows of a state: these triggers lead to that state.
From(s, triggers, target) == {s} \X triggers \X {target}

VALID_TRANSITIONS == UNION {
    From("pending", {"entry_submitted"}, "entering"),
    From("pending", {"entry_cancelled"}, "cancelled"),
    From("entering", {"entry_filled"}, "open"),
    From("entering", {"entry_rejected", "entry_timeout"}, "failed"),
    From("entering", {"entry_cancelled"}, "cancelled"),
    From("open", {"indicator_trigger", "trailing_tick", "breakeven_reached",
                  "volatility_shift"}, "adjusting"),
    From("open", {"sl_triggered", "tp_triggered", "partial_close", "manual_close"}, "closing"),
    From("open", {"ws_disconnected"}, "reconnecting"),
    From("adjusting", {"adjustment_complete"}, "open"),
    From("adjusting", {"adjustment_failed"}, "error_recovery"),
    From("adjusting", {"sl_triggered", "tp_triggered", "manual_close"}, "closing"),
    From("adjusting", {"ws_disconnected"}, "reconnecting"),
    From("closing", {"all_closed"}, "closed"),
    From("closing", {"close_failed"}, "error_recovery"),
    From("closing", {"partial_close"}, "open"),
    From("closing", {"ws_disconnected"}, "reconnecting"),
    From("reconnecting", {"ws_reconnected", "sync_complete"}, "open"),
    From("reconnecting", {"all_closed"}, "closed"),
    From("error_recovery", {"emergency_sl_placed"}, "open"),
    From("error_recovery", {"emergency_close"}, "closed")}

CanTransition(m, t) == \E s \in PositionStates : <<m.state, t, s>> \in VALID_TRANSITIONS

\* transition, for a trigger that is valid.
Transition(m, t) ==
    LET target == CHOOSE s \in PositionStates : <<m.state, t, s>> \in VALID_TRANSITIONS
    IN  IF target = "reconnecting" THEN [state |-> target, saved |-> m.state]
        ELSE IF t = "sync_complete" /\ m.saved # NoSavedState
        THEN [state |-> m.saved, saved |-> NoSavedState]
        ELSE [m EXCEPT !.state = target]

\* `if can_transition: transition'.
TryTransition(m, t) == IF CanTransition(m, t) THEN Transition(m, t) ELSE m
=============================================================================
