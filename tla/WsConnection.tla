---------------------------- MODULE WsConnection ----------------------------
(***************************************************************************)
(* The life of an account's user-data stream: WebSocketManager.start and   *)
(* _handle_disconnect (app/services/ws/manager.py), the adapter's stream   *)
(* task (app/services/exchange/binance_adapter.py, bybit_adapter.py) and   *)
(* the 60-second hydrate loop that restarts a dead manager                 *)
(* (app/services/auto_trade/service.py).                                   *)
(*                                                                         *)
(* A stream task connects after subscribe_user_data has returned, and when *)
(* it ends it calls _handle_disconnect itself: the reconnect loop runs in  *)
(* the task of the stream that died, next to the new stream's task.        *)
(***************************************************************************)
EXTENDS Integers

CONSTANTS
    MaxAttempts,   \* _max_reconnect_attempts
    MaxLosses,     \* bound: times a stream ends
    MaxFailures    \* bound: failed REST or database calls

ASSUME ConnectionAssumption ==
    /\ MaxAttempts \in Nat \ {0}
    /\ MaxLosses \in Nat
    /\ MaxFailures \in Nat

VARIABLES
    stream,        \* the adapter's user-data task: "none", "connecting", "live" or "ended"
    connected,     \* _connected
    reconnecting,  \* _reconnecting
    attempts,      \* _reconnect_attempts
    pc,            \* where _handle_disconnect is
    losses, failures,
    tried          \* history: attempts made for the stream loss being handled

flags == <<connected, reconnecting>>
bounded == <<losses, failures>>
vars == <<stream, flags, attempts, pc, bounded, tried>>

Running == {"connecting", "live"}

TypeOK ==
    /\ stream \in {"none", "connecting", "live", "ended"}
    /\ connected \in BOOLEAN /\ reconnecting \in BOOLEAN
    /\ attempts \in 0 .. MaxAttempts
    /\ pc \in {"idle", "marking", "loop", "subscribing", "syncing", "closing"}
    /\ losses \in 0 .. MaxLosses /\ failures \in 0 .. MaxFailures
    /\ tried \in 0 .. MaxAttempts

Init ==
    /\ stream = "none"
    /\ connected = FALSE /\ reconnecting = FALSE
    /\ attempts = 0
    /\ pc = "idle"
    /\ losses = 0 /\ failures = 0
    /\ tried = 0

\* A REST or database call fails.
Fail == failures < MaxFailures /\ failures' = failures + 1 /\ UNCHANGED losses
-----------------------------------------------------------------------------
(* The adapter's stream task. *)

Connect ==
    /\ stream = "connecting"
    /\ stream' = "live"
    /\ UNCHANGED <<flags, attempts, pc, bounded, tried>>

\* The connection is refused or drops, or the listen key expires: the task
\* calls _handle_disconnect, which returns at once while a reconnect is on.
StreamEnds ==
    /\ stream \in Running /\ losses < MaxLosses
    /\ stream' = "ended"
    /\ losses' = losses + 1
    /\ IF reconnecting
       THEN UNCHANGED <<flags, pc, tried>>
       ELSE /\ reconnecting' = TRUE /\ connected' = FALSE
            /\ pc' = "marking"
            /\ tried' = 0
    /\ UNCHANGED <<attempts, failures>>
-----------------------------------------------------------------------------
(* _handle_disconnect. *)

\* Mutant: the flag is not reset when the handler returns.
Leave_latched == pc' = "idle" /\ UNCHANGED reconnecting

\* The handler's finally clause.
Leave == pc' = "idle" /\ reconnecting' = FALSE

\* Every live position is moved to RECONNECTING and persisted; a failure there
\* ends the handler.
MarkPositions ==
    /\ pc = "marking"
    /\ \/ pc' = "loop" /\ UNCHANGED <<reconnecting, bounded>>
       \/ Leave /\ Fail
    /\ UNCHANGED <<stream, connected, attempts, tried>>

MayRetry == attempts < MaxAttempts

\* The loop's test, and the backoff before an attempt.
Backoff ==
    /\ pc = "loop" /\ MayRetry
    /\ attempts' = attempts + 1
    /\ tried' = tried + 1
    /\ pc' = "subscribing"
    /\ UNCHANGED <<stream, flags, bounded>>

GiveUp ==
    /\ pc = "loop" /\ ~MayRetry
    /\ pc' = "closing"
    /\ UNCHANGED <<stream, flags, attempts, bounded, tried>>

\* Mutant: start forgets to say that the stream is up.
Subscribed_silent ==
    /\ stream' = "connecting" /\ UNCHANGED <<connected, bounded>>

\* start: the old stream is stopped, the new task is created.
Subscribed == stream' = "connecting" /\ connected' = TRUE /\ UNCHANGED bounded

\* start: the new subscription fails once the old stream is stopped.
SubscribeFails == stream' = "none" /\ Fail /\ UNCHANGED connected

Subscribe ==
    /\ pc = "subscribing"
    /\ \/ Subscribed /\ pc' = "syncing"
       \/ SubscribeFails /\ pc' = "loop"
    /\ UNCHANGED <<reconnecting, attempts, tried>>

\* _full_state_sync and _restore_realtime_sl_pipelines.
Sync ==
    /\ pc = "syncing"
    /\ \/ /\ Leave /\ attempts' = 0
          /\ UNCHANGED bounded
       \/ pc' = "loop" /\ Fail /\ UNCHANGED <<reconnecting, attempts>>
    /\ UNCHANGED <<stream, connected, tried>>

\* _emergency_close_all enqueues a market close for every open position.
EmergencyCloseAll ==
    /\ pc = "closing"
    /\ Leave
    /\ UNCHANGED <<stream, connected, attempts, bounded, tried>>
-----------------------------------------------------------------------------
(* _ensure_ws_manager_tracked: first start, and the hydrate loop's restart. *)

\* Mutant: a manager whose attempts are used up is not restarted.
MayHydrate_notExhausted == ~connected /\ ~reconnecting /\ attempts < MaxAttempts

MayHydrate == ~connected /\ ~reconnecting

Hydrate ==
    /\ MayHydrate
    /\ attempts' = IF reconnecting THEN attempts ELSE 0
    /\ Subscribed \/ SubscribeFails
    /\ UNCHANGED <<reconnecting, pc, tried>>

Next ==
    \/ Connect \/ StreamEnds
    \/ MarkPositions \/ Backoff \/ GiveUp \/ Subscribe \/ Sync \/ EmergencyCloseAll
    \/ Hydrate

\* The handler's coroutine and the hydrate loop run; calls fail finitely often.
Fairness ==
    /\ WF_vars(Connect)
    /\ WF_vars(MarkPositions) /\ WF_vars(Backoff) /\ WF_vars(GiveUp)
    /\ WF_vars(Subscribe) /\ WF_vars(Sync) /\ WF_vars(EmergencyCloseAll)
    /\ WF_vars(Hydrate)

Spec == Init /\ [][Next]_vars
FairSpec == Spec /\ Fairness
-----------------------------------------------------------------------------
(* Properties. *)

\* A manager that says it is disconnected has no running stream, so a restart
\* (by the reconnect loop or by the hydrate loop) never stops a healthy one.
DisconnectedHasNoStream == ~connected => stream \notin Running

\* A loss that the manager has noticed is repaired: it is connected again in the
\* end, whatever failed on the way.
NoticedLossRepaired == ~connected ~> connected

\* The reconnect handler ends.
HandlerEnds == reconnecting ~> ~reconnecting

(* Expectations stated in the source that TLC refutes (README, sections 3.3, 3.4). *)

\* An account stream that is down is brought back ("Restart it so the 60s
\* hydrate loop revives a dead account stream").
DeadStreamRevived == (stream \notin Running) ~> (stream \in Running)

\* Positions are flattened only when reconnecting has been tried to the limit
\* ("if reconnect recovery is exhausted").
FlattenOnlyWhenExhausted == pc = "closing" => tried = MaxAttempts
=============================================================================
