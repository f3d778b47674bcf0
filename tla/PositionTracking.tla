-------------------------- MODULE PositionTracking --------------------------
(***************************************************************************)
(* How WebSocketManager (app/services/ws/manager.py) and MultiTPEngine     *)
(* (app/services/sl_tp/multi_tp.py) keep one tracked position in step with *)
(* the exchange.                                                           *)
(*                                                                         *)
(* The user-data stream task handles its messages one after the other,     *)
(* each under the position lock.  The deferred partial-close reconciler is *)
(* a task of its own that takes the same lock.  Three other actors do NOT  *)
(* take it: the task that reconnects and re-syncs after a lost stream, the *)
(* order-queue worker that runs the success callbacks, and, of course, the *)
(* exchange.  A handler that awaits is split there (`handler').            *)
(*                                                                         *)
(* Quantities are small integers; OrderQueue has the queue's own rules,    *)
(* WsConnection the life of the stream.                                    *)
(***************************************************************************)
EXTENDS Integers, Sequences, FiniteSets, PositionFSM

CONSTANTS
    Close,       \* Close[l]: original_quantity * close_pct of TP level l; <<>> = single TP
    Original,    \* original_quantity
    Deliveries,  \* orders in which a fill's order ("o") and position ("p") events arrive
    Addressed,   \* whether a fill's order events carry order ids: a subset of BOOLEAN
    Faults,      \* REST calls that may fail: a subset of {"fetch", "cancel", "sync", "place"}
    ManualCuts,  \* sizes the user may close by hand, besides everything
    MaxManual,   \* bound: manual closes
    MaxLosses,   \* bound: stream losses
    MaxInbox     \* bound: undelivered messages

N == Len(Close)
Levels == 1 .. N
\* The TP orders: one per level, or the single take profit (level 0).
TpOrders == IF N = 0 THEN {0} ELSE Levels

ASSUME TrackingAssumption ==
    /\ Close \in Seq(Nat \ {0})
    /\ Original \in Nat \ {0}
    /\ Deliveries \subseteq Seq({"o", "p"})
    /\ Addressed \subseteq BOOLEAN
    /\ ManualCuts \subseteq Nat \ {0}
    /\ MaxManual \in Nat /\ MaxLosses \in Nat /\ MaxInbox \in Nat

VARIABLES
    size, tpLive, slLive,              \* the exchange: position size, live TP orders, an SL order
    inbox, up, warm, connected,        \* messages not yet handled, stream alive, warm-up over,
                                       \*   and the manager's belief that the stream is alive
    machine, qty, status, ids,         \* state_machine, current_quantity, TPLevel.status,
    dispatched, slId,                  \*   levels with an order id, dispatched_sl_levels, and
                                       \*   whether sl_exchange_order_id names the live SL order
    handler,                           \* the coroutine that holds the position lock
    reconciler,                        \* quantity of the pending partial-close reconciler, 0 = none
    sync,                              \* the reconnect task's _full_state_sync
    tasks, inFlight, placed,           \* the order queue: waiting tasks, the executing one, and
                                       \*   whether the exchange has acted on it
    losses, manual,                    \* bounded environment
    applied                            \* history: times each level's close was subtracted

exchange == <<size, tpLive, slLive>>
link     == <<inbox, up, warm, connected>>
context  == <<machine, qty, status, ids, dispatched, slId>>
queue    == <<tasks, inFlight, placed>>
env      == <<losses, manual>>
vars == <<exchange, link, context, handler, reconciler, sync, queue, env, applied>>

Task(k, l) == [kind |-> k, level |-> l]
NoTask == Task("none", 0)
StopKinds == {"sl", "emergency_sl", "replace_sl"}
TaskSet == {Task(k, 0) : k \in StopKinds \cup {"emergency_close"}}
             \cup {Task("tp", l) : l \in TpOrders}

Message == [type : {"tp", "sl", "pos"}, level : Nat, ids : BOOLEAN, size : Nat]
Idle == [at |-> "idle", level |-> 0, shift |-> FALSE, by |-> "stream"]
NoSync == [at |-> "idle", size |-> 0]

ExchangeOK ==
    /\ size \in 0 .. Original
    /\ tpLive \subseteq TpOrders
    /\ slLive \in BOOLEAN

LinkOK ==
    /\ inbox \in Seq(Message)
    /\ up \in BOOLEAN /\ warm \in BOOLEAN /\ connected \in BOOLEAN

ContextOK ==
    /\ machine \in Machine
    /\ qty \in Nat
    /\ status \in [Levels -> {"pending", "open", "triggered", "cancelled"}]
    /\ ids \subseteq Levels
    /\ dispatched \subseteq Levels
    /\ slId \in {"none", "live", "stale"}

TaskOK ==
    /\ handler \in [at : {"idle", "engine", "cleanup"}, level : Levels \cup {0},
                    shift : BOOLEAN, by : {"stream", "reconciler"}]
    /\ reconciler \in Nat
    /\ sync \in [at : {"idle", "backoff", "read", "apply", "orders"}, size : 0 .. Original]

QueueOK ==
    /\ tasks \subseteq TaskSet
    /\ inFlight \in TaskSet \cup {NoTask}
    /\ placed \in BOOLEAN

EnvOK ==
    /\ losses \in 0 .. MaxLosses /\ manual \in 0 .. MaxManual
    /\ applied \in [Levels -> Nat]

TypeOK == ExchangeOK /\ LinkOK /\ ContextOK /\ TaskOK /\ QueueOK /\ EnvOK

\* _initialize_position_runtime has just enqueued the protection of a filled
\* entry and has the position tracked.
Init ==
    /\ size = Original /\ tpLive = {} /\ slLive = FALSE
    /\ inbox = <<>> /\ up = TRUE /\ warm = TRUE /\ connected = TRUE
    /\ machine = [state |-> "open", saved |-> NoSavedState]
    /\ qty = Original
    /\ status = [l \in Levels |-> "pending"]
    /\ ids = {} /\ dispatched = {} /\ slId = "none"
    /\ handler = Idle /\ reconciler = 0 /\ sync = NoSync
    /\ tasks = {Task("sl", 0)} \cup {Task("tp", l) : l \in TpOrders}
    /\ inFlight = NoTask /\ placed = FALSE
    /\ losses = 0 /\ manual = 0
    /\ applied = [l \in Levels |-> 0]
-----------------------------------------------------------------------------
(* The exchange. *)

OrderEvent(type, l, a) == [type |-> type, level |-> l, ids |-> a, size |-> 0]
PositionEvent(s) == [type |-> "pos", level |-> 0, ids |-> FALSE, size |-> s]

\* The messages m reach the stream, or are lost with it.
Emit(m) ==
    /\ Len(inbox) + Len(m) <= MaxInbox
    /\ inbox' = IF up THEN inbox \o m ELSE inbox
    /\ UNCHANGED <<up, warm, connected>>

FillEvents(type, l, newSize) ==
    {[i \in DOMAIN d |-> IF d[i] = "o" THEN OrderEvent(type, l, a) ELSE PositionEvent(newSize)]
        : d \in Deliveries, a \in Addressed}

\* The nearest take profit fills; reduce-only orders never exceed the position.
FillTp(l) ==
    /\ l \in tpLive /\ size > 0
    /\ \A k \in tpLive : l <= k
    /\ size' = IF l = 0 \/ Close[l] > size THEN 0 ELSE size - Close[l]
    /\ tpLive' = tpLive \ {l}
    /\ \E m \in FillEvents("tp", l, size') : Emit(m)
    /\ UNCHANGED <<slLive, context, handler, reconciler, sync, queue, env, applied>>

FillSl ==
    /\ slLive /\ size > 0
    /\ size' = 0 /\ slLive' = FALSE
    /\ \E m \in FillEvents("sl", 0, 0) : Emit(m)
    /\ UNCHANGED <<tpLive, context, handler, reconciler, sync, queue, env, applied>>

ManualClose ==
    /\ size > 0 /\ manual < MaxManual
    /\ \E c \in ManualCuts \cup {size} : c <= size /\ size' = size - c
    /\ Emit(<<PositionEvent(size')>>)
    /\ manual' = manual + 1
    /\ UNCHANGED <<tpLive, slLive, context, handler, reconciler, sync, queue, losses, applied>>
-----------------------------------------------------------------------------
(* Syncing with the exchange (_sync_position), for a snapshot s. *)

Reopened == {"pending", "entering", "closed", "cancelled", "failed"}
Terminal == {"closed", "cancelled", "failed"}

\* _apply_sync_transition: the target state is forced when the trigger is invalid.
ForcedTransition(m, t, target) ==
    IF CanTransition(m, t) THEN Transition(m, t) ELSE [m EXCEPT !.state = target]

Synced(m, s) ==
    IF s = 0 THEN ForcedTransition(m, "all_closed", "closed")
    ELSE IF m.state \in Reopened THEN [m EXCEPT !.state = "open"] ELSE m

MayFail(call) == IF call \in Faults THEN BOOLEAN ELSE {FALSE}

\* _apply_transition with an invalid trigger: _attempt_state_sync, whose own
\* failure is swallowed.
AttemptStateSync(m, q) ==
    \E failed \in MayFail("sync") :
       /\ machine' = IF failed THEN m ELSE Synced(m, size)
       /\ qty' = IF failed THEN q ELSE size
-----------------------------------------------------------------------------
(* MultiTPEngine.handle_tp_triggered, under the position lock. *)

\* Mutant: placed levels no longer count as remaining.
Remaining_pendingOnly(st) == {l \in Levels : st[l] = "pending"}

Remaining(st) == {l \in Levels : st[l] \in {"pending", "open"}}

\* _transition_all_closed.
AllClosed(m) ==
    LET m1 == TryTransition(m, "tp_triggered")
    IN  IF CanTransition(m, "all_closed") THEN Transition(m, "all_closed")
        ELSE IF CanTransition(m1, "all_closed") THEN Transition(m1, "all_closed")
        ELSE TryTransition(TryTransition(m1, "partial_close"), "all_closed")

\* _transition_partial_close.
PartialClose(m) ==
    LET first == IF CanTransition(m, "partial_close") THEN Transition(m, "partial_close")
                 ELSE TryTransition(m, "tp_triggered")
    IN  IF first.state = "closing" THEN TryTransition(first, "partial_close") ELSE first

\* Mutant: the idempotency guard looks at the level's status only.
Duplicate_statusOnly(l) == status[l] = "triggered"

\* The idempotency guard.
Duplicate(l) == status[l] = "triggered" \/ l \in dispatched

\* The last level closes whatever is left.
CloseQty(l, q) == IF l = N THEN q ELSE Close[l]

Cut(q, c) == IF c >= q THEN 0 ELSE q - c

\* Up to the first await: book the level, and decide whether its SL move is due.
EngineBook(l, q, by) ==
    LET left == Cut(q, CloseQty(l, q))
    IN  /\ ~Duplicate(l)
        /\ dispatched' = dispatched \cup {l}
        /\ qty' = left
        /\ status' = [status EXCEPT ![l] = "triggered"]
        /\ applied' = [applied EXCEPT ![l] = @ + 1]
        /\ handler' = [at |-> "engine", level |-> l, shift |-> l # N /\ left > 0, by |-> by]
        /\ UNCHANGED <<machine, ids, slId>>

\* What is left once _cancel_remaining_orders has purged the protective tasks.
Purged(ts) == {t \in ts : t.kind = "emergency_close"}
Cleanup == [Idle EXCEPT !.at = "cleanup"]

\* The rest: _dispatch_sl_shift enqueues a replace_sl unless there is no
\* directive, no change, or the live position cannot be read or is flat; then
\* the state transitions.  Only the stream's caller cancels the reconciler and
\* cleans up.
EngineFinish ==
    /\ handler.at = "engine"
    /\ machine' = IF Remaining(status) = {} \/ qty = 0
                  THEN AllClosed(machine) ELSE PartialClose(machine)
    /\ \E moved \in {FALSE, handler.shift /\ size > 0} :
         LET queued == IF moved THEN tasks \cup {Task("replace_sl", 0)} ELSE tasks
         IN  IF handler.by = "stream" /\ (machine'.state = "closed" \/ qty = 0)
             THEN handler' = Cleanup /\ tasks' = Purged(queued)
             ELSE handler' = Idle /\ tasks' = queued
    /\ reconciler' = IF handler.by = "stream" THEN 0 ELSE reconciler
    /\ UNCHANGED <<exchange, link, qty, status, ids, dispatched, slId, sync, inFlight,
                   placed, env, applied>>
-----------------------------------------------------------------------------
(* The stream's handlers, each for the message at the head of the inbox. *)

Receive(type) ==
    /\ up /\ inbox # <<>> /\ handler = Idle
    /\ Head(inbox).type = type
    /\ inbox' = Tail(inbox)
    /\ UNCHANGED <<up, warm, connected, exchange, sync, inFlight, placed, env>>

Ignore == UNCHANGED <<context, handler, reconciler, tasks, applied>>

\* _handle_order_update before the warm-up is over.
SuppressOrderUpdate ==
    /\ ~warm
    /\ \E type \in {"tp", "sl"} : Receive(type)
    /\ Ignore

\* _close_position, then the clean-up unless its last transition was invalid
\* and `strict'.
ClosePosition(trigger, strict) ==
    LET m == TryTransition(machine, trigger)
    IN  \/ /\ CanTransition(m, "all_closed")
           /\ machine' = Transition(m, "all_closed") /\ qty' = 0
           /\ handler' = Cleanup /\ tasks' = Purged(tasks)
        \/ /\ ~CanTransition(m, "all_closed")
           /\ AttemptStateSync(m, 0)
           /\ IF strict THEN UNCHANGED <<handler, tasks>>
              ELSE handler' = Cleanup /\ tasks' = Purged(tasks)

Gone == machine.state = "closed" /\ qty = 0

\* _match_tp_level: by order id when the event carries one, else by price.
Matches(e) == /\ e.level \in Levels
              /\ status[e.level] # "triggered"
              /\ e.ids => e.level \in ids

\* _event_matches_triggered_level.
MatchesTriggered(e) == /\ e.level \in Levels
                       /\ e.ids /\ e.level \in ids
                       /\ status[e.level] = "triggered"

\* _handle_tp_triggered_event of a multi-TP position.
TpEvent ==
    LET e == Head(inbox)
    IN  /\ Receive("tp") /\ warm /\ N > 0
        /\ \/ /\ MatchesTriggered(e)
              /\ reconciler' = 0
              /\ UNCHANGED <<context, handler, tasks, applied>>
           \/ ~MatchesTriggered(e) /\ ~Matches(e) /\ Ignore
           \/ /\ Matches(e)
              /\ EngineBook(e.level, qty, "stream")
              /\ UNCHANGED <<reconciler, tasks>>
           \/ /\ Matches(e) /\ Duplicate(e.level)
              /\ reconciler' = 0
              /\ IF machine.state = "closed" \/ qty = 0
                 THEN handler' = Cleanup /\ tasks' = Purged(tasks)
                 ELSE UNCHANGED <<handler, tasks>>
              /\ UNCHANGED <<context, applied>>

\* _handle_tp_triggered_event of a position with a single take profit.
SingleTpEvent ==
    /\ Receive("tp") /\ warm /\ N = 0
    /\ \/ Gone /\ Ignore
       \/ /\ ~Gone
          /\ ClosePosition("tp_triggered", TRUE)
          /\ UNCHANGED <<status, ids, dispatched, slId, reconciler, applied>>

\* _handle_sl_triggered_event.
SlEvent ==
    /\ Receive("sl") /\ warm
    /\ \/ Gone /\ Ignore
       \/ /\ ~Gone /\ CanTransition(machine, "sl_triggered")
          /\ ClosePosition("sl_triggered", TRUE)
          /\ UNCHANGED <<status, ids, dispatched, slId, reconciler, applied>>
       \/ /\ ~Gone /\ ~CanTransition(machine, "sl_triggered")
          /\ AttemptStateSync(machine, qty)
          /\ UNCHANGED <<status, ids, dispatched, slId, handler, reconciler, tasks, applied>>

\* Mutant: dust counts as flat.
IsFlat_dust(s) == s <= 1

IsFlat(s) == s = 0

\* _handle_position_update of a flat position.
PositionFlat ==
    /\ Receive("pos") /\ IsFlat(Head(inbox).size)
    /\ \/ Gone /\ Ignore
       \/ /\ ~Gone
          /\ ClosePosition("manual_close", FALSE)
          /\ UNCHANGED <<status, ids, dispatched, slId, reconciler, applied>>

\* _handle_position_update with a live size: a shrunk multi-TP position gets a
\* reconciler, which replaces the one that is still asleep.
PositionResized ==
    LET s == Head(inbox).size
    IN  /\ Receive("pos") /\ ~IsFlat(s)
        /\ qty' = s
        /\ reconciler' = IF s < qty /\ N > 0 /\ machine.state \in {"open", "adjusting"}
                         THEN qty - s ELSE reconciler
        /\ UNCHANGED <<machine, status, ids, dispatched, slId, handler, tasks, applied>>

\* Mutant: only the orders the position knows of are cancelled.
FetchedTp_none(noFetch) == {}

\* _fetch_open_conditional_order_ids, whose failure is swallowed.
FetchedTp(noFetch) == IF noFetch THEN {} ELSE tpLive

\* The end of _cancel_remaining_orders: the executing SL task is awaited (the
\* two-second timeout is in OrderQueue), the known and the fetched orders are
\* cancelled.  Id 0 is the stop loss.
CancelRemainingOrders ==
    /\ handler.at = "cleanup"
    /\ inFlight.kind \notin StopKinds
    /\ \E noFetch \in MayFail("fetch") :
         LET known == {l \in ids : status[l] # "triggered"}
             gone  == known \cup FetchedTp(noFetch)
         IN  /\ \E kept \in IF "cancel" \in Faults THEN SUBSET gone ELSE {{}} :
                   tpLive' = tpLive \ (gone \ kept)
             /\ \E kept \in MayFail("cancel") :
                   slLive' = (slLive /\ ((noFetch /\ slId # "live") \/ kept))
             /\ status' = [l \in Levels |-> IF l \in ids /\ status[l] # "triggered"
                                            THEN "cancelled" ELSE status[l]]
    /\ slId' = "none"
    /\ handler' = Idle
    /\ UNCHANGED <<size, link, machine, qty, ids, dispatched, reconciler, sync, queue,
                   env, applied>>

StreamStep ==
    \/ SuppressOrderUpdate \/ TpEvent \/ SingleTpEvent \/ SlEvent
    \/ PositionFlat \/ PositionResized
-----------------------------------------------------------------------------
(* _reconcile_partial_close, some time after the position update. *)

\* _closest_open_tp_level_by_qty.
ClosestOpenLevel(delta) ==
    {l \in Levels : /\ status[l] # "triggered" /\ Close[l] = delta
                    /\ \A k \in 1 .. l - 1 : status[k] = "triggered" \/ Close[k] # delta}

\* Mutant: the position update's own decrement is not undone first.
Restored_not(q, delta) == q

\* The position update has already taken delta off; the engine will again.
Restored(q, delta) == q + delta

ReconcilePartialClose ==
    /\ reconciler # 0 /\ handler = Idle
    /\ reconciler' = 0
    /\ LET matched == IF machine.state \in {"open", "adjusting"}
                      THEN ClosestOpenLevel(reconciler) ELSE {}
       IN  \/ /\ matched = {}
              /\ UNCHANGED <<context, handler, applied>>
           \/ \E l \in matched : EngineBook(l, Restored(qty, reconciler), "reconciler")
           \/ \E l \in matched :
                 /\ Duplicate(l)
                 /\ qty' = Restored(qty, reconciler)
                 /\ UNCHANGED <<machine, status, ids, dispatched, slId, handler, applied>>
    /\ UNCHANGED <<exchange, link, sync, queue, env>>
-----------------------------------------------------------------------------
(* The order queue's worker and its callbacks, which take no lock. *)

\* OrderPriority, then creation time: the SL is enqueued before the TPs, the
\* TPs in the order of their levels.
Rank(t) == CASE t.kind = "emergency_sl"    -> 0
             [] t.kind = "emergency_close" -> 1
             [] t.kind = "replace_sl"      -> 2
             [] t.kind = "sl"              -> 3
             [] t.kind = "tp"              -> 4 + t.level

StartTask ==
    /\ inFlight = NoTask
    /\ \E t \in tasks :
         /\ \A u \in tasks : Rank(t) <= Rank(u)
         /\ inFlight' = t /\ tasks' = tasks \ {t}
    /\ placed' = FALSE
    /\ UNCHANGED <<exchange, link, context, handler, reconciler, sync, env, applied>>

\* The exchange acts on the order; on a flat position it rejects it, and a TP
\* order may fail for good: the queue drops the task.
ExecuteTask ==
    /\ inFlight # NoTask /\ ~placed
    /\ \E failed \in MayFail("place") :
       IF size = 0 \/ (failed /\ inFlight.kind = "tp")
       THEN /\ inFlight' = NoTask
            /\ UNCHANGED <<exchange, link, slId, placed>>
       ELSE /\ tpLive' = IF inFlight.kind = "tp" THEN tpLive \cup {inFlight.level} ELSE tpLive
            /\ slLive' = (slLive \/ inFlight.kind \in StopKinds)
            /\ slId' = IF inFlight.kind \in StopKinds /\ slId = "live" THEN "stale" ELSE slId
            /\ IF inFlight.kind = "emergency_close"
               THEN size' = 0 /\ Emit(<<PositionEvent(0)>>)
               ELSE UNCHANGED <<size, link>>
            /\ placed' = TRUE
            /\ UNCHANGED inFlight
    /\ UNCHANGED <<machine, qty, status, ids, dispatched, handler, reconciler, sync,
                   tasks, env, applied>>

\* _build_conditional_order_callback and _build_sl_adjustment_callback; the
\* emergency tasks have none.
RunCallback ==
    LET l == inFlight.level
        tracked == inFlight.kind = "tp" /\ l \in Levels
    IN  /\ inFlight # NoTask /\ placed
        /\ inFlight' = NoTask /\ placed' = FALSE
        /\ ids' = IF tracked THEN ids \cup {l} ELSE ids
        /\ status' = IF tracked THEN [status EXCEPT ![l] = "open"] ELSE status
        /\ slId' = IF inFlight.kind \in {"sl", "replace_sl"} THEN "live" ELSE slId
        /\ machine' = IF inFlight.kind = "replace_sl"
                      THEN TryTransition(machine, "adjustment_complete") ELSE machine
        /\ UNCHANGED <<exchange, link, qty, dispatched, handler, reconciler, sync, tasks,
                       env, applied>>

WorkerStep == StartTask \/ ExecuteTask \/ RunCallback
-----------------------------------------------------------------------------
(* Losing the stream and coming back.  _handle_disconnect runs in the task   *)
(* of the stream that died, so never inside one of that stream's handlers.   *)

NoStreamHandler == handler.at = "idle" \/ handler.by = "reconciler"

\* The stream dies; while a re-sync is running its notification is ignored.
LoseStream ==
    /\ up /\ losses < MaxLosses /\ NoStreamHandler
    /\ up' = FALSE /\ inbox' = <<>> /\ warm' = FALSE
    /\ losses' = losses + 1
    /\ IF sync.at # "idle"
       THEN UNCHANGED <<machine, qty, sync, connected>>
       ELSE /\ connected' = FALSE
            /\ sync' = [sync EXCEPT !.at = "backoff"]
            /\ CASE machine.state \in Terminal -> UNCHANGED <<machine, qty>>
                 [] CanTransition(machine, "ws_disconnected") ->
                      machine' = Transition(machine, "ws_disconnected") /\ UNCHANGED qty
                 [] OTHER -> AttemptStateSync(machine, qty)
    /\ UNCHANGED <<exchange, status, ids, dispatched, slId, handler, reconciler, queue,
                   manual, applied>>

\* A stop order may lapse on the exchange while nobody listens.
StopVanishes ==
    /\ ~up /\ slLive
    /\ slLive' = FALSE
    /\ slId' = IF slId = "live" THEN "stale" ELSE slId
    /\ UNCHANGED <<size, tpLive, link, machine, qty, status, ids, dispatched, handler,
                   reconciler, sync, queue, env, applied>>

\* start: a new stream, a new warm-up.
Restart == up' = TRUE /\ warm' = FALSE /\ inbox' = <<>> /\ connected' = TRUE

\* An attempt of the reconnect loop, the first or, when a sync failed, the next.
Reconnect ==
    /\ \/ sync.at = "backoff"
       \/ sync.at \in {"read", "orders"} /\ "sync" \in Faults
    /\ Restart
    /\ sync' = [at |-> "read", size |-> 0]
    /\ UNCHANGED <<exchange, context, handler, reconciler, queue, env, applied>>

WarmUp ==
    /\ up /\ ~warm
    /\ warm' = TRUE
    /\ UNCHANGED <<exchange, inbox, up, connected, context, handler, reconciler, sync, queue,
                   env, applied>>

\* _sync_position: the REST snapshot is taken here and used by SyncApply.
SyncRead ==
    /\ sync.at = "read"
    /\ sync' = [at |-> "apply", size |-> size]
    /\ UNCHANGED <<exchange, link, context, handler, reconciler, queue, env, applied>>

SyncApply ==
    /\ sync.at = "apply"
    /\ qty' = sync.size
    /\ machine' = Synced(machine, sync.size)
    /\ sync' = IF sync.size = 0 THEN NoSync ELSE [sync EXCEPT !.at = "orders"]
    /\ UNCHANGED <<exchange, link, status, ids, dispatched, slId, handler, reconciler,
                   queue, env, applied>>

\* Mutant: a missing stop loss goes unnoticed.
MissingStop_never == FALSE

MissingStop == ~slLive /\ machine.state # "closed" /\ qty > 0

\* Mutant: the synced position stays in RECONNECTING.
SyncCompleted_not(m) == m

SyncCompleted(m) ==
    IF m.state = "reconnecting" THEN Transition(m, "sync_complete") ELSE m

\* get_open_conditional_orders: a missing stop loss is re-placed, and a position
\* that was reconnecting returns to its earlier state.
SyncOrders ==
    /\ sync.at = "orders"
    /\ tasks' = IF MissingStop THEN tasks \cup {Task("emergency_sl", 0)} ELSE tasks
    /\ machine' = SyncCompleted(machine)
    /\ sync' = NoSync
    /\ UNCHANGED <<exchange, link, qty, status, ids, dispatched, slId, handler, reconciler,
                   inFlight, placed, env, applied>>

\* The attempts are exhausted: _emergency_close_all.
GiveUp ==
    /\ sync.at = "backoff" /\ "sync" \in Faults
    /\ tasks' = IF qty = 0 \/ machine.state = "closed" THEN tasks
                ELSE tasks \cup {Task("emergency_close", 0)}
    /\ sync' = NoSync
    /\ UNCHANGED <<exchange, link, context, handler, reconciler, inFlight, placed, env, applied>>

\* The 60-second hydrate loop restarts a manager that knows it is disconnected.
Hydrate ==
    /\ ~connected /\ sync.at = "idle" /\ machine.state \notin Terminal
    /\ Restart
    /\ UNCHANGED <<exchange, context, handler, reconciler, sync, queue, env, applied>>

SyncStep == Reconnect \/ SyncRead \/ SyncApply \/ SyncOrders \/ GiveUp

Next ==
    \/ \E l \in TpOrders : FillTp(l)
    \/ FillSl \/ ManualClose \/ StopVanishes
    \/ StreamStep \/ EngineFinish \/ CancelRemainingOrders \/ ReconcilePartialClose
    \/ WorkerStep
    \/ LoseStream \/ WarmUp \/ SyncStep \/ Hydrate

\* Coroutines that can run do run, timers expire, a reconnect attempt succeeds.
Fairness ==
    /\ WF_vars(StreamStep) /\ WF_vars(EngineFinish) /\ WF_vars(CancelRemainingOrders)
    /\ WF_vars(ReconcilePartialClose) /\ WF_vars(WorkerStep) /\ WF_vars(WarmUp)
    /\ WF_vars(Reconnect) /\ WF_vars(SyncRead) /\ WF_vars(SyncApply) /\ WF_vars(SyncOrders)

Spec == Init /\ [][Next]_vars
FairSpec == Spec /\ Fairness
-----------------------------------------------------------------------------
(* Properties. *)

\* However often a take profit is reported (echoes, late events, an inferred
\* fill, a callback that rewinds the level's status), its close quantity is
\* subtracted from the position at most once.
LevelAppliedOnce == \A l \in Levels : applied[l] <= 1

\* A position booked as closed is flat on the exchange: _cancel_remaining_orders
\* then removes protection only from a position that no longer exists.
ClosedIsFlat == machine.state = "closed" => size = 0

Quiet == up /\ inbox = <<>> /\ handler = Idle /\ sync.at = "idle" /\ reconciler = 0
Settled == Quiet /\ tasks = {} /\ inFlight = NoTask

\* Once every message is handled and nothing is pending, the local quantity is
\* the exchange's, as long as the stream delivers (a REST re-sync may write an
\* old snapshot over newer events: README, section 3.4).
QuantityAgrees == Quiet => qty = size

\* Once everything has settled, a closed position has left no conditional order
\* on the exchange, as long as the stream delivers.
ClosedIsClean == Settled /\ machine.state = "closed" => tpLive = {} /\ ~slLive

\* Once everything has settled, a live position has a stop loss, even if the
\* exchange dropped it while the stream was down.
OpenIsProtected == Settled /\ size > 0 => slLive

\* A position that a lost stream has put into RECONNECTING leaves that state.
ReconnectingEnds == (machine.state = "reconnecting") ~> (machine.state # "reconnecting")
=============================================================================
