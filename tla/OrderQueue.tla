----------------------------- MODULE OrderQueue -----------------------------
(***************************************************************************)
(* The per-account OrderExecutionQueue (app/services/position/             *)
(* order_queue.py): callers enqueue order tasks, one worker coroutine      *)
(* executes them against the exchange, and the cleanup of a closed         *)
(* position purges pending tasks and waits for the executing one.          *)
(*                                                                         *)
(* A task is a mutable object: the priority queue, the pending map and the *)
(* worker all hold references to it, so tasks have identities (TaskIds)    *)
(* and `task' maps an identity to the object's current fields.  Prices,    *)
(* order ids and TP level numbers are all members of Targets: the queue    *)
(* only compares them for equality.                                        *)
(***************************************************************************)
EXTENDS Integers, FiniteSets

CONSTANTS
    Positions,    \* position ids served by this account's queue
    Targets,      \* trigger prices, TP levels, order ids that discriminate keys
    NoTarget,     \* "no discriminator in the params"
    NoTask,       \* absent entry of the pending map
    Requests,     \* the tasks that callers may enqueue
    MaxRetries,   \* OrderTask.max_retries
    Window,       \* quick-fire coalescing window, in clock ticks
    MaxTasks,     \* bound: tasks that callers may create
    MaxClock      \* bound: clock ticks

Actions == {"place_sl", "replace_sl", "place_tp", "replace_tp",
            "partial_close", "emergency_market_close", "cancel_order"}

\* Protective actions: the ones whose failure escalates.
SlActions == {"place_sl", "replace_sl"}

\* Actions whose task key carries a discriminator besides the position.
KeyedActions == {"place_sl", "replace_sl", "place_tp", "replace_tp", "cancel_order"}

\* What WebSocketManager._cancel_remaining_orders purges, and what it waits for.
PurgedActions  == {"place_sl", "replace_sl", "place_tp", "replace_tp"}
QuiesceActions == {"place_sl", "replace_sl"}

EMERGENCY_CLOSE == 1

\* The fields of an OrderTask that callers choose.  multiTp: the reason is
\* tp<N>_hit_sl_adjustment; hasSide, hasQty: the params carry a closing side,
\* a positive quantity; callback: on_success is set.
Request == [position : Positions, action : Actions, target : Targets \cup {NoTarget},
            priority : Nat, multiTp : BOOLEAN, hasSide : BOOLEAN,
            hasQty : BOOLEAN, callback : BOOLEAN]

TaskIds == 1 .. (2 * MaxTasks)   \* every caller task escalates at most once

Task == [req : Request, created_at : Nat, retry_count : Nat]

Keys == Positions \X Actions \X (Targets \cup {NoTarget})

ASSUME QueueAssumption ==
    /\ Positions # {}
    /\ Requests \subseteq Request
    /\ MaxRetries \in Nat /\ Window \in Nat /\ MaxClock \in Nat
    /\ MaxTasks \in Nat \ {0}
    /\ NoTask \notin 1 .. (2 * MaxTasks)

VARIABLES
    task,        \* the OrderTask objects
    fresh,       \* the next unused identity
    queue,       \* identities in the asyncio.PriorityQueue
    dirty,       \* a queued task's sort key changed without re-sifting the heap
    pending,     \* _pending_tasks
    tombstones,  \* _tombstoned_keys
    pc,          \* where the worker loop is
    cur,         \* the task in the worker's hands
    curKey,      \* the key the worker computed when it popped cur
    sent,        \* the params captured when cur's execution began
    outcome,     \* how that execution ended
    processing,  \* _processing
    clock,       \* time.time(), in ticks
    cleanup,     \* progress of _cancel_remaining_orders, per position
    attempts,    \* history: executions of each task
    owed         \* history: positions whose SL failed and that are not yet flattened

worker  == <<pc, cur, curKey, sent, outcome>>
history == <<attempts, owed>>
vars == <<task, fresh, queue, dirty, pending, tombstones, worker, processing,
          clock, cleanup, history>>

Key(r) == <<r.position, r.action,
            IF r.action \in KeyedActions THEN r.target ELSE NoTarget>>

\* OrderTask is ordered by (priority, created_at).
Before(a, b) ==
    \/ task[a].req.priority < task[b].req.priority
    \/ /\ task[a].req.priority = task[b].req.priority
       /\ task[a].created_at < task[b].created_at

\* What PriorityQueue.get may return.  The heap only guarantees its minimum
\* while the keys of its elements do not change (OrderQueueHeap has the array).
Poppable == IF dirty THEN queue
            ELSE {t \in queue : \A u \in queue : ~Before(u, t)}

Live(t) == t \in queue \/ (pc # "idle" /\ cur = t)

\* The tasks whose fields will still be read before they reach the exchange.
Awaiting(t) == t \in queue \/ (pc \in {"popped", "headroom", "backoff"} /\ cur = t)

IsSl(r) == r.action \in SlActions

Blank == [position |-> CHOOSE p \in Positions : TRUE, action |-> "cancel_order",
          target |-> NoTarget, priority |-> 50, multiTp |-> FALSE,
          hasSide |-> FALSE, hasQty |-> FALSE, callback |-> FALSE]
NoKey == Key(Blank)

TypeOK ==
    /\ task \in [TaskIds -> Task]
    /\ fresh \in 1 .. (2 * MaxTasks + 1)
    /\ queue \subseteq TaskIds
    /\ dirty \in BOOLEAN
    /\ pending \in [Keys -> TaskIds \cup {NoTask}]
    /\ tombstones \subseteq Keys
    /\ pc \in {"idle", "popped", "headroom", "executing", "backoff", "settling"}
    /\ cur \in TaskIds \cup {NoTask}
    /\ curKey \in Keys
    /\ sent \in Request
    /\ outcome \in {"ok", "exhausted", "would_trigger", "flat", "fatal", "callback"}
    /\ processing \in BOOLEAN
    /\ clock \in 0 .. MaxClock
    /\ cleanup \in [Positions -> {"none", "purged", "waiting", "quiesced", "timedout"}]
    /\ attempts \in [TaskIds -> Nat]
    /\ owed \subseteq Positions

Init ==
    /\ task = [t \in TaskIds |-> [req |-> Blank, created_at |-> 0, retry_count |-> 0]]
    /\ fresh = 1
    /\ queue = {}
    /\ dirty = FALSE
    /\ pending = [k \in Keys |-> NoTask]
    /\ tombstones = {}
    /\ pc = "idle" /\ cur = NoTask /\ curKey = NoKey /\ sent = Blank /\ outcome = "ok"
    /\ processing = TRUE
    /\ clock = 0
    /\ cleanup = [p \in Positions |-> "none"]
    /\ attempts = [t \in TaskIds |-> 0]
    /\ owed = {}
-----------------------------------------------------------------------------
(* enqueue: everything happens under _pending_lock, so it is one step. *)

\* _find_quickfire_replace_sl: a pending multi-TP replace_sl of the same
\* position created within the window.  The dict's iteration order decides
\* between several; any of them is allowed here.
Quickfire(r) ==
    IF r.action = "replace_sl" /\ r.multiTp
    THEN {k \in Keys :
            /\ pending[k] # NoTask
            /\ LET e == task[pending[k]]
               IN  /\ e.req.position = r.position
                   /\ e.req.action = "replace_sl"
                   /\ e.req.multiTp
                   /\ clock - e.created_at <= Window}
    ELSE {}

\* The existing task takes over the params; an SL task also takes the time and
\* the higher priority.  The heap is not re-sifted and on_success is kept.
Merged(old, r) ==
    IF IsSl(r)
    THEN [old EXCEPT !.req = [r EXCEPT
                                !.priority = IF r.priority < old.req.priority
                                             THEN r.priority ELSE old.req.priority,
                                !.callback = old.req.callback],
                     !.created_at = clock]
    ELSE [old EXCEPT !.req = [r EXCEPT !.priority = old.req.priority,
                                       !.callback = old.req.callback]]

CoalesceInto(e, r) ==
    /\ task' = [task EXCEPT ![e] = Merged(task[e], r)]
    /\ dirty' = (dirty \/ (IsSl(r) /\ e \in queue))
    /\ UNCHANGED <<fresh, queue>>

\* Only under a changed key is the pending map touched: rekeyed.
CoalesceQuickfire(r, k) ==
    /\ CoalesceInto(pending[k], r)
    /\ pending' = [pending EXCEPT ![k] = NoTask, ![Key(r)] = pending[k]]

CoalesceSameKey(r) ==
    /\ CoalesceInto(pending[Key(r)], r)
    /\ UNCHANGED pending

Insert(r) ==
    /\ fresh \in TaskIds
    /\ task' = [task EXCEPT ![fresh] = [req |-> r, created_at |-> clock, retry_count |-> 0]]
    /\ fresh' = fresh + 1
    /\ queue' = queue \cup {fresh}
    /\ pending' = [pending EXCEPT ![Key(r)] = fresh]
    /\ UNCHANGED dirty

Enqueue(r) ==
    \/ \E k \in Quickfire(r) : CoalesceQuickfire(r, k)
    \/ Quickfire(r) = {} /\ pending[Key(r)] # NoTask /\ CoalesceSameKey(r)
    \/ Quickfire(r) = {} /\ pending[Key(r)] = NoTask /\ Insert(r)

\* A caller (WS manager, multi-TP engine, live tracker, watcher) enqueues.
Submit(r) ==
    /\ fresh <= MaxTasks
    /\ Enqueue(r)
    /\ UNCHANGED <<tombstones, worker, processing, clock, cleanup, history>>
-----------------------------------------------------------------------------
(* start_processing: the worker loop. *)

\* The next iteration begins; the loop's local variables are dead.
NextIteration ==
    /\ pc' = "idle"
    /\ cur' = NoTask /\ curKey' = NoKey /\ sent' = Blank /\ outcome' = "ok"

Pop(t) ==
    /\ pc = "idle" /\ processing
    /\ t \in Poppable
    /\ queue' = queue \ {t}
    /\ dirty' = (dirty /\ queue' # {})
    /\ cur' = t
    /\ curKey' = Key(task[t].req)
    /\ pc' = "popped"
    /\ UNCHANGED <<task, fresh, pending, tombstones, sent, outcome, processing,
                   clock, cleanup, history>>

\* The tombstone of the key is consumed and the popped task is discarded.
DropTombstoned ==
    /\ pc = "popped"
    /\ curKey \in tombstones
    /\ tombstones' = tombstones \ {curKey}
    /\ NextIteration
    /\ UNCHANGED <<task, fresh, queue, dirty, pending, processing, clock, cleanup, history>>

KeepPopped ==
    /\ pc = "popped"
    /\ curKey \notin tombstones
    /\ pc' = "headroom"
    /\ UNCHANGED <<task, fresh, queue, dirty, pending, tombstones, cur, curKey, sent,
                   outcome, processing, clock, cleanup, history>>

\* Mutants: a stopped queue drops the task in hand; the task is put back although
\* the queue was not stopped.
PutBack_drops ==
    /\ pc = "headroom" /\ ~processing
    /\ NextIteration
    /\ UNCHANGED <<task, fresh, queue, dirty, pending, tombstones, processing, clock,
                   cleanup, history>>

PutBack_running ==
    /\ pc = "headroom"
    /\ queue' = queue \cup {cur}
    /\ NextIteration
    /\ UNCHANGED <<task, fresh, dirty, pending, tombstones, processing, clock, cleanup,
                   history>>

\* stop() was called during _wait_for_rate_limit_headroom: put the task back.
PutBack ==
    /\ pc = "headroom" /\ ~processing
    /\ queue' = queue \cup {cur}
    /\ NextIteration
    /\ UNCHANGED <<task, fresh, dirty, pending, tombstones, processing, clock, cleanup,
                   history>>

\* Headroom was granted: the key is marked executing and _execute_task
\* captures the params the task has now.
StartExecution ==
    /\ pc = "headroom" /\ processing
    /\ pc' = "executing"
    /\ sent' = task[cur].req
    /\ attempts' = [attempts EXCEPT ![cur] = @ + 1]
    /\ owed' = IF task[cur].req.action = "emergency_market_close"
               THEN owed \ {task[cur].req.position} ELSE owed
    /\ UNCHANGED <<task, fresh, queue, dirty, pending, tombstones, cur, curKey, outcome,
                   processing, clock, cleanup>>

\* How _execute_task and on_success may end for the captured params.  An
\* emergency close first re-queries the position: no position is a success
\* without an order; with one, a missing side is a ValueError.
Outcomes(r) ==
    IF r.action = "emergency_market_close" /\ ~r.hasSide
    THEN {"ok", "fatal"}
    ELSE {"ok", "transient", "flat", "fatal"}
         \cup (IF r.action \in PurgedActions THEN {"would_trigger"} ELSE {})
         \cup (IF r.callback THEN {"callback"} ELSE {})

\* Mutant: the finally clause does not clear the pending entry.
FinishOk_keepsPending ==
    /\ pc = "executing"
    /\ NextIteration
    /\ UNCHANGED <<task, fresh, queue, dirty, pending, tombstones, processing, clock,
                   cleanup, history>>

FinishOk ==
    /\ pc = "executing"
    /\ pending' = [pending EXCEPT ![curKey] = NoTask]
    /\ NextIteration
    /\ UNCHANGED <<task, fresh, queue, dirty, tombstones, processing, clock, cleanup,
                   history>>

\* Mutants: one retry too many; the pending entry is cleared although the task
\* will run again.
FinishTransient_offByOne ==
    /\ pc = "executing"
    /\ "transient" \in Outcomes(sent)
    /\ task[cur].retry_count <= MaxRetries
    /\ pc' = "backoff"
    /\ task' = [task EXCEPT ![cur].retry_count = @ + 1]
    /\ UNCHANGED <<fresh, queue, dirty, pending, tombstones, cur, curKey, sent, outcome,
                   processing, clock, cleanup, history>>

FinishTransient_clearsPending ==
    /\ pc = "executing"
    /\ "transient" \in Outcomes(sent)
    /\ task[cur].retry_count < MaxRetries
    /\ pc' = "backoff"
    /\ task' = [task EXCEPT ![cur].retry_count = @ + 1]
    /\ pending' = [pending EXCEPT ![curKey] = NoTask]
    /\ UNCHANGED <<fresh, queue, dirty, tombstones, cur, curKey, sent, outcome,
                   processing, clock, cleanup, history>>

\* TransientExchangeError with retries left: back off, the pending entry stays.
FinishTransient ==
    /\ pc = "executing"
    /\ "transient" \in Outcomes(sent)
    /\ task[cur].retry_count < MaxRetries
    /\ pc' = "backoff"
    /\ task' = [task EXCEPT ![cur].retry_count = @ + 1]
    /\ UNCHANGED <<fresh, queue, dirty, pending, tombstones, cur, curKey, sent, outcome,
                   processing, clock, cleanup, history>>

Requeue ==
    /\ pc = "backoff"
    /\ queue' = queue \cup {cur}
    /\ NextIteration
    /\ UNCHANGED <<task, fresh, dirty, pending, tombstones, processing, clock, cleanup,
                   history>>

\* The outcomes whose handlers escalate: _handle_max_retries for an exhausted
\* task, _handle_fatal_error for any other exception, on_success's included.
EscalatingOutcomes == {"exhausted", "fatal", "callback"}

Escalates(r, o) == o \in EscalatingOutcomes /\ IsSl(r) /\ r.hasQty

\* Every other error ends the attempt; its handler first awaits an audit hook.
FinishFailed(o) ==
    /\ pc = "executing"
    /\ \/ o = "exhausted" /\ "transient" \in Outcomes(sent) /\ task[cur].retry_count >= MaxRetries
       \/ o \in Outcomes(sent) \ {"ok", "transient"}
    /\ outcome' = o
    /\ pc' = "settling"
    /\ UNCHANGED <<task, fresh, queue, dirty, pending, tombstones, cur, curKey, sent,
                   processing, clock, cleanup, history>>

\* The emergency close that replaces failed SL task r.
EmergencyOf(r) ==
    [position |-> r.position, action |-> "emergency_market_close", target |-> NoTarget,
     priority |-> EMERGENCY_CLOSE, multiTp |-> FALSE, hasSide |-> r.hasSide,
     hasQty |-> r.hasQty, callback |-> FALSE]

\* The handler enqueues the emergency close (an ordinary enqueue: it coalesces
\* with one already pending), then the finally clause clears the pending entry.
SettleEscalate ==
    /\ pc = "settling" /\ Escalates(task[cur].req, outcome)
    /\ LET e == EmergencyOf(task[cur].req)
           k == Key(e)
       IN  IF pending[k] # NoTask
           THEN /\ task' = [task EXCEPT ![pending[k]] = Merged(task[pending[k]], e)]
                /\ pending' = [pending EXCEPT ![curKey] = NoTask]
                /\ UNCHANGED <<fresh, queue>>
           ELSE /\ fresh \in TaskIds
                /\ task' = [task EXCEPT ![fresh] =
                              [req |-> e, created_at |-> clock, retry_count |-> 0]]
                /\ fresh' = fresh + 1
                /\ queue' = queue \cup {fresh}
                /\ pending' = [pending EXCEPT ![k] = fresh, ![curKey] = NoTask]
    /\ owed' = owed \cup {task[cur].req.position}
    /\ NextIteration
    /\ UNCHANGED <<dirty, tombstones, processing, clock, cleanup, attempts>>

SettleDrop ==
    /\ pc = "settling" /\ ~Escalates(task[cur].req, outcome)
    /\ pending' = [pending EXCEPT ![curKey] = NoTask]
    /\ NextIteration
    /\ UNCHANGED <<task, fresh, queue, dirty, tombstones, processing, clock, cleanup,
                   history>>

Stop ==
    /\ processing
    /\ processing' = FALSE
    /\ UNCHANGED <<task, fresh, queue, dirty, pending, tombstones, worker, clock,
                   cleanup, history>>
-----------------------------------------------------------------------------
(* Cleanup of a closed position. *)

PurgeKeys(p) == {k \in Keys : /\ pending[k] # NoTask
                              /\ k[1] = p
                              /\ task[pending[k]].req.action \in PurgedActions}

PurgePending(p) ==
    /\ cleanup[p] = "none"
    /\ pending' = [k \in Keys |-> IF k \in PurgeKeys(p) THEN NoTask ELSE pending[k]]
    /\ tombstones' = tombstones \cup PurgeKeys(p)
    /\ cleanup' = [cleanup EXCEPT ![p] = "purged"]
    /\ UNCHANGED <<task, fresh, queue, dirty, worker, processing, clock, history>>

\* _executing_keys has the current key exactly while the execution runs.
ExecutingFor(p) == pc = "executing" /\ curKey[1] = p /\ curKey[2] \in QuiesceActions

\* await_quiescent: TRUE at once, or wait for the executing task's event.
AwaitQuiescent(p) ==
    /\ cleanup[p] = "purged"
    /\ cleanup' = [cleanup EXCEPT ![p] = IF ExecutingFor(p) THEN "waiting" ELSE "quiesced"]
    /\ UNCHANGED <<task, fresh, queue, dirty, pending, tombstones, worker, processing,
                   clock, history>>

QuiesceDone(p) ==
    /\ cleanup[p] = "waiting"
    /\ ~ExecutingFor(p)
    /\ cleanup' = [cleanup EXCEPT ![p] = "quiesced"]
    /\ UNCHANGED <<task, fresh, queue, dirty, pending, tombstones, worker, processing,
                   clock, history>>

QuiesceTimeout(p) ==
    /\ cleanup[p] = "waiting"
    /\ ExecutingFor(p)
    /\ cleanup' = [cleanup EXCEPT ![p] = "timedout"]
    /\ UNCHANGED <<task, fresh, queue, dirty, pending, tombstones, worker, processing,
                   clock, history>>

Tick ==
    /\ clock < MaxClock
    /\ clock' = clock + 1
    /\ UNCHANGED <<task, fresh, queue, dirty, pending, tombstones, worker, processing,
                   cleanup, history>>
-----------------------------------------------------------------------------
WorkerStep ==
    \/ DropTombstoned
    \/ KeepPopped
    \/ PutBack
    \/ StartExecution
    \/ FinishOk
    \/ FinishTransient
    \/ Requeue
    \/ \E o \in {"exhausted", "would_trigger", "flat", "fatal", "callback"} : FinishFailed(o)
    \/ SettleEscalate
    \/ SettleDrop

CleanupStep(p) ==
    \/ PurgePending(p)
    \/ AwaitQuiescent(p)
    \/ QuiesceDone(p)
    \/ QuiesceTimeout(p)

Next ==
    \/ \E r \in Requests : Submit(r)
    \/ \E t \in TaskIds : Pop(t)
    \/ WorkerStep
    \/ \E p \in Positions : CleanupStep(p)
    \/ Stop
    \/ Tick

\* The worker coroutine runs whenever it can: asyncio schedules it, exchange
\* calls return or raise, and can_place_order eventually grants headroom.
Fairness == WF_vars((\E t \in TaskIds : Pop(t)) \/ WorkerStep)

Spec == Init /\ [][Next]_vars
FairSpec == Spec /\ Fairness
-----------------------------------------------------------------------------
(* Properties. *)

\* No task is executed more than max_retries + 1 times, however often it is
\* coalesced into, put back or retried (start_processing's transient branch).
RetryBound == \A t \in TaskIds : attempts[t] <= MaxRetries + 1

\* A position whose SL task failed for good is never forgotten: until its
\* emergency close starts to execute, that close is queued or in the worker's
\* hands, whatever is purged, coalesced or stopped in between
\* (_handle_fatal_error, _handle_max_retries).
EscalationNotLost ==
    \A p \in owed : \E t \in TaskIds :
        /\ Awaiting(t)
        /\ task[t].req.position = p
        /\ task[t].req.action = "emergency_market_close"

\* A position is never flattened twice at once: at most one emergency close of
\* a position is queued, in hand or executing, though the WS manager and the
\* queue's own error handlers both enqueue them.
OneEmergencyClose ==
    \A t, u \in TaskIds :
        (/\ Live(t) /\ Live(u)
         /\ task[t].req.action = "emergency_market_close"
         /\ task[u].req.action = "emergency_market_close"
         /\ task[t].req.position = task[u].req.position) => t = u

\* Deduplication is exact as long as nothing was purged and callers make no
\* multi-TP SL moves: the pending map names precisely the live tasks, under
\* their keys, so no request is merged into a task that is gone and no key is
\* queued twice (enqueue against the finally clause of the worker loop).
PendingTracksLive ==
    (\A p \in Positions : cleanup[p] = "none") =>
        /\ \A k \in Keys : pending[k] # NoTask =>
              Live(pending[k]) /\ Key(task[pending[k]].req) = k
        /\ \A t \in TaskIds : Live(t) => pending[Key(task[t].req)] = t

(* The inductive invariant behind the three properties above. *)

EmergencyKey(p) == <<p, "emergency_market_close", NoTarget>>

\* A key that is stored somewhere shows the position and action of its task.
KeyOf(k, t) == /\ k[1] = task[t].req.position
               /\ k[2] = task[t].req.action
               /\ k[2] \notin KeyedActions => k[3] = NoTarget

\* Identities in use are below fresh, and the task in hand left the queue.
Identities ==
    /\ \A t \in queue : t < fresh
    /\ \A k \in Keys : pending[k] # NoTask => pending[k] < fresh
    /\ pc # "idle" => cur \in TaskIds /\ cur < fresh /\ cur \notin queue

KeysMatch ==
    /\ \A k \in Keys : pending[k] # NoTask => KeyOf(k, pending[k])
    /\ pc # "idle" => KeyOf(curKey, cur)
    /\ \A k \in tombstones : k[2] \in PurgedActions

\* Retries are counted: a task waiting for its n-th retry was executed n times.
Counted ==
    /\ \A t \in TaskIds :
          /\ task[t].retry_count <= MaxRetries
          /\ attempts[t] <= MaxRetries + 1
          /\ t >= fresh => attempts[t] = 0
          /\ Awaiting(t) => attempts[t] <= task[t].retry_count
    /\ pc = "executing" => attempts[cur] <= task[cur].retry_count + 1

\* A live emergency close is always the pending one of its position.
EmergencyPending ==
    \A t \in TaskIds :
        Live(t) /\ task[t].req.action = "emergency_market_close"
            => pending[EmergencyKey(task[t].req.position)] = t

\* A pending emergency close is live: a request merged into it is not lost.
EmergencyLive ==
    \A p \in Positions :
        pending[EmergencyKey(p)] # NoTask => Live(pending[EmergencyKey(p)])

QueueInv == /\ Identities /\ KeysMatch /\ Counted
            /\ EmergencyPending /\ EmergencyLive /\ EscalationNotLost

\* Every accepted request is eventually worked off: unless the queue is
\* stopped, it drains once callers stop adding tasks, in spite of retries and
\* escalations (an emergency close never begets another).
QueueDrains == (<>~processing) \/ (fresh > MaxTasks ~> queue = {} /\ pc = "idle")
-----------------------------------------------------------------------------
(* Expectations stated in the source that TLC refutes (README, section 3.4). *)

\* Every emergency close that is executed carries what closing needs: the
\* handlers promise that "an unprotected position is flattened rather than
\* left exposed silently" (_handle_fatal_error).
EmergencyCloseIsExecutable ==
    pc = "executing" /\ sent.action = "emergency_market_close" => sent.hasSide

\* The queue flattens a position only when its stop loss is not in place: a
\* placed SL whose on_success callback fails does not escalate.
OnlyUnprotectedFlattened ==
    ~(pc = "settling" /\ outcome = "callback" /\ Escalates(task[cur].req, outcome))
=============================================================================
