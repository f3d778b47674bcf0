----------------------------- MODULE SignalQueue -----------------------------
(***************************************************************************)
(* The signal queue of AutoTradeService for one strategy (one config on    *)
(* one account): reports become queue rows, workers claim the due rows     *)
(* with FOR UPDATE SKIP LOCKED, act on each of them on the exchange, and   *)
(* commit ONE database transaction at the end of the batch.  What a worker *)
(* changes before that lives in its session: a crash, or a failed flush,   *)
(* drops the session while the orders it sent stay on the exchange.        *)
(*                                                                         *)
(* Beside the workers run the exchange (the stop fires, the user closes by *)
(* hand), the REST reconciler, the websocket manager that persists the     *)
(* in-memory context of the position, and the user who pauses and resumes  *)
(* the strategy.                                                           *)
(*                                                                         *)
(* The production sessions are made with autoflush=False: a SELECT in a    *)
(* session does not see that session's own unflushed changes, yet it       *)
(* returns the changed in-memory object (own versus row.open below).       *)
(***************************************************************************)
EXTENDS Integers, FiniteSets

CONSTANTS
    Workers,          \* processes that may run process_signal_queue at once
    NoWorker,         \* nobody holds the config lock
    N,                \* bound: reports produced
    Kinds,            \* the contents a report may have
    Confirm,          \* config.confirm_reports_required
    MaxAttempts,      \* settings.auto_trade_max_attempts
    MaxFaults,        \* bound: failing exchange calls
    MaxCrashes,       \* bound: worker crashes and lost transactions
    RuntimeMayFail,   \* may _initialize_position_runtime raise?
    EmergencyMayFail, \* may the rollback close of an unprotected entry fail?
    Ticks,            \* does a realtime SL rule persist on mark-price ticks?
    UserPauses        \* does the user pause and resume the strategy?

ASSUME NAssumption == N \in Nat
ASSUME NoWorkerAssumption == NoWorker \notin Workers
ASSUME LimitsAssumption ==
    /\ Confirm \in Nat \ {0} /\ MaxAttempts \in Nat \ {0}
    /\ MaxFaults \in Nat /\ MaxCrashes \in Nat
    /\ RuntimeMayFail \in BOOLEAN /\ EmergencyMayFail \in BOOLEAN /\ Ticks \in BOOLEAN
    /\ UserPauses \in BOOLEAN

\* form: what _process_queue_item makes of the payload before it looks at the
\* exchange; conf: 0 below min_confidence_pct, 1 enough to enter, 2 fast close.
AllKinds == [form : {"trade", "discard", "ignore", "missing"},
             trend : {"long", "short", "neutral"}, conf : 0..2]

ASSUME KindsAssumption == Kinds \subseteq AllKinds /\ Kinds # {}

\* History ids, in the order the reports are produced.
Reports == 1..N

VARIABLES
    made,    \* number of reports produced so far
    rep,     \* the content of each report
    db,      \* the committed database
    wk,      \* per worker: program counter and batch
    ses,     \* per worker: the session's in-memory objects
    holder,  \* the worker that holds the config row lock
    exch,    \* the position on the exchange
    ctx,     \* the context the websocket manager tracks in memory
    votes,   \* history variable: reports counted against the live position
    faults, crashes

vars == <<made, rep, db, wk, ses, holder, exch, ctx, votes, faults, crashes>>

Sides    == {"long", "short"}
Statuses == {"none", "pending", "waiting", "completed", "dead"}
Reasons  == {"", "opposite", "already_closed", "emergency", "reconciled", "stream"}
QRow     == [status : Statuses, attempt : Nat]
Rows     == [id : Nat, side : Sides \cup {"none"}, open : BOOLEAN,
             reason : Reasons, sl : BOOLEAN, ladder : BOOLEAN, entered : BOOLEAN]
Contexts == [id : Nat, sl : BOOLEAN, ladder : BOOLEAN]

NoRow == [id |-> 0, side |-> "none", open |-> FALSE, reason |-> "", sl |-> FALSE,
          ladder |-> FALSE, entered |-> FALSE]
NoCtx == [id |-> 0, sl |-> FALSE, ladder |-> FALSE]
\* own: the open-row SELECT of this session finds its row; lock: the committed
\* row it holds FOR UPDATE.
Blank == [loaded |-> FALSE, own |-> FALSE, lock |-> 0, row |-> NoRow, last |-> 0, streak |-> 0, running |-> FALSE,
          q |-> [h \in Reports |-> [status |-> "none", attempt |-> 0]]]
Idle  == [pc |-> "idle", mine |-> {}, batch |-> {}, item |-> 0,
          flat |-> TRUE, found |-> FALSE, fast |-> FALSE]

Init ==
    /\ made = 0
    /\ rep \in [Reports -> {CHOOSE k \in Kinds : TRUE}]
    /\ db = [running |-> TRUE, last |-> 0, streak |-> 0, row |-> NoRow,
             q |-> [h \in Reports |-> [status |-> "none", attempt |-> 0]]]
    /\ wk = [w \in Workers |-> Idle]
    /\ ses = [w \in Workers |-> Blank]
    /\ holder = NoWorker
    /\ exch = [id |-> 0, side |-> "long", size |-> 0, stop |-> FALSE]
    /\ ctx = NoCtx
    /\ votes = {}
    /\ faults = 0 /\ crashes = 0

-----------------------------------------------------------------------------
(* The analysis side: a report is produced and enqueued.                    *)

\* One row per running config; a report made while the strategy is paused is
\* never queued.
EnqueueHistorySignal(k) ==
    /\ made < N
    /\ made' = made + 1
    /\ rep' = [rep EXCEPT ![made + 1] = k]
    /\ db' = IF db.running
             THEN [db EXCEPT !.q[made + 1] = [status |-> "pending", attempt |-> 0]]
             ELSE db
    /\ UNCHANGED <<wk, ses, holder, exch, ctx, votes, faults, crashes>>

\* next_retry_at has passed.
RetryDue(h) ==
    /\ db.q[h].status = "waiting"
    /\ \A w \in Workers : h \notin wk[w].mine
    /\ db' = [db EXCEPT !.q[h].status = "pending"]
    /\ UNCHANGED <<made, rep, wk, ses, holder, exch, ctx, votes, faults, crashes>>

-----------------------------------------------------------------------------
(* process_signal_queue                                                      *)

\* Mutant: a row put back for a retry is not selected again.
Due_firstAttempts == {h \in Reports : /\ db.q[h].status = "pending" /\ db.q[h].attempt = 0
                                      /\ \A w \in Workers : h \notin wk[w].mine}

Due == {h \in Reports : /\ db.q[h].status = "pending"
                        /\ \A w \in Workers : h \notin wk[w].mine}

\* The SELECT: every due row no other worker has locked (the batch limit of
\* 100 rows is above every bound used here).
Claim(w) ==
    /\ wk[w].pc = "idle" /\ Due # {}
    /\ wk' = [wk EXCEPT ![w] = [Idle EXCEPT !.pc = "loop", !.mine = Due, !.batch = Due]]
    /\ ses' = [ses EXCEPT ![w] = [Blank EXCEPT !.q = db.q]]
    /\ UNCHANGED <<made, rep, db, holder, exch, ctx, votes, faults, crashes>>

\* ORDER BY next_retry_at, id: first attempts run in id order; a retried row's
\* next_retry_at may fall anywhere between theirs.
InOrder(w, h) ==
    db.q[h].attempt = 0 =>
        \A g \in wk[w].batch : db.q[g].attempt = 0 => h <= g

Attempted(s, h) == [s EXCEPT !.q[h].attempt = @ + 1]

MarkCompleted(s, h) == [s EXCEPT !.q[h].status = "completed"]

\* Mutant: one attempt too many.
MarkRetryOrDead_offByOne(s, h, retryable) ==
    [s EXCEPT !.q[h].status =
        IF retryable /\ s.q[h].attempt <= MaxAttempts THEN "waiting" ELSE "dead"]

MarkRetryOrDead(s, h, retryable) ==
    [s EXCEPT !.q[h].status =
        IF retryable /\ s.q[h].attempt < MaxAttempts THEN "waiting" ELSE "dead"]

\* _get_config_for_update and _get_or_create_signal_state: loaded once, under
\* the lock, and then kept by the session's identity map.
Loaded(s) ==
    IF s.loaded THEN s
    ELSE [s EXCEPT !.loaded = TRUE, !.last = db.last, !.streak = db.streak,
                   !.running = db.running]

\* The item is over: back to the loop with session s.
Return(w, h, s) ==
    /\ ses' = [ses EXCEPT ![w] = s]
    /\ wk' = [wk EXCEPT ![w] = [wk[w] EXCEPT !.pc = "loop", !.batch = wk[w].batch \ {h}]]

Advance(s, h) == [s EXCEPT !.last = IF h > @ THEN h ELSE @]

Done(w, s) == Return(w, wk[w].item, MarkCompleted(Advance(s, wk[w].item), wk[w].item))

Raise(w, s, retryable) == Return(w, wk[w].item, MarkRetryOrDead(s, wk[w].item, retryable))

LockFree(w) == holder \in {NoWorker, w}

\* The config row is locked by another worker: SKIP LOCKED finds nothing and
\* the item is retried, at the cost of an attempt.
Blocked(w, h) ==
    /\ wk[w].pc = "loop" /\ h \in wk[w].batch /\ InOrder(w, h)
    /\ ~LockFree(w)
    /\ Return(w, h, MarkRetryOrDead(Attempted(ses[w], h), h, TRUE))
    /\ UNCHANGED <<made, rep, db, holder, exch, ctx, votes, faults, crashes>>

\* Mutant: only the very same report counts as processed.
IsDuplicate_sameOnly(s, h) == h = s.last

IsDuplicate(s, h) == h <= s.last

Tradable(s, h) == s.running /\ rep[h].form = "trade" /\ ~IsDuplicate(s, h)

\* The early returns of _process_queue_item before the exchange is asked.  An
\* unparsable or foreign report still moves last_processed_history_id.
Skip(w, h) ==
    LET s == Attempted(Loaded(ses[w]), h)
    IN  /\ wk[w].pc = "loop" /\ h \in wk[w].batch /\ InOrder(w, h)
        /\ LockFree(w) /\ ~Tradable(s, h)
        /\ holder' = w
        /\ Return(w, h,
             IF s.running /\ rep[h].form = "missing" THEN MarkRetryOrDead(s, h, FALSE)
             ELSE IF s.running /\ rep[h].form = "discard"
             THEN MarkCompleted(Advance(s, h), h)
             ELSE MarkCompleted(s, h))
        /\ UNCHANGED <<made, rep, db, exch, ctx, votes, faults, crashes>>

Accept(w, h) ==
    LET s == Attempted(Loaded(ses[w]), h)
    IN  /\ wk[w].pc = "loop" /\ h \in wk[w].batch /\ InOrder(w, h)
        /\ LockFree(w) /\ Tradable(s, h)
        /\ holder' = w
        /\ ses' = [ses EXCEPT ![w] = s]
        /\ wk' = [wk EXCEPT ![w].pc = "sync", ![w].item = h]
        /\ UNCHANGED <<made, rep, db, exch, ctx, votes, faults, crashes>>

-----------------------------------------------------------------------------
(* _sync_open_position_with_exchange                                        *)

\* SELECT ... WHERE status = 'open' FOR UPDATE: decided by what the database
\* holds, answered with the object the session already has.  Nothing flushes a
\* close before the commit, so a row once found is found again.
Selected(s) ==
    IF s.own \/ ~db.row.open THEN s
    ELSE [s EXCEPT !.own = TRUE, !.row = db.row, !.lock = db.row.id]

Adopted == [id |-> exch.id, side |-> exch.side, open |-> TRUE, reason |-> "",
            sl |-> FALSE, ladder |-> FALSE, entered |-> FALSE]

\* Mutant: without an open row the exchange is not consulted.
Synced_rowsOnly(s) ==
    IF exch.size > 0 /\ s.own
    THEN [s EXCEPT !.row.side = exch.side, !.row.id = exch.id] ELSE s

\* What the sync leaves in the session: a live position without an open row is
\* adopted (and flushed), a live position with one refreshes the row.
Synced(s) ==
    IF exch.size = 0 THEN s
    ELSE IF s.own THEN [s EXCEPT !.row.side = exch.side, !.row.id = exch.id]
    ELSE [s EXCEPT !.row = Adopted, !.own = TRUE]

SyncOpenPosition(w) ==
    /\ wk[w].pc = "sync"
    /\ ses' = [ses EXCEPT ![w] = Synced(Selected(ses[w]))]
    /\ wk' = [wk EXCEPT ![w].pc = "decide", ![w].flat = exch.size = 0,
                        ![w].found = Synced(Selected(ses[w])).own]
    /\ UNCHANGED <<made, rep, db, holder, exch, ctx, votes, faults, crashes>>

\* fetch_futures_position raises: the row lock is held, nothing else changed.
SyncFails(w) ==
    /\ wk[w].pc = "sync" /\ faults < MaxFaults
    /\ faults' = faults + 1
    /\ Raise(w, Selected(ses[w]), TRUE)
    /\ UNCHANGED <<made, rep, db, holder, exch, ctx, votes, crashes>>

-----------------------------------------------------------------------------
(* _process_without_open_position                                            *)

Signal(w) == rep[wk[w].item]

Flat(w) == wk[w].pc = "decide" /\ ~wk[w].found

MayEnter(w) == Signal(w).trend # "neutral" /\ Signal(w).conf >= 1

\* Neutral or weak signals reset the streak; so do the AI overlay and the risk
\* engine, while the freshness and lifecycle gates leave it alone.
Decline(w) ==
    /\ Flat(w)
    /\ \E n \in IF MayEnter(w) THEN {0, ses[w].streak} ELSE {0} :
           Done(w, [ses[w] EXCEPT !.streak = n])
    /\ UNCHANGED <<made, rep, db, holder, exch, ctx, votes, faults, crashes>>

\* A market order on the exchange: it opens a position, or adds to the one
\* that is already there.
Opened(side, stop) ==
    [id |-> IF exch.size = 0 THEN exch.id + 1 ELSE exch.id, side |-> side,
     size |-> exch.size + 1, stop |-> stop]

EnterPosition(w, stop) ==
    /\ Flat(w) /\ MayEnter(w)
    /\ exch' = Opened(Signal(w).trend, stop)
    /\ votes' = {}
    /\ wk' = [wk EXCEPT ![w].pc = "entered"]
    /\ UNCHANGED <<made, rep, db, ses, holder, ctx, faults, crashes>>

\* set_futures_leverage or the entry order raises.  A time-out may hide an
\* order that was executed, with or without its bracket.
EntryFails(w, executed, retryable) ==
    /\ Flat(w) /\ MayEnter(w) /\ faults < MaxFaults
    /\ faults' = faults + 1
    /\ exch' \in IF executed THEN {Opened(Signal(w).trend, stop) : stop \in BOOLEAN}
                 ELSE {exch}
    /\ votes' = IF executed THEN {} ELSE votes
    /\ Raise(w, ses[w], retryable)
    /\ UNCHANGED <<made, rep, db, holder, ctx, crashes>>

\* The partial unique index admits one open row per account.
Conflict == db.row.open

\* The row the entry inserts.  It is merged from the context BEFORE
\* _initialize_position_runtime stores the bracket's order ids in the context,
\* and _persist_runtime_position, in a session of its own, cannot see the
\* uncommitted row: the row does not name the stop.  Its side is that of the
\* order that was just filled.
EntryRow ==
    [id |-> exch.id, side |-> exch.side, open |-> TRUE, reason |-> "",
     sl |-> FALSE, ladder |-> FALSE, entered |-> TRUE]

\* The runtime is set up; the manager tracks the context from here on.
RecordEntry(w) ==
    /\ wk[w].pc = "entered" /\ ~Conflict
    /\ Done(w, [ses[w] EXCEPT !.row = EntryRow, !.own = TRUE, !.streak = 0])
    /\ ctx' = [id |-> exch.id, sl |-> exch.stop, ladder |-> FALSE]
    /\ UNCHANGED <<made, rep, db, holder, exch, votes, faults, crashes>>

\* The runtime could not be set up.  With the bracket stop attached the entry
\* stands; without it the position is flattened and the row is closed, whether
\* or not the closing order went through.
RecordEntryRuntimeFailed(w) ==
    /\ wk[w].pc = "entered" /\ ~Conflict /\ RuntimeMayFail
    /\ IF exch.stop
       THEN /\ Done(w, [ses[w] EXCEPT !.row = EntryRow, !.own = TRUE, !.streak = 0])
            /\ UNCHANGED exch
       ELSE /\ Done(w, [ses[w] EXCEPT !.own = TRUE,
                          !.row = [EntryRow EXCEPT !.open = FALSE, !.reason = "emergency"]])
            /\ exch' \in {[exch EXCEPT !.size = 0]}
                         \cup (IF EmergencyMayFail THEN {exch} ELSE {})
    /\ UNCHANGED <<made, rep, db, holder, ctx, votes, faults, crashes>>

-----------------------------------------------------------------------------
(* _process_with_open_position                                              *)

Holding(w) == wk[w].pc = "decide" /\ wk[w].found

Closed(s, why) == [s EXCEPT !.row.open = FALSE, !.row.reason = why, !.streak = 0]

MarkClosedOnExchange(w) ==
    /\ Holding(w) /\ wk[w].flat
    /\ Done(w, Closed(ses[w], "already_closed"))
    /\ UNCHANGED <<made, rep, db, holder, exch, ctx, votes, faults, crashes>>

Opposite(w) ==
    /\ Signal(w).trend \notin {"neutral", ses[w].row.side}
    /\ ~ses[w].row.ladder

\* Neutral and same-side reports, and any report once a TP level has fired.
Hold(w) ==
    /\ Holding(w) /\ ~wk[w].flat /\ ~Opposite(w)
    /\ Done(w, [ses[w] EXCEPT !.streak = 0])
    /\ UNCHANGED <<made, rep, db, holder, exch, ctx, votes, faults, crashes>>

Fast(w) == Signal(w).conf = 2

Confirmed(w) == Fast(w) \/ ses[w].streak + 1 >= Confirm

Counted(w) == IF Fast(w) THEN ses[w] ELSE [ses[w] EXCEPT !.streak = @ + 1]

AwaitConfirmation(w) ==
    /\ Holding(w) /\ ~wk[w].flat /\ Opposite(w) /\ ~Confirmed(w)
    /\ votes' = votes \cup {wk[w].item}
    /\ Done(w, Counted(w))
    /\ UNCHANGED <<made, rep, db, holder, exch, ctx, faults, crashes>>

\* close_futures_market_reduce_only is accepted and fills.
SendClose(w) ==
    /\ Holding(w) /\ ~wk[w].flat /\ Opposite(w) /\ Confirmed(w)
    /\ exch.size > 0
    /\ votes' = votes \cup {wk[w].item}
    /\ ses' = [ses EXCEPT ![w] = Counted(w)]
    /\ wk' = [wk EXCEPT ![w].pc = "closing", ![w].fast = Fast(w)]
    /\ exch' = [exch EXCEPT !.size = 0, !.stop = FALSE]
    /\ UNCHANGED <<made, rep, db, holder, ctx, faults, crashes>>

\* The close order raises (executed or not), or there is nothing left for a
\* reduce-only order.  The streak keeps its increment.
CloseFails(w, executed) ==
    /\ Holding(w) /\ ~wk[w].flat /\ Opposite(w) /\ Confirmed(w)
    /\ \/ exch.size = 0 /\ UNCHANGED <<faults, exch>>
       \/ /\ exch.size > 0 /\ faults < MaxFaults /\ faults' = faults + 1
          /\ exch' = IF executed THEN [exch EXCEPT !.size = 0, !.stop = FALSE] ELSE exch
    /\ votes' = votes \cup {wk[w].item}
    /\ Raise(w, Counted(w), TRUE)
    /\ UNCHANGED <<made, rep, db, holder, ctx, crashes>>

\* _confirm_position_closed reads flat: the row is closed, and the KPI guard may
\* pause the strategy in the same transaction.
ConfirmClose(w, pause) ==
    /\ wk[w].pc = "closing" /\ exch.size = 0
    /\ Done(w, [Closed(ses[w], "opposite") EXCEPT !.running = @ /\ ~pause])
    /\ UNCHANGED <<made, rep, db, holder, exch, ctx, votes, faults, crashes>>

\* The snapshot still shows contracts, or cannot be read.
ConfirmFails(w) ==
    /\ wk[w].pc = "closing" /\ faults < MaxFaults
    /\ faults' = faults + 1
    /\ Raise(w, ses[w], TRUE)
    /\ UNCHANGED <<made, rep, db, holder, exch, ctx, votes, crashes>>

-----------------------------------------------------------------------------
(* The end of the transaction                                               *)

Committed(w) ==
    LET s == ses[w]
        q == [h \in Reports |-> IF h \in wk[w].mine THEN s.q[h] ELSE db.q[h]]
    IN  [running |-> IF s.loaded THEN s.running ELSE db.running,
         last    |-> IF s.loaded THEN s.last ELSE db.last,
         streak  |-> IF s.loaded THEN s.streak ELSE db.streak,
         row     |-> IF s.own THEN s.row ELSE db.row,
         q       |-> q]

Leave(w) ==
    /\ wk' = [wk EXCEPT ![w] = Idle]
    /\ ses' = [ses EXCEPT ![w] = Blank]
    /\ holder' = IF holder = w THEN NoWorker ELSE holder

Commit(w) ==
    /\ wk[w].pc = "loop" /\ wk[w].batch = {}
    /\ db' = Committed(w)
    /\ Leave(w)
    /\ UNCHANGED <<made, rep, exch, ctx, votes, faults, crashes>>

\* The worker dies, or its transaction is lost; a dead process also loses the
\* contexts it tracked.
Crash(w) ==
    /\ wk[w].pc # "idle" /\ crashes < MaxCrashes
    /\ crashes' = crashes + 1
    /\ ctx' \in {ctx, NoCtx}
    /\ Leave(w)
    /\ UNCHANGED <<made, rep, db, exch, votes, faults>>

\* The INSERT breaks the one-open-row index: the session is unusable and the
\* final commit raises, so the whole batch is rolled back.
InsertConflict(w) ==
    /\ wk[w].pc = "entered" /\ Conflict
    /\ Leave(w)
    /\ UNCHANGED <<made, rep, db, exch, ctx, votes, faults, crashes>>

-----------------------------------------------------------------------------
(* The rest of the system                                                    *)

\* Mutant: the position row is read without FOR UPDATE.
RowLocked_never == FALSE

\* Some session holds the open position row FOR UPDATE.
RowLocked == \E w \in Workers : ses[w].lock # 0 /\ ses[w].lock = db.row.id

\* The stop fills, or the user closes the position by hand.
ExchangeCloses ==
    /\ exch.size > 0
    /\ exch' = [exch EXCEPT !.size = 0, !.stop = FALSE]
    /\ UNCHANGED <<made, rep, db, wk, ses, holder, ctx, votes, faults, crashes>>

\* Mutant: the reconciler does not ask the exchange.
Reconcile_unchecked ==
    /\ db.row.open /\ ~RowLocked
    /\ db' = [db EXCEPT !.row.open = FALSE, !.row.reason = "reconciled"]
    /\ ctx' = NoCtx
    /\ UNCHANGED <<made, rep, wk, ses, holder, exch, votes, faults, crashes>>

\* reconcile_open_positions_via_rest finds an open row flat, twice.
Reconcile ==
    /\ db.row.open /\ exch.size = 0 /\ ~RowLocked
    /\ db' = [db EXCEPT !.row.open = FALSE, !.row.reason = "reconciled"]
    /\ ctx' = NoCtx
    /\ UNCHANGED <<made, rep, wk, ses, holder, exch, votes, faults, crashes>>

\* The stream reports the flat position: the manager closes and untracks it.
StreamCloses ==
    /\ ctx.id # 0 /\ (exch.size = 0 \/ exch.id # ctx.id) /\ ~RowLocked
    /\ ctx' = NoCtx
    /\ db' = IF db.row.id = ctx.id /\ db.row.open
             THEN [db EXCEPT !.row.open = FALSE, !.row.reason = "stream", !.row.sl = ctx.sl]
             ELSE db
    /\ UNCHANGED <<made, rep, wk, ses, holder, exch, votes, faults, crashes>>

\* _merge_position_context_into_row: status and ids are the context's, whatever
\* the row says; a row that is not committed yet is not found.
PersistContext(c) ==
    IF db.row.id = c.id
    THEN [db EXCEPT !.row.open = TRUE, !.row.sl = c.sl, !.row.ladder = c.ladder]
    ELSE db

\* place_sl from the order queue succeeded: its callback stores and persists.
StopPlaced ==
    /\ ctx.id # 0 /\ ~ctx.sl /\ exch.size > 0 /\ exch.id = ctx.id /\ ~RowLocked
    /\ exch' = [exch EXCEPT !.stop = TRUE]
    /\ ctx' = [ctx EXCEPT !.sl = TRUE]
    /\ db' = PersistContext(ctx')
    /\ UNCHANGED <<made, rep, wk, ses, holder, votes, faults, crashes>>

\* A take-profit level fills: the manager marks it triggered and persists.
TakeProfitFills ==
    /\ ctx.id # 0 /\ ~ctx.ladder /\ exch.size > 0 /\ exch.id = ctx.id /\ ~RowLocked
    /\ ctx' = [ctx EXCEPT !.ladder = TRUE]
    /\ db' = PersistContext(ctx')
    /\ UNCHANGED <<made, rep, wk, ses, holder, exch, votes, faults, crashes>>

\* RealtimeSLAdjuster.on_tick, fed by the mark-price stream, persists the
\* context it tracks when it dispatches a new stop.
TickPersists ==
    /\ Ticks /\ ctx.id # 0 /\ ctx.sl /\ ~RowLocked
    /\ db' = PersistContext(ctx)
    /\ UNCHANGED <<made, rep, wk, ses, holder, exch, ctx, votes, faults, crashes>>

\* Mutant: the pause does not wait for the config lock.
SetRunning_unlocked(b) ==
    /\ UserPauses /\ db.running # b
    /\ db' = [db EXCEPT !.running = b]
    /\ UNCHANGED <<made, rep, wk, ses, holder, exch, ctx, votes, faults, crashes>>

\* set_running and _auto_pause_strategy take the config row FOR UPDATE.
SetRunning(b) ==
    /\ UserPauses /\ holder = NoWorker /\ db.running # b
    /\ db' = [db EXCEPT !.running = b]
    /\ UNCHANGED <<made, rep, wk, ses, holder, exch, ctx, votes, faults, crashes>>

-----------------------------------------------------------------------------
Step(w) ==
    \/ Claim(w)
    \/ \E h \in Reports : Blocked(w, h) \/ Skip(w, h) \/ Accept(w, h)
    \/ SyncOpenPosition(w) \/ SyncFails(w)
    \/ Decline(w)
    \/ \E stop \in BOOLEAN : EnterPosition(w, stop)
    \/ \E executed, retryable \in BOOLEAN : EntryFails(w, executed, retryable)
    \/ RecordEntry(w) \/ RecordEntryRuntimeFailed(w) \/ InsertConflict(w)
    \/ MarkClosedOnExchange(w) \/ Hold(w) \/ AwaitConfirmation(w)
    \/ SendClose(w)
    \/ \E executed \in BOOLEAN : CloseFails(w, executed)
    \/ \E pause \in BOOLEAN : ConfirmClose(w, pause)
    \/ ConfirmFails(w)
    \/ Commit(w)

World ==
    \/ \E k \in Kinds : EnqueueHistorySignal(k)
    \/ ExchangeCloses \/ Reconcile \/ StreamCloses \/ StopPlaced
    \/ TakeProfitFills \/ TickPersists
    \/ \E b \in BOOLEAN : SetRunning(b)

Next ==
    \/ \E w \in Workers : Step(w) \/ Crash(w)
    \/ \E h \in Reports : RetryDue(h)
    \/ World

Spec == Init /\ [][Next]_vars

\* The scheduler starts process_signal_queue every minute, and time passes.
FairSpec ==
    /\ Spec
    /\ \A w \in Workers : WF_vars(Step(w))
    /\ \A h \in Reports : WF_vars(RetryDue(h))

-----------------------------------------------------------------------------
(* Properties                                                                *)

Trading == {"sync", "decide", "entered", "closing"}

Sessions == [loaded : BOOLEAN, own : BOOLEAN, lock : Nat, row : Rows, last : Nat,
             streak : Nat, running : BOOLEAN, q : [Reports -> QRow]]

WorkerStates == [pc : {"idle", "loop"} \cup Trading, mine : SUBSET Reports,
                 batch : SUBSET Reports, item : 0..N,
                 flat : BOOLEAN, found : BOOLEAN, fast : BOOLEAN]

Databases == [running : BOOLEAN, last : Nat, streak : Nat, row : Rows,
              q : [Reports -> QRow]]

\* Every variable has its type.
TypeOK ==
    /\ made \in 0..N
    /\ rep \in [Reports -> Kinds]
    /\ db \in Databases
    /\ wk \in [Workers -> WorkerStates]
    /\ ses \in [Workers -> Sessions]
    /\ holder \in Workers \cup {NoWorker}
    /\ exch \in [id : Nat, side : Sides, size : Nat, stop : BOOLEAN]
    /\ ctx \in Contexts
    /\ votes \subseteq Reports
    /\ faults \in 0..MaxFaults
    /\ crashes \in 0..MaxCrashes

\* No report is attempted more than max_attempts times, however it failed: the
\* counter is raised in one transaction, compared in the same one and read by
\* the next worker that claims the row.
AttemptsBounded == \A h \in Reports : db.q[h].attempt <= MaxAttempts

\* process_signal_queue never adds to a position that is already open: a retry,
\* or the replay of a batch that was lost after its entry order had filled,
\* finds the position by _sync_open_position_with_exchange and adopts it.
NoPyramiding == exch.size <= 1

\* An order is only ever sent for a report newer than every report the
\* committed state says was processed: the config lock and the
\* last_processed_history_id check hold across workers, retries and crashes.
TradesAreFresh ==
    \A w \in Workers : wk[w].pc \in Trading => wk[w].item > db.last

\* A pause takes effect: once set_running(False) or the KPI guard's pause has
\* committed, no worker is on its way to send an entry order.
PauseHolds == \A w \in Workers : wk[w].pc \in Trading => db.running

\* A row that is marked closed does not stand for a position that is still
\* alive on the exchange (the reconciler and the stream only follow open rows).
NoLiveClosed == exch.size > 0 /\ db.row.id = exch.id => db.row.open

\* A row that was committed as closed is reopened only for a position that the
\* websocket manager still tracks: no worker or reconciler writes an outdated
\* copy of the row over a close that another one committed.
ReopenedOnlyIfTracked ==
    [][db.row.id # 0 /\ ~db.row.open /\ db'.row.id = db.row.id /\ db'.row.open
          => ctx.id = db.row.id]_vars

\* Every queued report is completed or given up: claims, lock conflicts,
\* failures and rollbacks do not leave a row pending for ever.
EveryReportSettles ==
    \A h \in Reports :
        db.q[h].status \in {"pending", "waiting"} ~> db.q[h].status \in {"completed", "dead"}

(* Expectations of the tests and comments that TLC refutes (README, section 3.4). *)

\* Below fast_close_confidence_pct, a position is closed against its trend only
\* after confirm_reports_required different reports spoke against it.
ClosesAreConfirmed ==
    \A w \in Workers :
        wk[w].pc = "closing" /\ ~wk[w].fast => Cardinality(votes) >= Confirm

\* A committed row that an entry created names the stop its bracket placed,
\* once the workers are at rest.
StopIsNamed ==
    (\A w \in Workers : wk[w].pc = "idle") =>
        (db.row.open /\ db.row.entered /\ exch.size > 0 /\ exch.id = db.row.id
            /\ exch.stop => db.row.sl)

\* No step reopens a row that was committed as closed.
ClosedStaysClosed ==
    [][db.row.id # 0 /\ ~db.row.open /\ db'.row.id = db.row.id => ~db'.row.open]_vars

\* Within a batch, the close reason of a row is written once.
CloseReasonKept ==
    [][\A w \in Workers :
          ses[w].row.reason # "" /\ ses'[w].row.id = ses[w].row.id
              => ses'[w].row.reason = ses[w].row.reason]_vars
=============================================================================
