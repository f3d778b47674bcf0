---------------------------- MODULE PositionClose ----------------------------
(***************************************************************************)
(* One multi-TP position whose user-data stream is silent: the REST        *)
(* reconciler, which finds filled rungs and closed positions by polling,   *)
(* the manual "close positions" request, and the stop replacements the     *)
(* reconciler queued, all on one database row and one exchange position.   *)
(* The position with a working stream is PositionTracking's.               *)
(***************************************************************************)
EXTENDS Integers, FiniteSets, FiniteSetsExt

CONSTANTS
    PcShares,   \* quantity closed by each rung of the ladder, the last one included
    PcCloses    \* bound: manual close requests

VARIABLES
    pcVenue,    \* [qty, orders, stop, filled]: live rungs, stop level, rungs that filled
    pcRow,      \* [open, qty, fired, stop]: the auto_trade_positions row
    pcPass,     \* the reconciler's pass over this position
    pcClose,    \* the manual close under way
    pcTask,     \* the queued stop replacement, with the context it will persist
    pcCloses    \* manual closes so far

pcVars == <<pcVenue, pcRow, pcPass, pcClose, pcTask, pcCloses>>

PcRungs == DOMAIN PcShares
PcLast == Cardinality(PcRungs)
PcTotal(s) == MapThenSumSet(LAMBDA i : PcShares[i], s)
PcOriginal == PcTotal(PcRungs)
PcIdle == [pc |-> "idle"]
NoStopOrder == -1

\* Opened, every rung placed, the stop at its first price.
PcInit ==
    /\ pcVenue = [qty |-> PcOriginal, orders |-> PcRungs, stop |-> 0, filled |-> {}]
    /\ pcRow = [open |-> TRUE, qty |-> PcOriginal, fired |-> {}, stop |-> 0]
    /\ pcPass = PcIdle /\ pcClose = PcIdle /\ pcTask = PcIdle /\ pcCloses = 0

-----------------------------------------------------------------------------
(* The venue, and the user on the venue's own pages.                       *)

RungFills(i) ==
    /\ i \in pcVenue.orders /\ pcVenue.qty > 0 /\ \A j \in pcVenue.orders : i <= j
    /\ pcVenue' = [pcVenue EXCEPT !.qty = IF i = PcLast \/ @ < PcShares[i] THEN 0 ELSE @ - PcShares[i],
                                  !.orders = @ \ {i}, !.filled = @ \cup {i}]
    /\ UNCHANGED <<pcRow, pcPass, pcClose, pcTask, pcCloses>>

StopFires ==
    /\ pcVenue.stop # NoStopOrder /\ pcVenue.qty > 0
    /\ pcVenue' = [pcVenue EXCEPT !.qty = 0, !.stop = NoStopOrder]
    /\ UNCHANGED <<pcRow, pcPass, pcClose, pcTask, pcCloses>>

RungCancelled(i) ==
    /\ i \in pcVenue.orders /\ pcVenue.qty > 0
    /\ pcVenue' = [pcVenue EXCEPT !.orders = @ \ {i}]
    /\ UNCHANGED <<pcRow, pcPass, pcClose, pcTask, pcCloses>>

-----------------------------------------------------------------------------
(* The reconciler.                                                         *)

\* reconcile_open_positions_via_rest: one read of every row that is open; a
\* single read may find a live position flat.
ReconcileReads(misread) ==
    /\ pcPass = PcIdle /\ pcRow.open
    /\ pcPass' = IF misread \/ pcVenue.qty = 0 THEN [pc |-> "confirm"]
                 ELSE [pc |-> "partial", live |-> pcVenue.qty]
    /\ UNCHANGED <<pcVenue, pcRow, pcClose, pcTask, pcCloses>>

\* Mutant: the first read is believed.
BelieveTheRead == TRUE

\* _confirm_position_closed reads again.
ConfirmPositionClosed == pcVenue.qty = 0

ReconcileConfirms ==
    /\ pcPass.pc = "confirm"
    /\ pcPass' = IF ConfirmPositionClosed THEN [pc |-> "close"] ELSE PcIdle
    /\ UNCHANGED <<pcVenue, pcRow, pcClose, pcTask, pcCloses>>

\* Mutant: the status is forgotten.
MarkQuantityOnly == pcRow' = [pcRow EXCEPT !.qty = 0]

MarkPositionClosed == pcRow' = [pcRow EXCEPT !.open = FALSE, !.qty = 0]

\* Under the row's lock, if nobody has closed it.
ReconcileCloses ==
    /\ pcPass.pc = "close"
    /\ IF pcRow.open THEN MarkPositionClosed ELSE UNCHANGED pcRow
    /\ pcPass' = PcIdle
    /\ UNCHANGED <<pcVenue, pcClose, pcTask, pcCloses>>

\* The rungs taken as filled: intermediate, not yet advanced, their order no
\* longer listed, as long as the observed close covers half of their sum.
GoneRungs == {i \in PcRungs \ pcRow.fired : i # PcLast /\ i \notin pcVenue.orders}
AcceptedRungs(live) ==
    {i \in GoneRungs : \A k \in GoneRungs : k <= i =>
        2 * (PcOriginal - live) >= PcTotal({j \in GoneRungs : j <= k})}

\* The engine queues the stop of the highest rung; it replaces one still queued.
ReconcileDrives ==
    /\ pcPass.pc = "partial"
    /\ LET rungs == AcceptedRungs(pcPass.live)
           ctx == [qty |-> pcPass.live, fired |-> pcRow.fired \cup rungs, stop |-> pcRow.stop]
       IN  IF pcRow.open /\ rungs # {}
           THEN /\ pcPass' = [pc |-> "persist", ctx |-> ctx]
                /\ pcTask' = [pc |-> "queued", stop |-> Max(rungs), ctx |-> ctx]
           ELSE pcPass' = PcIdle /\ UNCHANGED pcTask
    /\ UNCHANGED <<pcVenue, pcRow, pcClose, pcCloses>>

\* _merge_position_context_into_row: the whole context, its state open.
Merged(ctx) == [open |-> TRUE, qty |-> ctx.qty, fired |-> ctx.fired, stop |-> ctx.stop]

ReconcilePersists ==
    /\ pcPass.pc = "persist"
    /\ pcRow' = IF pcRow.open THEN Merged(pcPass.ctx) ELSE pcRow
    /\ pcPass' = PcIdle
    /\ UNCHANGED <<pcVenue, pcClose, pcTask, pcCloses>>

ReconcileFails ==
    /\ pcPass.pc \in {"partial", "confirm"}
    /\ pcPass' = PcIdle
    /\ UNCHANGED <<pcVenue, pcRow, pcClose, pcTask, pcCloses>>

-----------------------------------------------------------------------------
(* The queue's worker.                                                     *)

\* The stop is placed and the callback persists its context, whatever became
\* of the row since; the pass that queued it shares the context.
StopReplaced ==
    /\ pcTask.pc = "queued" /\ pcVenue.qty > 0
    /\ LET ctx == [pcTask.ctx EXCEPT !.stop = pcTask.stop]
       IN  /\ pcTask' = [pc |-> "callback", ctx |-> ctx]
           /\ pcPass' = IF pcPass.pc = "persist" THEN [pcPass EXCEPT !.ctx = ctx] ELSE pcPass
    /\ pcVenue' = [pcVenue EXCEPT !.stop = pcTask.stop]
    /\ UNCHANGED <<pcRow, pcClose, pcCloses>>

StopCallback ==
    /\ pcTask.pc = "callback"
    /\ pcRow' = Merged(pcTask.ctx)
    /\ pcTask' = PcIdle
    /\ UNCHANGED <<pcVenue, pcPass, pcClose, pcCloses>>

\* The replacement is given up, which escalates to a market close (OrderQueue).
StopNotReplaced ==
    /\ pcTask.pc = "queued"
    /\ pcTask' = PcIdle
    /\ pcVenue' = [pcVenue EXCEPT !.qty = 0, !.stop = NoStopOrder]
    /\ UNCHANGED <<pcRow, pcPass, pcClose, pcCloses>>

-----------------------------------------------------------------------------
(* _flatten_single_position.                                               *)

\* Any row that is not terminal.
EligibleForClose == pcRow.open

CloseRequested ==
    /\ pcClose = PcIdle /\ EligibleForClose /\ pcCloses < PcCloses
    /\ pcClose' = [pc |-> "cancel", row |-> pcRow]
    /\ pcCloses' = pcCloses + 1
    /\ UNCHANGED <<pcVenue, pcRow, pcPass, pcTask>>

\* The orders the row knows, each of which may fail to be cancelled.
KnownOrders(row) == PcRungs \ row.fired

CancelKnownOrders(gone, stopGone) ==
    /\ pcClose.pc = "cancel" /\ gone \subseteq KnownOrders(pcClose.row)
    /\ pcVenue' = [pcVenue EXCEPT !.orders = @ \ gone,
                     !.stop = IF stopGone /\ @ = pcClose.row.stop THEN NoStopOrder ELSE @]
    /\ pcClose' = [pcClose EXCEPT !.pc = "size"]
    /\ UNCHANGED <<pcRow, pcPass, pcTask, pcCloses>>

\* The size on the exchange, or the row's where it cannot be read.
FlattenSizes(read) ==
    /\ pcClose.pc = "size"
    /\ pcClose' = [pc |-> IF (IF read THEN pcVenue.qty ELSE pcClose.row.qty) = 0
                          THEN "mark" ELSE "market"]
    /\ UNCHANGED <<pcVenue, pcRow, pcPass, pcTask, pcCloses>>

\* A market order that only reduces; a failure is reported, whether the order
\* was executed or not.
MarketClose(executed, ok) ==
    /\ pcClose.pc = "market" /\ (ok => executed)
    /\ pcVenue' = IF executed THEN [pcVenue EXCEPT !.qty = 0] ELSE pcVenue
    /\ pcClose' = IF ok THEN [pc |-> "mark"] ELSE PcIdle
    /\ UNCHANGED <<pcRow, pcPass, pcTask, pcCloses>>

FlattenMarks ==
    /\ pcClose.pc = "mark"
    /\ MarkPositionClosed
    /\ pcClose' = PcIdle
    /\ UNCHANGED <<pcVenue, pcPass, pcTask, pcCloses>>

PcReconcile ==
    \/ \E misread \in BOOLEAN : ReconcileReads(misread)
    \/ ReconcileConfirms \/ ReconcileCloses \/ ReconcileDrives \/ ReconcilePersists
PcQueue == StopReplaced \/ StopCallback \/ StopNotReplaced
PcFlatten ==
    \/ \E gone \in SUBSET PcRungs, stopGone \in BOOLEAN : CancelKnownOrders(gone, stopGone)
    \/ \E read \in BOOLEAN : FlattenSizes(read)
    \/ \E executed, ok \in BOOLEAN : MarketClose(executed, ok)
    \/ FlattenMarks

PcNext ==
    \/ \E i \in PcRungs : RungFills(i) \/ RungCancelled(i)
    \/ StopFires
    \/ PcReconcile \/ ReconcileFails
    \/ PcQueue
    \/ CloseRequested \/ PcFlatten

\* The reconciler runs every few seconds and gets its answers in the end; the
\* worker and a request under way go on.
PcFairness ==
    /\ WF_pcVars(PcReconcile) /\ SF_pcVars(ReconcileConfirms)
    /\ WF_pcVars(PcQueue) /\ WF_pcVars(PcFlatten)

PcSpec == PcInit /\ [][PcNext]_pcVars /\ PcFairness

-----------------------------------------------------------------------------
\* A row is marked closed only when the position is flat on the exchange: not
\* by a misread, not by a reconciler that overtakes a manual close, not by a
\* manual close that goes by the row's own quantity.
ClosedRowIsFlat == ~pcRow.open => pcVenue.qty = 0

\* A position that went flat is closed in the database for good, although the
\* callback of a stop replaced late writes it open again.
FlatPositionsAreClosed == pcVenue.qty = 0 ~> [](~pcRow.open)

\* The comment on the corroboration by size: an order that disappeared because
\* it was cancelled is not taken for a fill.
CancelledRungIgnored == pcRow.fired \subseteq pcVenue.filled
=============================================================================
