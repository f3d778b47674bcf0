----------------------------- MODULE VenueProofs -----------------------------
(***************************************************************************)
(* Proofs about the components that face an exchange: the closing of a     *)
(* position, the counting of a stream's fills, the bracket of an order of  *)
(* the execution service, and the answers of the two futures adapters.     *)
(* Each theorem rests on an inductive invariant of its component and holds *)
(* for every quantity, price, level and number of calls, whatever the      *)
(* exchange answers and does between two requests.                         *)
(***************************************************************************)
EXTENDS PositionClose, VenueStream, CcxtExecution, BinanceAdapter, BybitAdapter,
        FiniteSetTheorems, TLAPS

-----------------------------------------------------------------------------
(* PositionClose: a row is closed only when the position is.                *)

Flat == pcVenue.qty = 0

\* The records keep their fields; the proof needs nothing of the values.
VenueShape == pcVenue = [qty |-> pcVenue.qty, orders |-> pcVenue.orders,
                         stop |-> pcVenue.stop, filled |-> pcVenue.filled]
RowShape(r) == r = [open |-> r.open, qty |-> r.qty, fired |-> r.fired, stop |-> r.stop]
CtxShape(c) == c = [qty |-> c.qty, fired |-> c.fired, stop |-> c.stop]

\* The inductive invariant: whoever is about to close the row knows that the
\* position is flat, and no quantity is booked as zero, in the row or in a
\* context that may yet be written to it, before it is.
CloseInv ==
    /\ VenueShape /\ RowShape(pcRow)
    /\ ~pcRow.open => Flat
    /\ pcRow.qty = 0 => Flat
    /\ pcPass.pc = "close" => Flat
    /\ pcPass.pc = "partial" => (pcPass.live = 0 => Flat)
    /\ pcPass.pc = "persist" => /\ pcPass = [pc |-> "persist", ctx |-> pcPass.ctx]
                                /\ CtxShape(pcPass.ctx) /\ (pcPass.ctx.qty = 0 => Flat)
    /\ pcTask.pc \in {"queued", "callback"} =>
           CtxShape(pcTask.ctx) /\ (pcTask.ctx.qty = 0 => Flat)
    /\ pcClose.pc \in {"cancel", "size"} =>
           /\ pcClose = [pc |-> pcClose.pc, row |-> pcClose.row]
           /\ pcClose.row.qty = 0 => Flat
    /\ pcClose.pc = "mark" => Flat

LEMMA InitClose == PcInit => CloseInv
  BY DEF PcInit, CloseInv, VenueShape, RowShape, Flat, PcIdle

\* What happens at the venue only ever makes the position smaller.
LEMMA VenueStep ==
    ASSUME CloseInv, VenueShape', Flat => Flat', UNCHANGED <<pcRow, pcPass, pcClose, pcTask>>
    PROVE  CloseInv'
  BY DEF CloseInv, RowShape, CtxShape

LEMMA VenueActsClose ==
    ASSUME CloseInv, StopFires \/ \E i \in PcRungs : RungFills(i) \/ RungCancelled(i)
    PROVE  CloseInv'
  <1>1. UNCHANGED <<pcRow, pcPass, pcClose, pcTask>>
    BY DEF StopFires, RungFills, RungCancelled
  <1>2. ~Flat
    <2>1. pcVenue.qty > 0
      BY DEF StopFires, RungFills, RungCancelled
    <2> QED BY <2>1 DEF Flat
  <1>3. VenueShape'
    <2>1. VenueShape
      BY DEF CloseInv
    <2>2. CASE StopFires
      BY <2>1, <2>2 DEF StopFires, VenueShape
    <2>3. ASSUME NEW i \in PcRungs, RungFills(i) PROVE VenueShape'
      <3>1. PICK q : pcVenue' = [pcVenue EXCEPT !.qty = q, !.orders = @ \ {i},
                                                !.filled = @ \cup {i}]
        BY <2>3 DEF RungFills
      <3> QED BY <2>1, <3>1 DEF VenueShape
    <2>4. ASSUME NEW i \in PcRungs, RungCancelled(i) PROVE VenueShape'
      BY <2>1, <2>4 DEF RungCancelled, VenueShape
    <2> QED BY <2>2, <2>3, <2>4
  <1> QED BY <1>1, <1>2, <1>3, VenueStep

LEMMA ReconcileClose ==
    ASSUME CloseInv, PcReconcile \/ ReconcileFails
    PROVE  CloseInv'
  <1>1. ASSUME NEW misread \in BOOLEAN, ReconcileReads(misread) PROVE CloseInv'
    <2>1. /\ pcPass' = IF misread \/ pcVenue.qty = 0 THEN [pc |-> "confirm"]
                       ELSE [pc |-> "partial", live |-> pcVenue.qty]
          /\ UNCHANGED <<pcVenue, pcRow, pcClose, pcTask>>
      BY <1>1 DEF ReconcileReads
    <2>2. CASE pcPass' = [pc |-> "confirm"]
      BY <2>1, <2>2 DEF CloseInv, VenueShape, RowShape, CtxShape, Flat
    <2>3. CASE pcPass' = [pc |-> "partial", live |-> pcVenue.qty]
      BY <2>1, <2>3 DEF CloseInv, VenueShape, RowShape, CtxShape, Flat
    <2> QED BY <2>1, <2>2, <2>3
  <1>2. CASE ReconcileConfirms \/ ReconcileFails
    <2>1. \/ pcPass' = [pc |-> "close"] /\ Flat
          \/ pcPass' = [pc |-> "idle"]
      BY <1>2 DEF ReconcileConfirms, ReconcileFails, ConfirmPositionClosed, Flat, PcIdle
    <2>2. UNCHANGED <<pcVenue, pcRow, pcClose, pcTask>>
      BY <1>2 DEF ReconcileConfirms, ReconcileFails
    <2> QED BY <2>1, <2>2 DEF CloseInv, VenueShape, RowShape, CtxShape, Flat
  <1>3. CASE ReconcileCloses
    <2>1. /\ Flat /\ pcPass' = [pc |-> "idle"] /\ UNCHANGED <<pcVenue, pcClose, pcTask>>
          /\ pcRow' = pcRow \/ pcRow' = [pcRow EXCEPT !.open = FALSE, !.qty = 0]
      BY <1>3 DEF ReconcileCloses, CloseInv, PcIdle, MarkPositionClosed
    <2>2. RowShape(pcRow') /\ Flat'
      BY <2>1 DEF CloseInv, RowShape, Flat
    <2> QED BY <2>1, <2>2 DEF CloseInv, VenueShape, RowShape, CtxShape, Flat
  <1>4. CASE ReconcileDrives
    <2>1. /\ pcPass.pc = "partial" /\ UNCHANGED <<pcVenue, pcRow, pcClose>>
          /\ \/ \E c : /\ CtxShape(c) /\ c.qty = pcPass.live
                       /\ pcPass' = [pc |-> "persist", ctx |-> c]
                       /\ pcTask'.ctx = c
             \/ pcPass' = [pc |-> "idle"] /\ UNCHANGED pcTask
      <3>1. CASE pcPass' = PcIdle /\ UNCHANGED pcTask
        BY <1>4, <3>1 DEF ReconcileDrives, PcIdle
      <3>2. CASE ~(pcPass' = PcIdle /\ UNCHANGED pcTask)
        <4> DEFINE rungs == AcceptedRungs(pcPass.live)
                   c == [qty |-> pcPass.live, fired |-> pcRow.fired \cup rungs, stop |-> pcRow.stop]
        <4>1. /\ pcPass' = [pc |-> "persist", ctx |-> c]
              /\ pcTask' = [pc |-> "queued", stop |-> Max(rungs), ctx |-> c]
          BY <1>4, <3>2 DEF ReconcileDrives
        <4>2. CtxShape(c) /\ c.qty = pcPass.live
          BY DEF CtxShape
        <4> HIDE DEF c, rungs
        <4> QED BY <1>4, <4>1, <4>2 DEF ReconcileDrives
      <3> QED BY <3>1, <3>2
    <2>2. ASSUME NEW c, CtxShape(c), c.qty = pcPass.live,
                 pcPass' = [pc |-> "persist", ctx |-> c], pcTask'.ctx = c
          PROVE  CloseInv'
      <3>1. c.qty = 0 => Flat'
        BY <2>1, <2>2 DEF CloseInv, Flat
      <3>2. pcPass'.pc = "persist" /\ pcPass'.ctx = c
        BY <2>2
      <3>3. /\ VenueShape' /\ RowShape(pcRow') /\ (~pcRow'.open => Flat') /\ (pcRow'.qty = 0 => Flat')
            /\ pcClose'.pc \in {"cancel", "size"} =>
                 /\ pcClose' = [pc |-> pcClose'.pc, row |-> pcClose'.row]
                 /\ pcClose'.row.qty = 0 => Flat'
            /\ pcClose'.pc = "mark" => Flat'
        BY <2>1 DEF CloseInv, VenueShape, RowShape, Flat
      <3> QED BY <2>2, <3>1, <3>2, <3>3 DEF CloseInv, RowShape, CtxShape
    <2>3. CASE pcPass' = [pc |-> "idle"] /\ UNCHANGED pcTask
      BY <2>1, <2>3 DEF CloseInv, VenueShape, RowShape, CtxShape, Flat
    <2> QED BY <2>1, <2>2, <2>3
  <1>5. CASE ReconcilePersists
    <2>1. /\ pcPass.pc = "persist" /\ pcPass' = [pc |-> "idle"] /\ UNCHANGED <<pcVenue, pcClose, pcTask>>
          /\ pcRow' = pcRow \/ pcRow' = Merged(pcPass.ctx)
      BY <1>5 DEF ReconcilePersists, PcIdle
    <2>2. RowShape(pcRow') /\ (~pcRow'.open => Flat) /\ (pcRow'.qty = 0 => Flat)
      BY <2>1 DEF CloseInv, RowShape, Merged, Flat
    <2> QED BY <2>1, <2>2 DEF CloseInv, VenueShape, RowShape, CtxShape, Flat
  <1> QED BY <1>1, <1>2, <1>3, <1>4, <1>5 DEF PcReconcile

LEMMA QueueClose ==
    ASSUME CloseInv, PcQueue
    PROVE  CloseInv'
  <1>1. CASE StopReplaced
    <2> DEFINE c == [pcTask.ctx EXCEPT !.stop = pcTask.stop]
    <2>1. /\ pcTask.pc = "queued" /\ pcTask' = [pc |-> "callback", ctx |-> c]
          /\ pcPass' = IF pcPass.pc = "persist" THEN [pcPass EXCEPT !.ctx = c] ELSE pcPass
          /\ pcVenue' = [pcVenue EXCEPT !.stop = pcTask.stop]
          /\ UNCHANGED <<pcRow, pcClose>>
      BY <1>1 DEF StopReplaced
    <2>2. CtxShape(c) /\ (c.qty = 0 => Flat)
      BY <2>1 DEF CloseInv, CtxShape
    <2> HIDE DEF c
    <2>3. VenueShape' /\ (Flat' <=> Flat)
      BY <2>1 DEF CloseInv, VenueShape, Flat
    <2>4. \/ pcPass' = pcPass /\ pcPass.pc # "persist"
          \/ pcPass' = [pc |-> "persist", ctx |-> c]
      BY <2>1 DEF CloseInv
    <2>5. pcTask'.pc = "callback" /\ pcTask'.ctx = c
      BY <2>1
    <2>6. /\ RowShape(pcRow') /\ (~pcRow'.open => Flat') /\ (pcRow'.qty = 0 => Flat')
          /\ pcClose'.pc \in {"cancel", "size"} =>
               /\ pcClose' = [pc |-> pcClose'.pc, row |-> pcClose'.row]
               /\ pcClose'.row.qty = 0 => Flat'
          /\ pcClose'.pc = "mark" => Flat'
      BY <2>1, <2>3 DEF CloseInv, RowShape
    <2>7. CASE pcPass' = pcPass /\ pcPass.pc # "persist"
      BY <2>2, <2>3, <2>5, <2>6, <2>7 DEF CloseInv, RowShape, CtxShape
    <2>8. CASE pcPass' = [pc |-> "persist", ctx |-> c]
      <3>1. pcPass'.pc = "persist" /\ pcPass'.ctx = c
        BY <2>8
      <3> QED BY <2>2, <2>3, <2>5, <2>6, <2>8, <3>1 DEF CloseInv, RowShape, CtxShape
    <2> QED BY <2>4, <2>7, <2>8
  <1>2. CASE StopCallback
    <2>1. /\ pcTask.pc = "callback" /\ pcRow' = Merged(pcTask.ctx) /\ pcTask' = [pc |-> "idle"]
          /\ UNCHANGED <<pcVenue, pcPass, pcClose>>
      BY <1>2 DEF StopCallback, PcIdle
    <2>2. RowShape(pcRow') /\ (~pcRow'.open => Flat) /\ (pcRow'.qty = 0 => Flat)
      BY <2>1 DEF CloseInv, RowShape, Merged, Flat
    <2> QED BY <2>1, <2>2 DEF CloseInv, VenueShape, RowShape, CtxShape, Flat
  <1>3. CASE StopNotReplaced
    <2>1. /\ pcTask' = [pc |-> "idle"] /\ UNCHANGED <<pcRow, pcPass, pcClose>>
          /\ pcVenue' = [pcVenue EXCEPT !.qty = 0, !.stop = NoStopOrder]
      BY <1>3 DEF StopNotReplaced, PcIdle
    <2>2. VenueShape' /\ Flat'
      BY <2>1 DEF CloseInv, VenueShape, Flat
    <2> QED BY <2>1, <2>2 DEF CloseInv, RowShape, CtxShape
  <1> QED BY <1>1, <1>2, <1>3 DEF PcQueue

LEMMA FlattenClose ==
    ASSUME CloseInv, CloseRequested \/ PcFlatten
    PROVE  CloseInv'
  <1>1. CASE CloseRequested
    <2>1. /\ pcClose' = [pc |-> "cancel", row |-> pcRow]
          /\ UNCHANGED <<pcVenue, pcRow, pcPass, pcTask>>
      BY <1>1 DEF CloseRequested
    <2> QED BY <2>1 DEF CloseInv, VenueShape, RowShape, CtxShape, Flat
  <1>2. ASSUME NEW gone \in SUBSET PcRungs, NEW stopGone \in BOOLEAN,
               CancelKnownOrders(gone, stopGone)
        PROVE  CloseInv'
    <2>1. /\ pcVenue' = [pcVenue EXCEPT !.orders = @ \ gone,
                           !.stop = IF stopGone /\ @ = pcClose.row.stop THEN NoStopOrder ELSE @]
          /\ pcClose.pc = "cancel" /\ pcClose' = [pcClose EXCEPT !.pc = "size"]
          /\ UNCHANGED <<pcRow, pcPass, pcTask>>
      BY <1>2 DEF CancelKnownOrders
    <2>2. VenueShape' /\ (Flat' <=> Flat)
      BY <2>1 DEF CloseInv, VenueShape, Flat
    <2>3. /\ pcClose' = [pc |-> "size", row |-> pcClose.row]
          /\ pcClose.row.qty = 0 => Flat
      BY <2>1 DEF CloseInv
    <2> QED BY <2>1, <2>2, <2>3 DEF CloseInv, RowShape, CtxShape
  <1>3. ASSUME NEW read \in BOOLEAN, FlattenSizes(read) PROVE CloseInv'
    <2>1. /\ pcClose.pc = "size" /\ UNCHANGED <<pcVenue, pcRow, pcPass, pcTask>>
          /\ pcClose' = [pc |-> IF (IF read THEN pcVenue.qty ELSE pcClose.row.qty) = 0
                                THEN "mark" ELSE "market"]
      BY <1>3 DEF FlattenSizes
    <2>2. \/ pcClose' = [pc |-> "mark"] /\ Flat
          \/ pcClose' = [pc |-> "market"]
      BY <2>1 DEF CloseInv, Flat
    <2> QED BY <2>1, <2>2 DEF CloseInv, VenueShape, RowShape, CtxShape, Flat
  <1>4. ASSUME NEW executed \in BOOLEAN, NEW ok \in BOOLEAN, MarketClose(executed, ok)
        PROVE  CloseInv'
    <2>1. /\ UNCHANGED <<pcRow, pcPass, pcTask>>
          /\ pcVenue' = IF executed THEN [pcVenue EXCEPT !.qty = 0] ELSE pcVenue
          /\ pcClose' = IF ok THEN [pc |-> "mark"] ELSE [pc |-> "idle"]
          /\ ok => executed
      BY <1>4 DEF MarketClose, PcIdle
    <2>2. VenueShape' /\ (Flat => Flat') /\ (ok => Flat')
      BY <2>1 DEF CloseInv, VenueShape, Flat
    <2>3. pcClose'.pc \in {"mark", "idle"} /\ (pcClose'.pc = "mark" => ok)
      BY <2>1
    <2> QED BY <2>1, <2>2, <2>3 DEF CloseInv, RowShape, CtxShape
  <1>5. CASE FlattenMarks
    <2>1. /\ Flat /\ pcClose' = [pc |-> "idle"] /\ UNCHANGED <<pcVenue, pcPass, pcTask>>
          /\ pcRow' = [pcRow EXCEPT !.open = FALSE, !.qty = 0]
      BY <1>5 DEF FlattenMarks, CloseInv, PcIdle, MarkPositionClosed
    <2>2. RowShape(pcRow') /\ Flat'
      BY <2>1 DEF CloseInv, RowShape, Flat
    <2> QED BY <2>1, <2>2 DEF CloseInv, VenueShape, RowShape, CtxShape, Flat
  <1> QED BY <1>1, <1>2, <1>3, <1>4, <1>5 DEF PcFlatten

LEMMA StepClose == CloseInv /\ [PcNext]_pcVars => CloseInv'
  <1> SUFFICES ASSUME CloseInv, [PcNext]_pcVars PROVE CloseInv'
    OBVIOUS
  <1>1. CASE UNCHANGED pcVars
    BY <1>1 DEF pcVars, CloseInv, VenueShape, RowShape, CtxShape, Flat
  <1> QED BY <1>1, VenueActsClose, ReconcileClose, QueueClose, FlattenClose DEF PcNext

\* A row is marked closed only when the position is flat: by the reconciler, in
\* spite of a misread, by a manual close, in spite of one that goes by the row's
\* own quantity, and whatever the callback of a stop replacement writes late.
THEOREM ClosedRowsAreFlat == PcSpec => []ClosedRowIsFlat
  <1>1. CloseInv => ClosedRowIsFlat
    BY DEF CloseInv, ClosedRowIsFlat, Flat
  <1> QED BY <1>1, StepClose, InitClose, PTL DEF PcSpec

-----------------------------------------------------------------------------
(* VenueStream: the fills of a level, and no others, reach that level.      *)

VsTopics == {"ALGO_UPDATE", "ORDER_TRADE_UPDATE", "order", "execution", "listenKeyExpired"}
VsWords == {"TRIGGERED", "FINISHED", "FILLED", "Trade", "CANCELED", ""}
VsRaws == [topic : VsTopics, id : VsLevels \cup {OtherOrder}, status : VsWords, qty : {0, 1}]

VsTypeOK ==
    /\ vsVenue \in {"binance", "bybit"}
    /\ vsOrders \in [VsLevels -> {"live", "triggered", "filled", "cancelled"}]
    /\ vsWire \in Seq(VsRaws)
    /\ vsLost \in BOOLEAN /\ vsFilled \subseteq VsLevels

\* The manager will count this message as the fill of level l.
FillOf(m, l) ==
    /\ m.topic # "listenKeyExpired" /\ m.id = l
    /\ CountsAsFill(NormalizePayload(m))

Reached == {"triggered", "filled"}

OnItsWay(wire, l) == \E i \in 1..Len(wire) : FillOf(wire[i], l)

WireEarned(wire, orders) ==
    \A l \in VsLevels : OnItsWay(wire, l) => orders[l] \in Reached

NoneMissing(wire, orders, filled, lost) ==
    ~lost => \A l \in VsLevels : orders[l] = "filled" => l \in filled \/ OnItsWay(wire, l)

\* The inductive invariant: what will be counted was earned when it was sent,
\* and a fill not counted yet is on its way unless messages were lost.
VsInv ==
    /\ VsTypeOK
    /\ \A l \in vsFilled : vsOrders[l] \in Reached
    /\ WireEarned(vsWire, vsOrders)
    /\ NoneMissing(vsWire, vsOrders, vsFilled, vsLost)

\* The translations keep the id of the message.
LEMMA IdKept == ASSUME NEW m PROVE NormalizePayload(m).id = m.id
  BY DEF NormalizePayload, NormalizeAlgoUpdate, NormalizeOrderEvents, NormalizeExecutionEvents,
         NormalizeOrderTradeUpdate, VsEvent

\* Which messages count as the fill of which level.
LEMMA AlgoCounts ==
    ASSUME NEW l, NEW s, NEW q \in {0, 1}, NEW k
    PROVE  FillOf(VsMsg("ALGO_UPDATE", l, s, q), k) <=>
               k = l /\ (BinanceStatus(s) \in Reached \/ q = 1)
  <1>1. NormalizePayload(VsMsg("ALGO_UPDATE", l, s, q)) = VsEvent(l, BinanceStatus(s), q)
    BY DEF NormalizePayload, NormalizeAlgoUpdate, VsMsg
  <1>2. CountsAsFill(VsEvent(l, BinanceStatus(s), q)) <=> BinanceStatus(s) \in Reached \/ q = 1
    BY DEF CountsAsFill, VsEvent, Reached
  <1> QED BY <1>1, <1>2 DEF FillOf, VsMsg

LEMMA OrderCounts ==
    ASSUME NEW l, NEW s, NEW q \in {0, 1}, NEW k
    PROVE  FillOf(VsMsg("order", l, s, q), k) <=>
               k = l /\ (BybitStatus(s) \in Reached \/ q = 1)
  <1>1. NormalizePayload(VsMsg("order", l, s, q)) = VsEvent(l, BybitStatus(s), q)
    BY DEF NormalizePayload, NormalizeOrderEvents, VsMsg
  <1>2. CountsAsFill(VsEvent(l, BybitStatus(s), q)) <=> BybitStatus(s) \in Reached \/ q = 1
    BY DEF CountsAsFill, VsEvent, Reached
  <1> QED BY <1>1, <1>2 DEF FillOf, VsMsg

LEMMA ExecutionCounts ==
    ASSUME NEW l, NEW k
    PROVE  FillOf(VsMsg("execution", l, "Trade", 1), k) <=> k = l
  <1>1. NormalizePayload(VsMsg("execution", l, "Trade", 1)) = VsEvent(l, "triggered", 1)
    BY DEF NormalizePayload, NormalizeExecutionEvents, VsMsg
  <1>2. CountsAsFill(VsEvent(l, "triggered", 1))
    BY DEF CountsAsFill, VsEvent
  <1> QED BY <1>1, <1>2 DEF FillOf, VsMsg

LEMMA ForeignCounts ==
    ASSUME NEW s, NEW t, NEW q, NEW k \in VsLevels
    PROVE  ~FillOf(VsMsg(t, OtherOrder, s, q), k)
  BY LevelsAssumption DEF FillOf, VsMsg

LEMMA StatusWords ==
    /\ BinanceStatus("TRIGGERED") = "triggered" /\ BybitStatus("TRIGGERED") = "triggered"
    /\ BybitStatus("FILLED") = "triggered"
    /\ BinanceStatus("CANCELED") = "cancelled" /\ BybitStatus("CANCELED") = "cancelled"
  BY DEF BinanceStatus, BybitStatus

LEMMA OneOrTwo ==
    ASSUME NEW m, NEW n, NEW k
    PROVE  /\ OnItsWay(<<m>>, k) <=> FillOf(m, k)
           /\ OnItsWay(<<m, n>>, k) <=> FillOf(m, k) \/ FillOf(n, k)
  <1>1. Len(<<m>>) = 1 /\ <<m>>[1] = m
    OBVIOUS
  <1>2. Len(<<m, n>>) = 2 /\ <<m, n>>[1] = m /\ <<m, n>>[2] = n
    OBVIOUS
  <1>3. OnItsWay(<<m>>, k) <=> FillOf(m, k)
    BY <1>1 DEF OnItsWay
  <1>4. OnItsWay(<<m, n>>, k) <=> FillOf(m, k) \/ FillOf(n, k)
    <2>1. 1..Len(<<m, n>>) = {1, 2}
      BY <1>2
    <2>2. OnItsWay(<<m, n>>, k) <=> \E i \in {1, 2} : FillOf(<<m, n>>[i], k)
      BY <2>1 DEF OnItsWay
    <2> QED BY <1>2, <2>2
  <1> QED BY <1>3, <1>4

\* The messages about a level are of that level or of another order, and count
\* as its fill exactly when it was triggered or filled.
LEMMA Sent ==
    ASSUME VsTypeOK, NEW l \in VsLevels
    PROVE  /\ OnTrigger(l) \in Seq(VsRaws) /\ OnFill(l) \in Seq(VsRaws) /\ OnCancel(l) \in Seq(VsRaws)
           /\ \A k \in VsLevels : /\ OnItsWay(OnTrigger(l), k) => k = l
                                  /\ OnItsWay(OnFill(l), k) <=> k = l
                                  /\ ~OnItsWay(OnCancel(l), k)
  <1>1. OnTrigger(l) \in Seq(VsRaws) /\ OnFill(l) \in Seq(VsRaws) /\ OnCancel(l) \in Seq(VsRaws)
    <2>1. ASSUME NEW t \in VsTopics, NEW s \in VsWords, NEW q \in {0, 1}, NEW i \in {l, OtherOrder}
          PROVE  VsMsg(t, i, s, q) \in VsRaws
      BY DEF VsMsg, VsRaws
    <2>2. \A m, n \in VsRaws : <<m>> \in Seq(VsRaws) /\ <<m, n>> \in Seq(VsRaws)
      OBVIOUS
    <2>3. OnTrigger(l) \in Seq(VsRaws)
      <3>1. VsMsg("ALGO_UPDATE", l, "TRIGGERED", 0) \in VsRaws
        BY <2>1 DEF VsTopics, VsWords
      <3>2. VsMsg("order", l, "TRIGGERED", 0) \in VsRaws
        BY <2>1 DEF VsTopics, VsWords
      <3> QED BY <2>2, <3>1, <3>2 DEF OnTrigger
    <2>4. OnFill(l) \in Seq(VsRaws)
      <3>1. VsMsg("ALGO_UPDATE", l, "FINISHED", 1) \in VsRaws
        BY <2>1 DEF VsTopics, VsWords
      <3>2. VsMsg("ORDER_TRADE_UPDATE", OtherOrder, "FILLED", 1) \in VsRaws
        BY <2>1 DEF VsTopics, VsWords
      <3>3. VsMsg("execution", l, "Trade", 1) \in VsRaws
        BY <2>1 DEF VsTopics, VsWords
      <3>4. VsMsg("order", l, "FILLED", 1) \in VsRaws
        BY <2>1 DEF VsTopics, VsWords
      <3> QED BY <2>2, <3>1, <3>2, <3>3, <3>4 DEF OnFill
    <2>5. OnCancel(l) \in Seq(VsRaws)
      <3>1. VsMsg("ALGO_UPDATE", l, "CANCELED", 0) \in VsRaws
        BY <2>1 DEF VsTopics, VsWords
      <3>2. VsMsg("order", l, "CANCELED", 0) \in VsRaws
        BY <2>1 DEF VsTopics, VsWords
      <3> QED BY <2>2, <3>1, <3>2 DEF OnCancel
    <2> QED BY <2>3, <2>4, <2>5
  <1>2. "triggered" \in Reached /\ "cancelled" \notin Reached
    BY DEF Reached
  <1>3. ASSUME NEW k \in VsLevels PROVE OnItsWay(OnTrigger(l), k) => k = l
    <2>1. FillOf(VsMsg("ALGO_UPDATE", l, "TRIGGERED", 0), k) => k = l
      BY AlgoCounts
    <2>2. FillOf(VsMsg("order", l, "TRIGGERED", 0), k) => k = l
      BY OrderCounts
    <2> QED BY <2>1, <2>2, OneOrTwo DEF OnTrigger
  <1>4. ASSUME NEW k \in VsLevels PROVE OnItsWay(OnFill(l), k) <=> k = l
    <2>1. FillOf(VsMsg("ALGO_UPDATE", l, "FINISHED", 1), k) <=> k = l
      BY AlgoCounts
    <2>2. FillOf(VsMsg("order", l, "FILLED", 1), k) <=> k = l
      BY OrderCounts
    <2>3. FillOf(VsMsg("execution", l, "Trade", 1), k) <=> k = l
      BY ExecutionCounts
    <2>4. ~FillOf(VsMsg("ORDER_TRADE_UPDATE", OtherOrder, "FILLED", 1), k)
      BY ForeignCounts
    <2>5. CASE vsVenue = "binance"
      <3>1. OnFill(l) = <<VsMsg("ALGO_UPDATE", l, "FINISHED", 1),
                          VsMsg("ORDER_TRADE_UPDATE", OtherOrder, "FILLED", 1)>>
        BY <2>5 DEF OnFill
      <3> QED BY <2>1, <2>4, <3>1, OneOrTwo
    <2>6. CASE vsVenue # "binance"
      <3>1. OnFill(l) = <<VsMsg("execution", l, "Trade", 1), VsMsg("order", l, "FILLED", 1)>>
        BY <2>6 DEF OnFill
      <3> QED BY <2>2, <2>3, <3>1, OneOrTwo
    <2> QED BY <2>5, <2>6
  <1>5. ASSUME NEW k \in VsLevels PROVE ~OnItsWay(OnCancel(l), k)
    <2>1. ~FillOf(VsMsg("ALGO_UPDATE", l, "CANCELED", 0), k)
      BY <1>2, AlgoCounts, StatusWords
    <2>2. ~FillOf(VsMsg("order", l, "CANCELED", 0), k)
      BY <1>2, OrderCounts, StatusWords
    <2> QED BY <2>1, <2>2, OneOrTwo DEF OnCancel
  <1> QED BY <1>1, <1>3, <1>4, <1>5

\* A message added, delivered or lost.
LEMMA Joined ==
    ASSUME NEW w \in Seq(VsRaws), NEW m \in Seq(VsRaws), NEW k
    PROVE  w \o m \in Seq(VsRaws) /\ (OnItsWay(w \o m, k) <=> OnItsWay(w, k) \/ OnItsWay(m, k))
  <1>1. /\ w \o m \in Seq(VsRaws) /\ Len(w \o m) = Len(w) + Len(m) /\ Len(w) \in Nat /\ Len(m) \in Nat
        /\ \A i \in 1..Len(w) : (w \o m)[i] = w[i]
        /\ \A i \in 1..Len(m) : (w \o m)[Len(w) + i] = m[i]
    OBVIOUS
  <1>2. ASSUME OnItsWay(w \o m, k) PROVE OnItsWay(w, k) \/ OnItsWay(m, k)
    <2>1. PICK i \in 1..Len(w \o m) : FillOf((w \o m)[i], k)
      BY <1>2 DEF OnItsWay
    <2>2. CASE i \in 1..Len(w)
      BY <1>1, <2>1, <2>2 DEF OnItsWay
    <2>3. CASE i \notin 1..Len(w)
      <3>1. i - Len(w) \in 1..Len(m) /\ i = Len(w) + (i - Len(w))
        BY <1>1, <2>3
      <3>2. (w \o m)[i] = m[i - Len(w)]
        BY <1>1, <3>1
      <3> QED BY <2>1, <3>1, <3>2 DEF OnItsWay
    <2> QED BY <2>2, <2>3
  <1>3. ASSUME OnItsWay(w, k) PROVE OnItsWay(w \o m, k)
    BY <1>1, <1>3 DEF OnItsWay
  <1>4. ASSUME OnItsWay(m, k) PROVE OnItsWay(w \o m, k)
    <2>1. PICK i \in 1..Len(m) : FillOf(m[i], k)
      BY <1>4 DEF OnItsWay
    <2>2. Len(w) + i \in 1..Len(w \o m) /\ (w \o m)[Len(w) + i] = m[i]
      BY <1>1
    <2> QED BY <2>1, <2>2 DEF OnItsWay
  <1> QED BY <1>1, <1>2, <1>3, <1>4

LEMMA Delivered ==
    ASSUME NEW w \in Seq(VsRaws), w # <<>>, NEW k
    PROVE  /\ Head(w) \in VsRaws /\ Tail(w) \in Seq(VsRaws)
           /\ OnItsWay(w, k) <=> FillOf(Head(w), k) \/ OnItsWay(Tail(w), k)
  <1>1. /\ Head(w) \in VsRaws /\ Tail(w) \in Seq(VsRaws) /\ Head(w) = w[1] /\ Len(w) \in Nat \ {0}
        /\ Len(Tail(w)) = Len(w) - 1 /\ \A i \in 1..Len(Tail(w)) : Tail(w)[i] = w[i + 1]
    OBVIOUS
  <1>2. ASSUME OnItsWay(w, k) PROVE FillOf(Head(w), k) \/ OnItsWay(Tail(w), k)
    <2>1. PICK i \in 1..Len(w) : FillOf(w[i], k)
      BY <1>2 DEF OnItsWay
    <2>2. CASE i = 1
      BY <1>1, <2>1, <2>2
    <2>3. CASE i # 1
      <3>1. i - 1 \in 1..Len(Tail(w)) /\ i = (i - 1) + 1
        BY <1>1, <2>3
      <3>2. Tail(w)[i - 1] = w[i]
        BY <1>1, <3>1
      <3> QED BY <2>1, <3>1, <3>2 DEF OnItsWay
    <2> QED BY <2>2, <2>3
  <1>3. ASSUME FillOf(Head(w), k) PROVE OnItsWay(w, k)
    BY <1>1, <1>3 DEF OnItsWay
  <1>4. ASSUME OnItsWay(Tail(w), k) PROVE OnItsWay(w, k)
    <2>1. PICK i \in 1..Len(Tail(w)) : FillOf(Tail(w)[i], k)
      BY <1>4 DEF OnItsWay
    <2>2. i + 1 \in 1..Len(w) /\ w[i + 1] = Tail(w)[i]
      BY <1>1
    <2> QED BY <2>1, <2>2 DEF OnItsWay
  <1> QED BY <1>1, <1>2, <1>3, <1>4

\* Nothing counts as a fill on an empty wire, or when the key expires.
LEMMA Uncounted ==
    ASSUME NEW k
    PROVE  ~OnItsWay(<<>>, k) /\ ~OnItsWay(<<VsMsg("listenKeyExpired", OtherOrder, "", 0)>>, k)
  <1>1. ~FillOf(VsMsg("listenKeyExpired", OtherOrder, "", 0), k)
    BY DEF FillOf, VsMsg
  <1>2. ~OnItsWay(<<>>, k)
    BY DEF OnItsWay
  <1> QED BY <1>1, <1>2, OneOrTwo

LEMMA InitStream == VsInit => VsInv
  <1> SUFFICES ASSUME VsInit PROVE VsInv
    OBVIOUS
  <1>1. VsTypeOK
    <2>1. vsWire \in Seq(VsRaws)
      BY DEF VsInit
    <2>2. vsOrders \in [VsLevels -> {"live", "triggered", "filled", "cancelled"}]
      BY DEF VsInit
    <2> QED BY <2>1, <2>2 DEF VsInit, VsTypeOK
  <1>2. \A l \in VsLevels : vsOrders[l] = "live" /\ ~OnItsWay(vsWire, l)
    BY Uncounted DEF VsInit
  <1>3. vsFilled = {}
    BY DEF VsInit
  <1> QED BY <1>1, <1>2, <1>3 DEF VsInv, WireEarned, NoneMissing

\* A change of a level's order at the venue, and what is said of it.
LEMMA OrderMoves ==
    ASSUME VsInv, UNCHANGED <<vsVenue, vsFilled>>, NEW l \in VsLevels,
           NEW st \in {"triggered", "filled", "cancelled"},
           vsOrders' = [vsOrders EXCEPT ![l] = st],
           vsOrders[l] \in Reached => st \in Reached,
           NEW msgs \in Seq(VsRaws), VsEmit(msgs),
           \A k \in VsLevels : OnItsWay(msgs, k) => k = l /\ st \in Reached,
           st = "filled" => OnItsWay(msgs, l)
    PROVE  VsInv'
  <1>1. /\ vsOrders' \in [VsLevels -> {"live", "triggered", "filled", "cancelled"}]
        /\ vsOrders'[l] = st /\ \A k \in VsLevels \ {l} : vsOrders'[k] = vsOrders[k]
    BY DEF VsInv, VsTypeOK
  <1>2. \A k \in VsLevels : vsOrders[k] \in Reached => vsOrders'[k] \in Reached
    BY <1>1
  <1>3. /\ vsWire' \in Seq(VsRaws) /\ vsLost' \in BOOLEAN
        /\ \A k : OnItsWay(vsWire', k) => OnItsWay(vsWire, k) \/ OnItsWay(msgs, k)
        /\ ~vsLost' => /\ ~vsLost
                       /\ \A k : OnItsWay(vsWire', k) <=> OnItsWay(vsWire, k) \/ OnItsWay(msgs, k)
    <2>1. vsWire \in Seq(VsRaws) /\ vsLost \in BOOLEAN
      BY DEF VsInv, VsTypeOK
    <2>2. CASE vsWire' = vsWire \o msgs /\ vsLost' = vsLost
      BY <2>1, <2>2, Joined
    <2>3. CASE vsLost' = TRUE /\ vsWire' = vsWire
      BY <2>1, <2>3
    <2> QED BY <2>2, <2>3 DEF VsEmit
  <1>4. VsTypeOK'
    BY <1>1, <1>3 DEF VsInv, VsTypeOK
  <1>5. \A k \in vsFilled' : vsOrders'[k] \in Reached
    BY <1>2 DEF VsInv, VsTypeOK
  <1>6. WireEarned(vsWire', vsOrders')
    BY <1>1, <1>2, <1>3 DEF VsInv, WireEarned
  <1>7. NoneMissing(vsWire', vsOrders', vsFilled', vsLost')
    BY <1>1, <1>3 DEF VsInv, NoneMissing
  <1> QED BY <1>4, <1>5, <1>6, <1>7 DEF VsInv

LEMMA VenueMoves ==
    ASSUME VsInv, UNCHANGED vsVenue, NEW l \in VsLevels, VsTriggers(l) \/ VsFills(l) \/ VsCancels(l)
    PROVE  VsInv'
  <1>1. VsTypeOK
    BY DEF VsInv
  <1>2. CASE VsTriggers(l)
    <2>1. /\ vsOrders' = [vsOrders EXCEPT ![l] = "triggered"] /\ VsEmit(OnTrigger(l))
          /\ UNCHANGED vsFilled
      BY <1>2 DEF VsTriggers
    <2> QED BY <1>1, <2>1, Sent, OrderMoves DEF Reached
  <1>3. CASE VsFills(l)
    <2>1. /\ vsOrders' = [vsOrders EXCEPT ![l] = "filled"] /\ VsEmit(OnFill(l))
          /\ UNCHANGED vsFilled
      BY <1>3 DEF VsFills
    <2> QED BY <1>1, <2>1, Sent, OrderMoves DEF Reached
  <1>4. CASE VsCancels(l)
    <2>1. /\ vsOrders' = [vsOrders EXCEPT ![l] = "cancelled"] /\ VsEmit(OnCancel(l))
          /\ UNCHANGED vsFilled /\ vsOrders[l] = "live"
      BY <1>4 DEF VsCancels
    <2> QED BY <1>1, <2>1, Sent, OrderMoves DEF Reached
  <1> QED BY <1>2, <1>3, <1>4

LEMMA PayloadDispatched ==
    ASSUME VsInv, UNCHANGED vsVenue, DispatchPayload
    PROVE  VsInv'
  <1> DEFINE m == Head(vsWire)
             ev == NormalizePayload(m)
  <1>1. vsWire \in Seq(VsRaws) /\ vsWire # <<>> /\ vsWire' = Tail(vsWire)
        /\ UNCHANGED <<vsOrders, vsLost>> /\ vsFilled \subseteq VsLevels
    BY DEF DispatchPayload, VsInv, VsTypeOK
  <1>2. /\ vsFilled \subseteq vsFilled'
        /\ vsFilled' \subseteq VsLevels
        /\ \A l \in VsLevels : l \in vsFilled' <=> l \in vsFilled \/ FillOf(m, l)
    <2>1. CASE m.topic = "listenKeyExpired"
      <3>1. vsFilled' = vsFilled
        BY <2>1 DEF DispatchPayload
      <3> QED BY <1>1, <2>1, <3>1 DEF FillOf
    <2>2. CASE m.topic # "listenKeyExpired"
      <3>1. vsFilled' = IF CountsAsFill(ev) THEN vsFilled \cup MatchTpLevel(ev) ELSE vsFilled
        BY <2>2 DEF DispatchPayload
      <3>2. \A l \in VsLevels : l \in MatchTpLevel(ev) <=> l = m.id /\ l \notin vsFilled
        BY IdKept DEF MatchTpLevel
      <3>3. MatchTpLevel(ev) \subseteq VsLevels
        BY DEF MatchTpLevel
      <3>4. \A l \in VsLevels : FillOf(m, l) <=> m.id = l /\ CountsAsFill(ev)
        BY <2>2 DEF FillOf
      <3> HIDE DEF ev, m
      <3> QED BY <1>1, <3>1, <3>2, <3>3, <3>4
    <2> QED BY <2>1, <2>2
  <1>3. \A l : /\ Tail(vsWire) \in Seq(VsRaws)
               /\ OnItsWay(vsWire, l) <=> FillOf(m, l) \/ OnItsWay(Tail(vsWire), l)
    BY <1>1, Delivered
  <1> HIDE DEF m
  <1>4. VsTypeOK'
    BY <1>1, <1>2, <1>3 DEF VsInv, VsTypeOK
  <1>5. \A l \in vsFilled' : vsOrders'[l] \in Reached
    BY <1>1, <1>2, <1>3 DEF VsInv, WireEarned
  <1>6. WireEarned(vsWire', vsOrders')
    BY <1>1, <1>3 DEF VsInv, WireEarned
  <1>7. NoneMissing(vsWire', vsOrders', vsFilled', vsLost')
    BY <1>1, <1>2, <1>3 DEF VsInv, NoneMissing
  <1> QED BY <1>4, <1>5, <1>6, <1>7 DEF VsInv

\* The life of the connection: the wire is kept, cut, or told of an expired key.
LEMMA StreamMoves ==
    ASSUME VsInv, UNCHANGED vsVenue,
           (\E ok \in BOOLEAN : SubscribeUserData(ok)) \/ StreamConnects \/ StreamFails
             \/ GoesSilent \/ PongMissed \/ KeepaliveFails \/ KeyExpires
    PROVE  VsInv'
  <1> DEFINE expired == <<VsMsg("listenKeyExpired", OtherOrder, "", 0)>>
  <1>1. UNCHANGED <<vsOrders, vsFilled>>
    BY DEF SubscribeUserData, StreamConnects, StreamFails, GoesSilent, PongMissed,
           KeepaliveFails, KeyExpires
  <1>2. \/ VsCut
        \/ UNCHANGED <<vsWire, vsLost>>
        \/ vsWire' = Append(vsWire, VsMsg("listenKeyExpired", OtherOrder, "", 0)) /\ UNCHANGED vsLost
    BY DEF SubscribeUserData, StreamConnects, StreamFails, GoesSilent, PongMissed,
           KeepaliveFails, KeyExpires
  <1>3. vsWire \in Seq(VsRaws) /\ vsLost \in BOOLEAN
    BY DEF VsInv, VsTypeOK
  <1>4. /\ vsWire' \in Seq(VsRaws) /\ vsLost' \in BOOLEAN
        /\ \A k : OnItsWay(vsWire', k) => OnItsWay(vsWire, k)
        /\ ~vsLost' => ~vsLost /\ \A k : OnItsWay(vsWire', k) <=> OnItsWay(vsWire, k)
    <2>1. CASE VsCut
      <3>1. vsWire' = <<>> /\ vsLost' = (vsLost \/ vsWire # <<>>)
        BY <2>1 DEF VsCut
      <3>2. vsWire' \in Seq(VsRaws) /\ vsLost' \in BOOLEAN
        BY <1>3, <3>1
      <3>3. ~vsLost' => ~vsLost /\ vsWire' = vsWire
        BY <1>3, <3>1
      <3> QED BY <3>1, <3>2, <3>3, Uncounted
    <2>2. CASE UNCHANGED <<vsWire, vsLost>>
      BY <1>3, <2>2
    <2>3. CASE vsWire' = Append(vsWire, VsMsg("listenKeyExpired", OtherOrder, "", 0)) /\ UNCHANGED vsLost
      <3> DEFINE e == VsMsg("listenKeyExpired", OtherOrder, "", 0)
      <3>1. e \in VsRaws
        BY DEF VsMsg, VsRaws, VsTopics, VsWords
      <3>2. expired \in Seq(VsRaws) /\ vsWire' = vsWire \o expired
        <4>1. expired = <<e>> /\ vsWire' = Append(vsWire, e)
          BY <2>3
        <4> HIDE DEF e, expired
        <4> QED BY <1>3, <3>1, <4>1
      <3>3. \A k : ~OnItsWay(expired, k)
        BY Uncounted
      <3> HIDE DEF expired
      <3>4. \A k : /\ vsWire \o expired \in Seq(VsRaws)
                   /\ OnItsWay(vsWire \o expired, k) <=> OnItsWay(vsWire, k) \/ OnItsWay(expired, k)
        BY <1>3, <3>2, Joined
      <3> HIDE DEF e
      <3> QED BY <1>3, <2>3, <3>2, <3>3, <3>4
    <2> QED BY <1>2, <2>1, <2>2, <2>3
  <1>5. VsTypeOK'
    BY <1>1, <1>4 DEF VsInv, VsTypeOK
  <1>6. WireEarned(vsWire', vsOrders')
    BY <1>1, <1>4 DEF VsInv, WireEarned
  <1>7. NoneMissing(vsWire', vsOrders', vsFilled', vsLost')
    BY <1>1, <1>4 DEF VsInv, NoneMissing
  <1> QED BY <1>1, <1>5, <1>6, <1>7 DEF VsInv

LEMMA StepStream == VsInv /\ [VsNext]_vsVars => VsInv'
  <1> SUFFICES ASSUME VsInv, [VsNext]_vsVars PROVE VsInv'
    OBVIOUS
  <1>1. CASE UNCHANGED vsVars
    BY <1>1 DEF vsVars, VsInv, VsTypeOK, WireEarned, NoneMissing
  <1>2. CASE VsNext
    BY <1>2, VenueMoves, PayloadDispatched, StreamMoves DEF VsNext, VsStep
  <1> QED BY <1>1, <1>2

\* A level counts as filled only when its order was triggered, whatever the
\* venue's messages are called and whichever id they carry; and a stream that
\* lost nothing and has delivered everything has left no fill uncounted.
THEOREM FillsCounted == VsSpec => []FillsReachTheirLevel
  <1>1. VsInv => FillsReachTheirLevel
    BY Uncounted DEF VsInv, NoneMissing, FillsReachTheirLevel, Reached
  <1> QED BY <1>1, StepStream, InitStream, PTL DEF VsSpec

-----------------------------------------------------------------------------
(* CcxtExecution: an order and its legs are placed once, in the quantity    *)
(* the entry can have bought.                                               *)

CxLegPcs == {"sl", "tp", "find_sl", "find_tp"}
CxPcs == CxLegPcs \cup {"idle", "margin", "entry", "find_entry", "hydrate", "resolve", "return", "done"}

CxTypeOK ==
    /\ cxAsk \in CxAsks
    /\ cxSize \in 0..CxQty /\ cxFilled \in 0..CxQty
    /\ cxSent \in [CxOrders -> Nat] /\ cxLegQty \in [Legs -> Nat]

\* What a leg at the venue closes: sent on its own it has what the adapter
\* found executed, and travelling with the entry the quantity of each entry.
LegBooked(l, sent, qty) ==
    IF CxBrackets = {}
    THEN qty[l] = IF l \in cxAsk.legs THEN CxQty * sent["entry"] ELSE 0
    ELSE IF sent[l] = 0 THEN qty[l] = 0 ELSE qty[l] \in 1..CxQty

\* The entry is there, and so is every leg that was to be sent after it.
AllPlaced(sent) == sent["entry"] > 0 /\ \A l \in CxBrackets : sent[l] > 0

\* Legs are sent only after the entry and with a size, and the call returns only
\* when the last one is at the venue.
PcFits(pc, size, sent, told) ==
    /\ pc \in CxPcs
    /\ pc \in CxLegPcs \cup {"hydrate", "resolve"} => CxBrackets # {} /\ sent["entry"] > 0
    /\ pc \in {"sl", "find_sl"} => "sl" \in CxBrackets
    /\ pc \in {"tp", "find_tp"} => "tp" \in CxBrackets
    /\ pc \in CxLegPcs => size > 0
    /\ pc = "return" \/ told = "placed" => AllPlaced(sent)

CxBooked(sent, qty) ==
    /\ cxAsk.id => sent["entry"] <= 1
    /\ \A l \in Legs : sent[l] <= 1 /\ LegBooked(l, sent, qty)
    /\ CxBrackets = {} => \A l \in Legs : sent[l] = 0

\* The inductive invariant.
CxInv == CxTypeOK /\ CxBooked(cxSent, cxLegQty) /\ PcFits(cxPc, cxSize, cxSent, cxTold)

\* The legs sent on their own are among the legs asked for, and the first of
\* those left to send is one of them.
LEMMA CxBracketsOK ==
    ASSUME CxTypeOK
    PROVE  /\ CxBrackets \subseteq Legs
           /\ CxBrackets # {} => CxBrackets = cxAsk.legs
           /\ \A rest \in SUBSET Legs : rest # {} => FirstLeg(rest) \in rest
  <1>1. cxAsk.legs \subseteq Legs
    BY DEF CxTypeOK, CxAsks
  <1>2. ASSUME NEW rest \in SUBSET Legs, rest # {} PROVE FirstLeg(rest) \in rest
    BY <1>2 DEF FirstLeg, BinanceFuturesFirst, BybitSpotFirst, Legs
  <1> QED BY <1>1, <1>2 DEF CxBrackets

LEMMA NextLegOK ==
    ASSUME CxTypeOK, NEW order \in Legs
    PROVE  \/ NextLeg(order) = "return" /\ \A l \in CxBrackets \ {order} : cxSent[l] > 0
           \/ NextLeg(order) \in CxBrackets
  <1> DEFINE rest == {l \in CxBrackets \ {order} : cxSent[l] = 0}
  <1>1. CASE rest = {}
    <2>1. NextLeg(order) = "return"
      BY <1>1 DEF NextLeg
    <2>2. \A l \in CxBrackets \ {order} : cxSent[l] > 0
      BY <1>1, CxBracketsOK DEF CxTypeOK, CxOrders
    <2> QED BY <2>1, <2>2
  <1>2. CASE rest # {}
    <2>1. NextLeg(order) = FirstLeg(rest)
      BY <1>2 DEF NextLeg
    <2>2. rest \in SUBSET Legs
      BY CxBracketsOK
    <2> QED BY <1>2, <2>1, <2>2, CxBracketsOK
  <1> QED BY <1>1, <1>2

LEMMA NextUnit ==
    ASSUME NEW q \in Nat, NEW n \in Nat
    PROVE  q * (n + 1) = q * n + q
  OBVIOUS

\* An order the venue accepts is booked: the entry with the legs that travel
\* with it, or a leg that was not there before.
LEMMA AcceptedOK ==
    ASSUME CxInv, NEW order \in CxOrders, cxPc = order, Accepts(order), Accepted(order)
    PROVE  /\ cxSent' \in [CxOrders -> Nat] /\ cxLegQty' \in [Legs -> Nat]
           /\ \A o \in CxOrders : cxSent'[o] = IF o = order THEN cxSent[o] + 1 ELSE cxSent[o]
           /\ CxBooked(cxSent', cxLegQty')
  <1> USE CxAssumption
  <1>1. /\ cxSent \in [CxOrders -> Nat] /\ cxLegQty \in [Legs -> Nat]
        /\ cxSize \in 0..CxQty /\ cxAsk \in CxAsks
    BY DEF CxInv, CxTypeOK
  <1>2. /\ cxSent' = [cxSent EXCEPT ![order] = @ + 1]
        /\ \A l \in Legs : cxLegQty'[l] =
               IF l = order THEN cxLegQty[l] + cxSize
               ELSE IF order = "entry" /\ CxBrackets = {} /\ l \in cxAsk.legs
               THEN cxLegQty[l] + CxQty ELSE cxLegQty[l]
        /\ cxLegQty' \in [Legs -> Nat]
    <2>1. cxLegQty' = [l \in Legs |->
               IF l = order THEN cxLegQty[l] + cxSize
               ELSE IF order = "entry" /\ CxBrackets = {} /\ l \in cxAsk.legs
               THEN cxLegQty[l] + CxQty ELSE cxLegQty[l]]
      BY DEF Accepted
    <2>2. \A l \in Legs : cxLegQty[l] + cxSize \in Nat /\ cxLegQty[l] + CxQty \in Nat
      BY <1>1
    <2>3. cxLegQty' \in [Legs -> Nat]
      BY <1>1, <2>1, <2>2
    <2> QED BY <2>1, <2>3 DEF Accepted
  <1>3. /\ cxSent' \in [CxOrders -> Nat]
        /\ \A o \in CxOrders : cxSent'[o] = IF o = order THEN cxSent[o] + 1 ELSE cxSent[o]
    BY <1>1, <1>2
  <1>4. order \in Legs => /\ cxSent[order] = 0 /\ order \in CxBrackets /\ cxSize > 0
    <2>1. order \in Legs => order # "entry" /\ cxPc \in CxLegPcs
      BY DEF Legs, CxLegPcs
    <2>2. order \in Legs => ~(cxSent[order] > 0)
      BY <2>1 DEF Accepts, HasClientId
    <2>3. order \in Legs => order \in CxBrackets /\ cxSize > 0
      BY <2>1 DEF Legs, CxInv, PcFits
    <2> QED BY <1>1, <2>1, <2>2, <2>3 DEF CxOrders
  <1>5. cxAsk.id => cxSent'["entry"] <= 1
    BY <1>1, <1>3 DEF CxInv, CxBooked, Accepts, HasClientId, CxOrders, Legs
  <1>6. ASSUME NEW l \in Legs PROVE cxSent'[l] <= 1 /\ LegBooked(l, cxSent', cxLegQty')
    <2>1. l # "entry" /\ l \in CxOrders /\ "entry" \in CxOrders
      BY DEF Legs, CxOrders
    <2>2. cxSent[l] <= 1 /\ LegBooked(l, cxSent, cxLegQty)
      BY DEF CxInv, CxBooked
    <2>3. cxSent'[l] <= 1
      BY <1>1, <1>3, <1>4, <2>1, <2>2
    <2>4. CASE CxBrackets = {}
      <3>1. order = "entry"
        BY <1>4, <2>4 DEF CxOrders
      <3>2. cxSent'["entry"] = cxSent["entry"] + 1 /\ cxSent["entry"] \in Nat
        BY <1>1, <1>3, <2>1, <3>1
      <3>3. CxQty * cxSent'["entry"] = CxQty * cxSent["entry"] + CxQty
        BY <3>2, NextUnit
      <3>4. cxLegQty'[l] = IF l \in cxAsk.legs THEN cxLegQty[l] + CxQty ELSE cxLegQty[l]
        BY <1>2, <2>1, <2>4, <3>1
      <3>5. cxLegQty[l] = IF l \in cxAsk.legs THEN CxQty * cxSent["entry"] ELSE 0
        BY <2>2, <2>4 DEF LegBooked
      <3> QED BY <2>3, <2>4, <3>3, <3>4, <3>5 DEF LegBooked
    <2>5. CASE CxBrackets # {} /\ l = order
      <3>1. cxLegQty'[l] = cxLegQty[l] + cxSize /\ cxSent[l] = 0
        BY <1>2, <1>4, <2>5
      <3>2. cxLegQty[l] = 0
        BY <2>2, <2>5, <3>1 DEF LegBooked
      <3>3. cxLegQty'[l] \in 1..CxQty
        BY <1>1, <1>4, <2>5, <3>1, <3>2
      <3>4. cxSent'[l] = 1
        BY <1>3, <2>1, <2>5, <3>1
      <3> QED BY <2>3, <2>5, <3>3, <3>4 DEF LegBooked
    <2>6. CASE CxBrackets # {} /\ l # order
      <3>1. cxLegQty'[l] = cxLegQty[l] /\ cxSent'[l] = cxSent[l]
        BY <1>2, <1>3, <2>1, <2>6
      <3> QED BY <2>2, <2>3, <2>6, <3>1 DEF LegBooked
    <2> QED BY <2>4, <2>5, <2>6
  <1>7. CxBrackets = {} => \A l \in Legs : cxSent'[l] = 0
    BY <1>1, <1>3, <1>4 DEF CxInv, CxBooked, CxOrders, Legs
  <1> QED BY <1>2, <1>3, <1>5, <1>6, <1>7 DEF CxBooked

\* Where the call goes once an order is at the venue.
LEMMA AfterCreateOK ==
    ASSUME CxInv, NEW order \in CxOrders, cxPc \in {order, Finding(order)},
           NEW sent \in [CxOrders -> Nat], sent[order] > 0,
           \A o \in CxOrders : sent[o] >= cxSent[o]
    PROVE  PcFits(AfterCreate(order), cxSize, sent, cxTold)
  <1>1. CxTypeOK /\ cxSent \in [CxOrders -> Nat] /\ cxSize \in Nat /\ CxBrackets \subseteq Legs
    BY CxBracketsOK DEF CxInv, CxTypeOK
  <1>2. Legs \subseteq CxOrders /\ "entry" \in CxOrders
    BY DEF CxOrders
  <1>3. cxTold = "placed" => AllPlaced(sent)
    BY <1>1, <1>2 DEF CxInv, PcFits, AllPlaced
  <1>4. CASE order \in Legs
    <2>1. AfterCreate(order) = NextLeg(order)
      BY <1>4 DEF AfterCreate, Legs
    <2>2. cxPc \in CxLegPcs
      BY <1>4 DEF CxLegPcs, Legs, Finding
    <2>3. CxBrackets # {} /\ cxSent["entry"] > 0 /\ cxSize > 0
      BY <2>2 DEF CxInv, PcFits
    <2>4. sent["entry"] > 0
      BY <1>1, <1>2, <2>3
    <2>5. CASE NextLeg(order) = "return" /\ \A l \in CxBrackets \ {order} : cxSent[l] > 0
      <3>1. \A l \in CxBrackets : sent[l] > 0
        BY <1>1, <1>2, <2>5
      <3> QED BY <1>3, <2>1, <2>4, <2>5, <3>1 DEF PcFits, AllPlaced, CxPcs, CxLegPcs
    <2>6. CASE NextLeg(order) \in CxBrackets
      <3>1. NextLeg(order) \in {"sl", "tp"}
        BY <1>1, <2>6 DEF Legs
      <3> QED BY <1>3, <2>1, <2>3, <2>4, <2>6, <3>1 DEF PcFits, CxPcs, CxLegPcs
    <2> QED BY <1>1, <1>4, <2>5, <2>6, NextLegOK
  <1>5. CASE order = "entry"
    <2>1. CASE CxBrackets = {}
      <3>1. AfterCreate(order) = "return"
        BY <1>5, <2>1 DEF AfterCreate
      <3> QED BY <1>3, <1>5, <2>1, <3>1 DEF PcFits, AllPlaced, CxPcs, CxLegPcs
    <2>2. CASE CxBrackets # {}
      <3>1. AfterCreate(order) \in {"hydrate", "resolve"}
        BY <1>5, <2>2 DEF AfterCreate, AfterBinanceEntry, AfterBybitEntry
      <3> QED BY <1>3, <1>5, <2>2, <3>1 DEF PcFits, CxPcs, CxLegPcs
    <2> QED BY <2>1, <2>2
  <1> QED BY <1>4, <1>5 DEF CxOrders

\* A step that leaves the request alone keeps the invariant if its parts do.
LEMMA CxPrimed ==
    ASSUME CxInv, UNCHANGED cxAsk,
           cxSize' \in 0..CxQty, cxFilled' \in 0..CxQty,
           cxSent' \in [CxOrders -> Nat], cxLegQty' \in [Legs -> Nat],
           CxBooked(cxSent', cxLegQty'), PcFits(cxPc', cxSize', cxSent', cxTold')
    PROVE  CxInv'
  <1>1. CxBrackets' = CxBrackets
    BY DEF CxBrackets
  <1>2. CxTypeOK'
    BY DEF CxInv, CxTypeOK
  <1>3. CxBooked(cxSent, cxLegQty)'
    BY <1>1 DEF CxBooked, LegBooked
  <1>4. PcFits(cxPc, cxSize, cxSent, cxTold)'
    BY <1>1 DEF PcFits, AllPlaced
  <1> QED BY <1>2, <1>3, <1>4 DEF CxInv

LEMMA InitExecution == CxInit => CxInv
  <1> SUFFICES ASSUME CxInit PROVE CxInv
    OBVIOUS
  <1>1. CxTypeOK
    BY CxAssumption DEF CxInit, CxTypeOK
  <1>2. \A o \in CxOrders : cxSent[o] = 0
    BY DEF CxInit
  <1>3. "entry" \in CxOrders /\ Legs \subseteq CxOrders
    BY DEF CxOrders
  <1>4. CxQty * cxSent["entry"] = 0
    BY <1>2, <1>3, CxAssumption
  <1>5. \A l \in Legs : cxLegQty[l] = 0
    BY DEF CxInit
  <1>6. CxBooked(cxSent, cxLegQty)
    BY <1>2, <1>3, <1>4, <1>5 DEF CxBooked, LegBooked
  <1>7. PcFits(cxPc, cxSize, cxSent, cxTold)
    BY DEF CxInit, PcFits, CxPcs, CxLegPcs
  <1> QED BY <1>1, <1>6, <1>7 DEF CxInv

\* A request for an order: accepted and acknowledged, retried, looked up, refused.
LEMMA OrderActs ==
    ASSUME CxInv, NEW order \in CxOrders,
           CxCreate(order) \/ CxTransient(order) \/ CxDuplicate(order) \/ CxRejected(order)
             \/ CxFind(order)
    PROVE  CxInv'
  <1> DEFINE Kept == cxSent' = cxSent /\ cxLegQty' = cxLegQty
  <1>1. /\ UNCHANGED <<cxAsk, cxSize, cxFilled>> /\ cxSize \in 0..CxQty /\ cxFilled \in 0..CxQty
        /\ cxSent \in [CxOrders -> Nat] /\ cxLegQty \in [Legs -> Nat]
        /\ CxBooked(cxSent, cxLegQty) /\ PcFits(cxPc, cxSize, cxSent, cxTold)
        /\ \A o \in CxOrders : cxSent[o] \in Nat
    BY DEF CxInv, CxTypeOK, CxCreate, CxTransient, CxDuplicate, CxRejected, CxFind, CxGo, CxEnd
  <1>2. CASE CxCreate(order)
    <2>1. /\ cxPc = order /\ Accepts(order) /\ Accepted(order) /\ cxTold' = cxTold
          /\ cxPc' = AfterCreate(order)
      BY <1>2 DEF CxCreate
    <2>2. /\ cxSent' \in [CxOrders -> Nat] /\ cxLegQty' \in [Legs -> Nat]
          /\ CxBooked(cxSent', cxLegQty')
          /\ \A o \in CxOrders : cxSent'[o] = IF o = order THEN cxSent[o] + 1 ELSE cxSent[o]
      BY <2>1, AcceptedOK
    <2>3. cxSent'[order] > 0 /\ \A o \in CxOrders : cxSent'[o] >= cxSent[o]
      BY <1>1, <2>2
    <2>4. PcFits(AfterCreate(order), cxSize, cxSent', cxTold)
      BY <2>1, <2>2, <2>3, AfterCreateOK
    <2> QED BY <1>1, <2>1, <2>2, <2>4, CxPrimed
  <1>3. CASE CxTransient(order)
    <2>1. /\ cxPc = order
          /\ \/ Accepts(order) /\ Accepted(order)
             \/ Kept
          /\ \/ cxPc' = cxPc /\ cxTold' = cxTold
             \/ cxPc' = Finding(order) /\ cxTold' = cxTold
             \/ cxPc' = "done" /\ cxTold' = "error"
      BY <1>3 DEF CxTransient
    <2>2. /\ cxSent' \in [CxOrders -> Nat] /\ cxLegQty' \in [Legs -> Nat]
          /\ CxBooked(cxSent', cxLegQty')
          /\ \A o \in CxOrders : cxSent'[o] >= cxSent[o]
      <3>1. CASE Kept
        BY <1>1, <3>1
      <3>2. CASE Accepts(order) /\ Accepted(order)
        <4>1. /\ cxSent' \in [CxOrders -> Nat] /\ cxLegQty' \in [Legs -> Nat]
              /\ CxBooked(cxSent', cxLegQty')
              /\ \A o \in CxOrders : cxSent'[o] = IF o = order THEN cxSent[o] + 1 ELSE cxSent[o]
          BY <2>1, <3>2, AcceptedOK
        <4> QED BY <1>1, <4>1
      <3> QED BY <2>1, <3>1, <3>2
    <2>3. PcFits(cxPc', cxSize, cxSent', cxTold')
      <3>1. AllPlaced(cxSent) => AllPlaced(cxSent')
        BY <1>1, <2>2, CxBracketsOK DEF CxInv, CxTypeOK, AllPlaced, CxOrders
      <3>2. cxSent["entry"] > 0 => cxSent'["entry"] > 0
        BY <1>1, <2>2 DEF CxOrders
      <3>3. order \in {"sl", "tp", "entry"}
        BY DEF CxOrders, Legs
      <3>4. Finding(order) = IF order = "entry" THEN "find_entry"
                             ELSE IF order = "sl" THEN "find_sl" ELSE "find_tp"
        BY <3>3 DEF Finding
      <3> HIDE DEF Kept
      <3>5. CASE cxPc' = cxPc /\ cxTold' = cxTold
        BY <1>1, <3>1, <3>2, <3>5 DEF PcFits
      <3>6. CASE cxPc' = Finding(order) /\ cxTold' = cxTold
        <4>1. CASE order = "entry"
          BY <1>1, <2>1, <3>1, <3>4, <3>6, <4>1 DEF PcFits, CxPcs, CxLegPcs
        <4>2. CASE order = "sl"
          BY <1>1, <2>1, <3>1, <3>2, <3>4, <3>6, <4>2 DEF PcFits, CxPcs, CxLegPcs
        <4>3. CASE order = "tp"
          BY <1>1, <2>1, <3>1, <3>2, <3>4, <3>6, <4>3 DEF PcFits, CxPcs, CxLegPcs
        <4> QED BY <3>3, <4>1, <4>2, <4>3
      <3>7. CASE cxPc' = "done" /\ cxTold' = "error"
        BY <3>7 DEF PcFits, CxPcs, CxLegPcs
      <3> QED BY <2>1, <3>5, <3>6, <3>7
    <2> QED BY <1>1, <2>2, <2>3, CxPrimed
  <1>4. CASE CxDuplicate(order)
    <2>1. cxPc = order /\ cxPc' = Finding(order) /\ cxTold' = cxTold /\ Kept
      BY <1>4 DEF CxDuplicate, CxGo
    <2>2. order \in {"sl", "tp", "entry"}
      BY DEF CxOrders, Legs
    <2>3. PcFits(cxPc', cxSize, cxSent, cxTold')
      <3>1. Finding(order) = IF order = "entry" THEN "find_entry"
                             ELSE IF order = "sl" THEN "find_sl" ELSE "find_tp"
        BY <2>2 DEF Finding
      <3>2. CASE order = "entry"
        BY <1>1, <2>1, <3>1, <3>2 DEF PcFits, CxPcs, CxLegPcs
      <3>3. CASE order = "sl"
        BY <1>1, <2>1, <3>1, <3>3 DEF PcFits, CxPcs, CxLegPcs
      <3>4. CASE order = "tp"
        BY <1>1, <2>1, <3>1, <3>4 DEF PcFits, CxPcs, CxLegPcs
      <3> QED BY <2>2, <3>2, <3>3, <3>4
    <2> QED BY <1>1, <2>1, <2>3, CxPrimed
  <1>5. CASE CxFind(order) /\ cxTold' = cxTold /\ cxSent[order] > 0
    <2>1. cxPc = Finding(order) /\ Kept
      BY <1>5 DEF CxFind, CxGo, CxEnd
    <2>2. cxPc' = AfterCreate(order) \/ (cxPc' = "done" /\ cxTold' = "error")
      BY <1>5 DEF CxFind, CxGo, CxEnd
    <2>3. PcFits(AfterCreate(order), cxSize, cxSent, cxTold)
      BY <1>1, <1>5, <2>1, AfterCreateOK
    <2>4. PcFits(cxPc', cxSize, cxSent', cxTold')
      <3>1. CASE cxPc' = AfterCreate(order)
        BY <1>5, <2>1, <2>3, <3>1
      <3>2. CASE cxPc' = "done" /\ cxTold' = "error"
        BY <3>2 DEF PcFits, CxPcs, CxLegPcs
      <3> QED BY <2>2, <3>1, <3>2
    <2> QED BY <1>1, <2>1, <2>4, CxPrimed
  <1>6. CASE CxRejected(order) \/ (CxFind(order) /\ ~(cxTold' = cxTold /\ cxSent[order] > 0))
    <2>1. cxPc' = "done" /\ cxTold' = "error" /\ Kept
      BY <1>6 DEF CxRejected, CxFind, CxGo, CxEnd
    <2>2. PcFits(cxPc', cxSize, cxSent', cxTold')
      BY <1>1, <2>1 DEF PcFits, CxPcs, CxLegPcs
    <2> QED BY <1>1, <2>1, <2>2, CxPrimed
  <1> QED BY <1>2, <1>3, <1>4, <1>5, <1>6

\* Everything else of the call, and the venue executing the entry.
LEMMA CallActs ==
    ASSUME CxInv, CxOpenClient \/ CxIsolateMargin \/ VenueFills \/ CxHydrate \/ CxResolve
                    \/ CxReturn \/ CxDone
    PROVE  CxInv'
  <1> USE CxAssumption
  <1>1. /\ UNCHANGED <<cxAsk, cxSent, cxLegQty>>
        /\ cxSize \in 0..CxQty /\ cxFilled \in 0..CxQty
        /\ cxSent \in [CxOrders -> Nat] /\ cxLegQty \in [Legs -> Nat]
        /\ CxBooked(cxSent, cxLegQty) /\ PcFits(cxPc, cxSize, cxSent, cxTold)
    BY DEF CxInv, CxTypeOK, CxOpenClient, CxIsolateMargin, VenueFills, CxHydrate, CxResolve,
           CxReturn, CxDone, CxGo, CxEnd, cxVars
  <1>2. CASE CxOpenClient \/ CxIsolateMargin
    <2>1. /\ cxPc' \in {"margin", "entry", "done"} /\ UNCHANGED <<cxSize, cxFilled>>
          /\ cxTold' = cxTold \/ cxTold' = "error"
      BY <1>2 DEF CxOpenClient, CxIsolateMargin, CxGo, CxEnd
    <2>2. PcFits(cxPc', cxSize', cxSent', cxTold')
      BY <1>1, <2>1 DEF PcFits, CxPcs, CxLegPcs
    <2> QED BY <1>1, <2>1, <2>2, CxPrimed
  <1>3. CASE VenueFills
    <2>1. cxFilled' \in 0..CxQty /\ UNCHANGED <<cxPc, cxTold, cxSize>>
      BY <1>1, <1>3 DEF VenueFills
    <2> QED BY <1>1, <2>1, CxPrimed
  <1>4. CASE CxHydrate \/ CxResolve
    <2>1. /\ cxPc \in {"hydrate", "resolve"} /\ UNCHANGED <<cxFilled, cxTold>>
          /\ cxSize' \in 0..CxQty
          /\ \/ cxPc' = "resolve"
             \/ cxPc' = FirstLeg(CxBrackets) /\ cxSize' > 0
      BY <1>1, <1>4 DEF CxHydrate, CxResolve, Hydrated, ResolveFilledAmountFast
    <2>2. CxBrackets # {} /\ cxSent["entry"] > 0
      BY <1>1, <2>1 DEF PcFits
    <2>3. FirstLeg(CxBrackets) \in CxBrackets /\ CxBrackets \subseteq {"sl", "tp"}
      BY <2>2, CxBracketsOK DEF CxInv, Legs
    <2>4. PcFits(cxPc', cxSize', cxSent', cxTold')
      BY <1>1, <2>1, <2>2, <2>3 DEF PcFits, CxPcs, CxLegPcs
    <2> QED BY <1>1, <2>1, <2>4, CxPrimed
  <1>5. CASE CxReturn
    <2>1. cxPc = "return" /\ cxPc' = "done" /\ cxTold' = "placed" /\ UNCHANGED <<cxSize, cxFilled>>
      BY <1>5 DEF CxReturn, CxEnd
    <2>2. PcFits(cxPc', cxSize', cxSent', cxTold')
      BY <1>1, <2>1 DEF PcFits, CxPcs, CxLegPcs
    <2> QED BY <1>1, <2>1, <2>2, CxPrimed
  <1>6. CASE CxDone
    BY <1>1, <1>6, CxPrimed DEF CxDone, cxVars
  <1> QED BY <1>2, <1>3, <1>4, <1>5, <1>6

\* An order placed under a client id is at the venue at most once, with each of
\* its legs, through every retry and look-up of create_order; and when the call
\* returns an order, the entry is there with every leg asked for, in a quantity
\* the entry can have bought.
THEOREM OrdersPlacedOnce == CxSpec => []PlacedOnce
  <1>1. CxInv /\ [CxNext]_cxVars => CxInv'
    <2> SUFFICES ASSUME CxInv, [CxNext]_cxVars PROVE CxInv'
      OBVIOUS
    <2>1. CASE UNCHANGED cxVars
      <3>1. CxDone \/ UNCHANGED cxVars
        BY <2>1
      <3>2. /\ cxSize \in 0..CxQty /\ cxFilled \in 0..CxQty
            /\ cxSent \in [CxOrders -> Nat] /\ cxLegQty \in [Legs -> Nat]
            /\ CxBooked(cxSent, cxLegQty) /\ PcFits(cxPc, cxSize, cxSent, cxTold)
        BY DEF CxInv, CxTypeOK
      <3> QED BY <2>1, <3>2, CxPrimed DEF cxVars
    <2> QED BY <2>1, OrderActs, CallActs DEF CxNext
  <1>2. CxInv => PlacedOnce
    <2> SUFFICES ASSUME CxInv PROVE PlacedOnce
      OBVIOUS
    <2> USE CxAssumption
    <2>1. /\ cxSent["entry"] \in Nat /\ cxAsk.legs \subseteq Legs
          /\ CxBooked(cxSent, cxLegQty)
      BY DEF CxInv, CxTypeOK, CxOrders, CxAsks
    <2>2. ASSUME cxTold = "placed", NEW l \in cxAsk.legs
          PROVE  cxLegQty[l] \in 1..(CxQty * cxSent["entry"])
      <3>1. AllPlaced(cxSent)
        BY <2>2 DEF CxInv, PcFits
      <3>2. PICK n \in Nat : cxSent["entry"] = n + 1
        BY <2>1, <3>1 DEF AllPlaced
      <3>3. CxQty * cxSent["entry"] = CxQty * n + CxQty /\ CxQty * n \in Nat
        BY <3>2, NextUnit
      <3>4. LegBooked(l, cxSent, cxLegQty)
        BY <2>1, <2>2 DEF CxBooked
      <3>5. CASE CxBrackets = {}
        BY <2>1, <2>2, <3>3, <3>4, <3>5 DEF LegBooked
      <3>6. CASE CxBrackets # {}
        <4>1. l \in CxBrackets
          BY <2>2, <3>6, CxBracketsOK DEF CxInv
        <4>2. cxSent[l] > 0 /\ cxSent[l] # 0
          BY <3>1, <4>1 DEF AllPlaced
        <4>3. cxLegQty[l] \in 1..CxQty
          BY <3>4, <3>6, <4>2 DEF LegBooked
        <4> QED BY <3>3, <4>3
      <3> QED BY <3>5, <3>6
    <2>3. cxTold = "placed" => cxSent["entry"] > 0
      BY DEF CxInv, PcFits, AllPlaced
    <2> QED BY <2>1, <2>2, <2>3 DEF PlacedOnce, CxBooked
  <1> QED BY <1>1, <1>2, InitExecution, PTL DEF CxSpec

-----------------------------------------------------------------------------
(* BinanceAdapter: what the end of a call tells its caller.                 *)

CallShape(c) ==
    c = [pc |-> c.pc, close |-> c.close, old |-> c.old, attempt |-> c.attempt,
         resolved |-> c.resolved, fits |-> c.fits]

BnTypeOK ==
    /\ bnSize \in Nat /\ bnTask \in Nat
    /\ \A s \in bnStops : s.task \in Int
    /\ \A u \in bnUsed : u[1] \in Nat
    /\ CallShape(bnCall) /\ bnCall.old.task \in Int

EntryPcs == {"entry_sl", "entry_tp", "rb_cancel", "rb_close"}
ReplacePcs == {"cancel_first", "place", "lookup", "lookup_ro", "conflict", "classify",
               "exhausted", "cancel_last"}
BnPcs == EntryPcs \cup ReplacePcs \cup {"idle", "tp_delete", "tp_place"}

\* The venue has seen an id of this task.
Attempted(used, task) == \E u \in used : u[1] = task

\* While a position lives, a placement the venue has seen left its stop there.
Covered(size, stops, used, task) ==
    size > 0 /\ Attempted(used, task) => \E s \in stops : s.task = task

Numbered(stops, used, task) ==
    /\ task = 0 => used = {}
    /\ \A u \in used : u[1] <= task
    /\ \A s \in stops : s.task <= task

\* What the label of the call under way, and the outcome of the last one, imply.
CallKnows(call, told, size, stops, tps, used, task) ==
    /\ call.pc \in BnPcs
    /\ call.pc # "idle" => told = "waiting"
    /\ call.pc \in EntryPcs => task = 0
    /\ call.pc \in ReplacePcs => task # 0 /\ call.old.task # task
    /\ call.pc = "cancel_last" \/ told = "replaced" => Attempted(used, task)
    /\ (call.pc = "entry_tp" \/ told = "entered") /\ size > 0 => stops # {}
    /\ told = "skipped_flat" => size = 0
    /\ call.pc = "tp_place" => tps = {}
    /\ told = "tp_replaced" => tps \subseteq {task}

\* The inductive invariant.
BnInv ==
    /\ BnTypeOK
    /\ Numbered(bnStops, bnUsed, bnTask)
    /\ Covered(bnSize, bnStops, bnUsed, bnTask)
    /\ CallKnows(bnCall, bnTold, bnSize, bnStops, bnTps, bnUsed, bnTask)

LEMMA NoStopOK ==
    /\ NoStop.task \in Int /\ NoStop.task = -1
    /\ DeadStop.task \in Int /\ DeadStop.task = -2
  BY DEF NoStop, DeadStop

LEMMA IdleOK ==
    ASSUME NEW label
    PROVE  LET d == [BnIdle EXCEPT !.pc = label]
           IN  CallShape(d) /\ d.pc = label /\ d.old = NoStop
  <1>1. CallShape(BnIdle) /\ BnIdle.old = NoStop
    BY DEF BnIdle, CallShape
  <1> QED BY <1>1 DEF CallShape

\* The two ways a step leaves the call.
LEMMA Told ==
    ASSUME NEW outcome, Tell(outcome)
    PROVE  /\ bnTold' = outcome /\ bnCall'.pc = "idle"
           /\ CallShape(bnCall') /\ bnCall'.old.task \in Int
  BY DEF Tell, BnIdle, NoStop, CallShape

LEMMA Gone ==
    ASSUME BnTypeOK, NEW label, Go(label)
    PROVE  /\ bnCall'.pc = label /\ bnCall'.old = bnCall.old
           /\ CallShape(bnCall') /\ bnCall'.old.task \in Int
  BY DEF BnTypeOK, Go, CallShape

LEMMA Tried ==
    ASSUME BnTypeOK, NextAttempt
    PROVE  /\ bnCall'.pc \in {"exhausted", "place"} /\ bnCall'.old = bnCall.old
           /\ CallShape(bnCall') /\ bnCall'.old.task \in Int
  BY DEF BnTypeOK, NextAttempt, CallShape

\* A position that becomes smaller keeps its orders until it is gone.
LEMMA Shrunk ==
    ASSUME NEW n \in Nat, Shrink(n)
    PROVE  /\ bnSize' = n
           /\ n = 0 => bnStops' = {} /\ bnTps' = {}
           /\ n # 0 => bnStops' = bnStops /\ bnTps' = bnTps
  BY DEF Shrink

LEMMA InitBinance == BnInit => BnInv
  BY DEF BnInit, BnInv, BnTypeOK, BnIdle, NoStop, CallShape, Numbered, Covered,
         Attempted, CallKnows, BnPcs, EntryPcs, ReplacePcs

\* The venue acts, or a close in one request: the position keeps its orders or
\* loses them all.
LEMMA Smaller ==
    ASSUME BnInv, UNCHANGED <<bnUsed, bnTask>>,
           bnSize' \in Nat, bnSize' > 0 => bnSize > 0 /\ bnStops' = bnStops,
           bnSize' = 0 => bnStops' = {} \/ bnStops' = bnStops,
           bnTps' = {} \/ bnTps' = bnTps, bnSize = 0 => bnSize' = 0,
           \/ UNCHANGED <<bnCall, bnTold>>
           \/ /\ bnCall'.pc = "idle" /\ CallShape(bnCall') /\ bnCall'.old.task \in Int
              /\ bnTold' \notin {"entered", "replaced", "skipped_flat", "tp_replaced"}
    PROVE  BnInv'
  <1>1. BnTypeOK'
    BY DEF BnInv, BnTypeOK
  <1>2. Numbered(bnStops', bnUsed', bnTask')
    BY DEF BnInv, Numbered
  <1>3. Covered(bnSize', bnStops', bnUsed', bnTask')
    BY DEF BnInv, BnTypeOK, Covered, Attempted
  <1>4. CallKnows(bnCall', bnTold', bnSize', bnStops', bnTps', bnUsed', bnTask')
    <2>1. CASE UNCHANGED <<bnCall, bnTold>>
      BY <2>1 DEF BnInv, BnTypeOK, CallKnows, Attempted
    <2>2. CASE ~UNCHANGED <<bnCall, bnTold>>
      BY <2>2 DEF CallKnows, BnPcs, EntryPcs, ReplacePcs
    <2> QED BY <2>1, <2>2
  <1> QED BY <1>1, <1>2, <1>3, <1>4 DEF BnInv

LEMMA VenueActsBn ==
    ASSUME BnInv, VenueStopFires \/ VenueTakesProfit
    PROVE  BnInv'
  <1>1. bnSize \in Nat
    BY DEF BnInv, BnTypeOK
  <1>2. CASE VenueStopFires
    <2>1. Shrink(0) /\ UNCHANGED <<bnUsed, bnTask, bnCall, bnTold>>
      BY <1>2 DEF VenueStopFires
    <2> QED BY <2>1, Shrunk, Smaller
  <1>3. CASE VenueTakesProfit
    <2>1. bnSize > 0 /\ Shrink(bnSize - 1) /\ UNCHANGED <<bnUsed, bnTask, bnCall, bnTold>>
      BY <1>3 DEF VenueTakesProfit
    <2>2. bnSize - 1 \in Nat
      BY <1>1, <2>1
    <2>3. /\ bnSize' = bnSize - 1
          /\ bnSize - 1 = 0 => bnStops' = {} /\ bnTps' = {}
          /\ bnSize - 1 # 0 => bnStops' = bnStops /\ bnTps' = bnTps
      BY <2>1, <2>2, Shrunk
    <2> QED BY <1>1, <2>1, <2>2, <2>3, Smaller
  <1> QED BY <1>2, <1>3

LEMMA ClosesBn ==
    ASSUME BnInv, NEW reply \in Replies, NEW read \in BOOLEAN,
           BnRollbackClose(reply) \/ BnCloseAll(reply) \/ BnEmergency(read, reply)
    PROVE  BnInv'
  <1>1. PICK outcome : Tell(outcome)
                       /\ outcome \in {"entry_raised", "closed", "close_raised", "emergency_skipped"}
    BY DEF BnRollbackClose, BnCloseAll, BnEmergency
  <1>2. /\ UNCHANGED <<bnUsed, bnTask>>
        /\ Shrink(0) \/ UNCHANGED <<bnSize, bnStops, bnTps>>
    BY DEF BnRollbackClose, BnCloseAll, BnEmergency
  <1>3. /\ bnCall'.pc = "idle" /\ CallShape(bnCall') /\ bnCall'.old.task \in Int
        /\ bnTold' \notin {"entered", "replaced", "skipped_flat", "tp_replaced"}
    BY <1>1, Told
  <1>4. bnSize \in Nat
    BY DEF BnInv, BnTypeOK
  <1>5. CASE Shrink(0)
    BY <1>2, <1>3, <1>5, Shrunk, Smaller
  <1>6. CASE UNCHANGED <<bnSize, bnStops, bnTps>>
    BY <1>2, <1>3, <1>4, <1>6, Smaller
  <1> QED BY <1>2, <1>5, <1>6

LEMMA EntryBn ==
    ASSUME BnInv, NEW reply \in Replies, NEW n \in 0..BnQty,
           BnEntry(reply, n) \/ BnEntryStop(reply) \/ BnEntryTp(reply) \/ BnRollbackCancel(reply)
    PROVE  BnInv'
  <1>1. BnTypeOK /\ bnSize \in Nat /\ n \in Nat /\ Numbered(bnStops, bnUsed, bnTask)
    BY BnAssumption DEF BnInv, BnTypeOK
  <1>2. CASE BnEntry(reply, n)
    <2>1. /\ bnTask = 0 /\ bnSize' \in Nat /\ UNCHANGED <<bnStops, bnTps, bnUsed, bnTask>>
          /\ \/ Tell("entry_unknown") \/ Tell("unfilled")
             \/ bnCall' = [BnIdle EXCEPT !.pc = "entry_sl"] /\ bnTold' = "waiting"
      BY <1>1, <1>2 DEF BnEntry
    <2>2. /\ CallShape(bnCall') /\ bnCall'.old.task \in Int
          /\ \/ bnCall'.pc = "idle" /\ bnTold' \in {"entry_unknown", "unfilled"}
             \/ bnCall'.pc = "entry_sl" /\ bnTold' = "waiting"
      <3>1. CASE Tell("entry_unknown") \/ Tell("unfilled")
        BY <3>1, Told
      <3>2. CASE bnCall' = [BnIdle EXCEPT !.pc = "entry_sl"] /\ bnTold' = "waiting"
        BY <3>2, IdleOK, NoStopOK
      <3> QED BY <2>1, <3>1, <3>2
    <2>3. bnUsed = {}
      BY <1>1, <2>1 DEF Numbered
    <2>4. BnTypeOK'
      BY <1>1, <2>1, <2>2 DEF BnTypeOK
    <2>5. Numbered(bnStops', bnUsed', bnTask') /\ Covered(bnSize', bnStops', bnUsed', bnTask')
      BY <1>1, <2>1, <2>3 DEF Numbered, Covered, Attempted
    <2>6. CallKnows(bnCall', bnTold', bnSize', bnStops', bnTps', bnUsed', bnTask')
      BY <2>1, <2>2 DEF CallKnows, BnPcs, EntryPcs, ReplacePcs
    <2> QED BY <2>4, <2>5, <2>6 DEF BnInv
  <1>3. CASE BnEntryStop(reply)
    <2>1. /\ bnCall.pc = "entry_sl" /\ UNCHANGED <<bnSize, bnTps, bnUsed, bnTask, bnTold>>
          /\ bnStops' = IF BnDone(reply) /\ bnSize > 0
                        THEN {[task |-> 0, attempt |-> 1, close |-> FALSE]} ELSE bnStops
          /\ reply = "ok" => BnDone(reply)
          /\ bnCall' = [bnCall EXCEPT !.pc = IF reply = "ok" THEN "entry_tp" ELSE "rb_close"]
      BY <1>3 DEF BnEntryStop, At, BnDone
    <2>2. /\ CallShape(bnCall') /\ bnCall'.old.task \in Int
          /\ bnCall'.pc = IF reply = "ok" THEN "entry_tp" ELSE "rb_close"
      BY <1>1, <2>1 DEF BnTypeOK, CallShape
    <2>3. bnTask = 0 /\ bnUsed = {} /\ bnTold = "waiting"
      BY <1>1, <2>1 DEF BnInv, CallKnows, EntryPcs, Numbered
    <2>4. (\A s \in bnStops' : s.task \in Int) /\ \A s \in bnStops' : s.task <= 0
      <3>1. CASE bnStops' = bnStops
        BY <1>1, <2>3, <3>1 DEF BnTypeOK, Numbered
      <3>2. CASE bnStops' = {[task |-> 0, attempt |-> 1, close |-> FALSE]}
        BY <3>2
      <3> QED BY <2>1, <3>1, <3>2
    <2>5. bnCall'.pc = "entry_tp" /\ bnSize > 0 => bnStops' # {}
      <3>1. reply = "ok" /\ bnSize > 0 => bnStops' = {[task |-> 0, attempt |-> 1, close |-> FALSE]}
        BY <2>1
      <3> QED BY <2>2, <3>1
    <2>6. BnTypeOK'
      BY <1>1, <2>1, <2>2, <2>4 DEF BnTypeOK
    <2>7. Numbered(bnStops', bnUsed', bnTask') /\ Covered(bnSize', bnStops', bnUsed', bnTask')
      BY <1>1, <2>1, <2>3, <2>4 DEF Numbered, Covered, Attempted
    <2>8. CallKnows(bnCall', bnTold', bnSize', bnStops', bnTps', bnUsed', bnTask')
      BY <2>1, <2>2, <2>3, <2>5 DEF CallKnows, BnPcs, EntryPcs, ReplacePcs
    <2> QED BY <2>6, <2>7, <2>8 DEF BnInv
  <1>4. CASE BnEntryTp(reply)
    <2>1. /\ bnCall.pc = "entry_tp" /\ UNCHANGED <<bnSize, bnStops, bnUsed, bnTask>>
          /\ Tell("entered") \/ (Go("rb_cancel") /\ UNCHANGED bnTold)
      BY <1>4 DEF BnEntryTp, At
    <2>2. /\ CallShape(bnCall') /\ bnCall'.old.task \in Int
          /\ \/ bnCall'.pc = "idle" /\ bnTold' = "entered"
             \/ bnCall'.pc = "rb_cancel" /\ bnTold' = bnTold
      BY <1>1, <2>1, Told, Gone
    <2>3. bnTask = 0 /\ bnTold = "waiting" /\ (bnSize > 0 => bnStops # {})
      BY <2>1 DEF BnInv, CallKnows, EntryPcs
    <2>4. BnTypeOK' /\ Numbered(bnStops', bnUsed', bnTask') /\ Covered(bnSize', bnStops', bnUsed', bnTask')
      BY <2>1, <2>2 DEF BnInv, BnTypeOK
    <2>5. CallKnows(bnCall', bnTold', bnSize', bnStops', bnTps', bnUsed', bnTask')
      BY <2>1, <2>2, <2>3 DEF CallKnows, BnPcs, EntryPcs, ReplacePcs
    <2> QED BY <2>4, <2>5 DEF BnInv
  <1>5. CASE BnRollbackCancel(reply)
    <2>1. /\ bnCall.pc = "rb_cancel" /\ UNCHANGED <<bnSize, bnTps, bnUsed, bnTask, bnTold>>
          /\ bnStops' = {} \/ bnStops' = bnStops
          /\ Go("rb_close")
      BY <1>5 DEF BnRollbackCancel, At
    <2>2. CallShape(bnCall') /\ bnCall'.old.task \in Int /\ bnCall'.pc = "rb_close"
      BY <1>1, <2>1, Gone
    <2>3. bnTask = 0 /\ bnUsed = {} /\ bnTold = "waiting"
      BY <1>1, <2>1 DEF BnInv, CallKnows, EntryPcs, Numbered
    <2>4. BnTypeOK' /\ Numbered(bnStops', bnUsed', bnTask') /\ Covered(bnSize', bnStops', bnUsed', bnTask')
      BY <1>1, <2>1, <2>2, <2>3 DEF BnTypeOK, Numbered, Covered, Attempted
    <2>5. CallKnows(bnCall', bnTold', bnSize', bnStops', bnTps', bnUsed', bnTask')
      BY <2>1, <2>2, <2>3 DEF CallKnows, BnPcs, EntryPcs, ReplacePcs
    <2> QED BY <2>4, <2>5 DEF BnInv
  <1> QED BY <1>2, <1>3, <1>4, <1>5

\* A new replacement, of a stop or of the take profit: its number is fresh.
LEMMA BeginsBn ==
    ASSUME BnInv,
           \/ \E close, fits \in BOOLEAN, old \in bnStops \cup {NoStop, DeadStop} :
                  BnReplace(close, old, fits)
           \/ BnReplaceTp
    PROVE  BnInv'
  <1>1. BnTypeOK /\ Numbered(bnStops, bnUsed, bnTask)
    BY DEF BnInv
  <1>2. /\ bnTask' = bnTask + 1 /\ bnTold' = "waiting"
        /\ UNCHANGED <<bnSize, bnStops, bnTps, bnUsed>>
    BY DEF BnReplace, BnReplaceTp
  <1>3. /\ CallShape(bnCall') /\ bnCall'.old.task \in Int
        /\ \/ bnCall'.pc \in {"cancel_first", "place"} /\ bnCall'.old.task <= bnTask
           \/ bnCall'.pc = "tp_delete"
    <2>1. ASSUME NEW close \in BOOLEAN, NEW fits \in BOOLEAN, NEW old \in bnStops \cup {NoStop, DeadStop},
                 BnReplace(close, old, fits)
          PROVE  /\ CallShape(bnCall') /\ bnCall'.old.task \in Int
                 /\ bnCall'.pc \in {"cancel_first", "place"} /\ bnCall'.old.task <= bnTask
      <3>1. bnCall' = [pc |-> IF close /\ old # NoStop THEN "cancel_first" ELSE "place",
                       close |-> close, old |-> old, attempt |-> 1, resolved |-> FALSE, fits |-> fits]
        BY <2>1 DEF BnReplace
      <3>2. CallShape(bnCall') /\ bnCall'.old = old /\ bnCall'.pc \in {"cancel_first", "place"}
        BY <3>1 DEF CallShape
      <3>3. old.task \in Int /\ old.task <= bnTask
        <4>1. CASE old \in bnStops
          BY <1>1, <4>1 DEF BnTypeOK, Numbered
        <4>2. CASE old \in {NoStop, DeadStop}
          BY <1>1, <4>2, NoStopOK DEF BnTypeOK
        <4> QED BY <4>1, <4>2
      <3> QED BY <3>2, <3>3
    <2>2. CASE BnReplaceTp
      BY <2>2, IdleOK, NoStopOK DEF BnReplaceTp
    <2> QED BY <2>1, <2>2
  <1>4. BnTypeOK'
    BY <1>1, <1>2, <1>3 DEF BnTypeOK
  <1>5. bnTask \in Nat /\ bnTask' = bnTask + 1 /\ \A s \in bnStops : s.task \in Int
    BY <1>1, <1>2 DEF BnTypeOK
  <1>6. Numbered(bnStops', bnUsed', bnTask')
    BY <1>1, <1>2, <1>5 DEF Numbered, BnTypeOK
  <1>7. ~Attempted(bnUsed', bnTask')
    BY <1>1, <1>2, <1>5 DEF Numbered, BnTypeOK, Attempted
  <1>8. Covered(bnSize', bnStops', bnUsed', bnTask')
    BY <1>7 DEF Covered
  <1>9. CallKnows(bnCall', bnTold', bnSize', bnStops', bnTps', bnUsed', bnTask')
    <2>1. bnCall'.pc \in ReplacePcs => bnTask' # 0 /\ bnCall'.old.task # bnTask'
      BY <1>3, <1>5 DEF ReplacePcs
    <2>2. bnCall'.pc \in {"cancel_first", "place", "tp_delete"}
      BY <1>3
    <2> QED BY <1>2, <2>1, <2>2 DEF CallKnows, BnPcs, EntryPcs, ReplacePcs
  <1> QED BY <1>4, <1>6, <1>8, <1>9 DEF BnInv

\* A stop other than this task's is cancelled, at the beginning, after a conflict
\* or at the end.
LEMMA Cancels ==
    ASSUME BnInv, UNCHANGED <<bnSize, bnTps, bnUsed, bnTask>>, bnCall.pc \in ReplacePcs,
           bnStops' = bnStops \/ bnStops' = bnStops \ {bnCall.old},
           CallShape(bnCall'), bnCall'.old.task \in Int,
           \/ /\ bnTold' = bnTold /\ bnCall'.old = bnCall.old
              /\ bnCall'.pc \in ReplacePcs \ {"cancel_last"}
           \/ bnCall'.pc = "idle" /\ bnTold' = "unanswered"
           \/ bnCall'.pc = "idle" /\ bnTold' = "replaced" /\ Attempted(bnUsed, bnTask)
    PROVE  BnInv'
  <1>1. /\ BnTypeOK /\ Numbered(bnStops, bnUsed, bnTask) /\ bnTold = "waiting"
        /\ bnTask # 0 /\ bnCall.old.task # bnTask
    BY DEF BnInv, CallKnows, ReplacePcs
  <1>2. bnStops' \subseteq bnStops /\ \A s \in bnStops : s.task = bnTask => s \in bnStops'
    BY <1>1
  <1>3. BnTypeOK' /\ Numbered(bnStops', bnUsed', bnTask')
    BY <1>1, <1>2 DEF BnTypeOK, Numbered
  <1>4. Covered(bnSize', bnStops', bnUsed', bnTask')
    BY <1>2 DEF BnInv, Covered
  <1>5. CallKnows(bnCall', bnTold', bnSize', bnStops', bnTps', bnUsed', bnTask')
    BY <1>1 DEF CallKnows, BnPcs, EntryPcs, ReplacePcs
  <1> QED BY <1>3, <1>4, <1>5 DEF BnInv

\* A step that leaves the orders alone and only moves the call on.
LEMMA MovesOn ==
    ASSUME BnInv, UNCHANGED <<bnSize, bnStops, bnTps, bnUsed, bnTask>>, bnCall.pc \in ReplacePcs,
           CallShape(bnCall'), bnCall'.old.task \in Int,
           \/ /\ bnTold' = bnTold /\ bnCall'.old = bnCall.old /\ bnCall'.pc \in ReplacePcs
              /\ bnCall'.pc = "cancel_last" => Attempted(bnUsed, bnTask)
           \/ /\ bnCall'.pc = "idle"
              /\ bnTold' \in {"unanswered", "skipped_immediate", "critical"}
           \/ bnCall'.pc = "idle" /\ bnTold' = "replaced" /\ Attempted(bnUsed, bnTask)
           \/ bnCall'.pc = "idle" /\ bnTold' = "skipped_flat" /\ bnSize = 0
    PROVE  BnInv'
  <1>1. bnTold = "waiting" /\ bnTask # 0 /\ bnCall.old.task # bnTask
    BY DEF BnInv, CallKnows, ReplacePcs
  <1>2. BnTypeOK' /\ Numbered(bnStops', bnUsed', bnTask') /\ Covered(bnSize', bnStops', bnUsed', bnTask')
    BY DEF BnInv, BnTypeOK
  <1>3. CallKnows(bnCall', bnTold', bnSize', bnStops', bnTps', bnUsed', bnTask')
    BY <1>1 DEF CallKnows, BnPcs, EntryPcs, ReplacePcs
  <1> QED BY <1>2, <1>3 DEF BnInv

\* A stop of this task is at the venue, under an id of the task.
LEMMA Places ==
    ASSUME BnInv, UNCHANGED <<bnSize, bnTps, bnTask>>, bnCall.pc \in ReplacePcs,
           NEW s, s.task = bnTask,
           NEW k, bnUsed' = bnUsed \cup {<<bnTask, k>>}, bnStops' = bnStops \cup {s}, bnTask # 0,
           CallShape(bnCall'), bnCall'.old.task \in Int,
           \/ bnTold' = bnTold /\ bnCall'.old = bnCall.old /\ bnCall'.pc \in ReplacePcs
           \/ bnCall'.pc = "idle" /\ bnTold' \in {"unanswered", "replaced"}
    PROVE  BnInv'
  <1>1. /\ BnTypeOK /\ Numbered(bnStops, bnUsed, bnTask) /\ bnTold = "waiting"
        /\ bnTask # 0 /\ bnCall.old.task # bnTask
    BY DEF BnInv, CallKnows, ReplacePcs
  <1>2. <<bnTask, k>>[1] = bnTask /\ bnTask \in Nat
    BY <1>1 DEF BnTypeOK
  <1>3. BnTypeOK'
    BY <1>1, <1>2 DEF BnTypeOK
  <1>4. Attempted(bnUsed', bnTask') /\ Covered(bnSize', bnStops', bnUsed', bnTask')
    BY <1>2 DEF Attempted, Covered
  <1>5. Numbered(bnStops', bnUsed', bnTask')
    BY <1>1, <1>2 DEF Numbered
  <1>6. CallKnows(bnCall', bnTold', bnSize', bnStops', bnTps', bnUsed', bnTask')
    BY <1>1, <1>4 DEF CallKnows, BnPcs, EntryPcs, ReplacePcs
  <1> QED BY <1>3, <1>4, <1>5, <1>6 DEF BnInv

LEMMA CancelBn ==
    ASSUME BnInv, NEW reply \in Replies,
           BnCancelFirst(reply) \/ BnConflict(reply) \/ BnCancelLast(reply)
    PROVE  BnInv'
  <1>1. BnTypeOK
    BY DEF BnInv
  <1>2. CASE BnCancelFirst(reply)
    <2>1. /\ bnCall.pc = "cancel_first" /\ UNCHANGED <<bnSize, bnTps, bnUsed, bnTask>>
          /\ bnStops' = bnStops \/ bnStops' = bnStops \ {bnCall.old}
          /\ \/ Tell("unanswered")
             \/ /\ bnCall' = [bnCall EXCEPT !.pc = "place", !.resolved = (reply = "ok")]
                /\ UNCHANGED bnTold
      BY <1>2 DEF BnCancelFirst, At
    <2>2. /\ CallShape(bnCall') /\ bnCall'.old.task \in Int
          /\ \/ bnCall'.pc = "idle" /\ bnTold' = "unanswered"
             \/ bnCall'.pc = "place" /\ bnTold' = bnTold /\ bnCall'.old = bnCall.old
      <3>1. CASE Tell("unanswered")
        BY <3>1, Told
      <3>2. CASE /\ bnCall' = [bnCall EXCEPT !.pc = "place", !.resolved = (reply = "ok")]
                 /\ UNCHANGED bnTold
        BY <1>1, <3>2 DEF BnTypeOK, CallShape
      <3> QED BY <2>1, <3>1, <3>2
    <2> QED BY <2>1, <2>2, Cancels DEF ReplacePcs
  <1>3. CASE BnConflict(reply)
    <2>1. /\ bnCall.pc = "conflict" /\ UNCHANGED <<bnSize, bnTps, bnUsed, bnTask, bnTold>>
          /\ bnStops' = bnStops \/ bnStops' = bnStops \ {bnCall.old}
          /\ \/ bnCall' = [bnCall EXCEPT !.resolved = TRUE, !.attempt = @ + 1,
                             !.pc = IF bnCall.attempt = BnAttempts THEN "exhausted" ELSE "place"]
             \/ Go("exhausted")
             \/ NextAttempt
      BY <1>3 DEF BnConflict, At
    <2>2. /\ CallShape(bnCall') /\ bnCall'.old.task \in Int
          /\ bnCall'.pc \in {"place", "exhausted"} /\ bnCall'.old = bnCall.old
      <3>1. CASE bnCall' = [bnCall EXCEPT !.resolved = TRUE, !.attempt = @ + 1,
                              !.pc = IF bnCall.attempt = BnAttempts THEN "exhausted" ELSE "place"]
        BY <1>1, <3>1 DEF BnTypeOK, CallShape
      <3> QED BY <1>1, <2>1, <3>1, Gone, Tried
    <2> QED BY <2>1, <2>2, Cancels DEF ReplacePcs
  <1>4. CASE BnCancelLast(reply)
    <2>1. /\ bnCall.pc = "cancel_last" /\ UNCHANGED <<bnSize, bnTps, bnUsed, bnTask>>
          /\ bnStops' = bnStops \/ bnStops' = bnStops \ {bnCall.old}
          /\ Tell("unanswered") \/ Tell("replaced")
      BY <1>4 DEF BnCancelLast, At
    <2>2. Attempted(bnUsed, bnTask)
      BY <2>1 DEF BnInv, CallKnows
    <2>3. /\ CallShape(bnCall') /\ bnCall'.old.task \in Int
          /\ bnCall'.pc = "idle" /\ bnTold' \in {"unanswered", "replaced"}
      BY <2>1, Told
    <2> QED BY <2>1, <2>2, <2>3, Cancels DEF ReplacePcs
  <1> QED BY <1>2, <1>3, <1>4

LEMMA PlaceBn ==
    ASSUME BnInv, NEW reply \in Replies, BnPlace(reply)
    PROVE  BnInv'
  <1>1. BnTypeOK /\ Numbered(bnStops, bnUsed, bnTask) /\ bnCall.pc = "place"
    BY DEF BnInv, BnPlace, At
  <1>2. UNCHANGED <<bnSize, bnTps, bnTask>>
    BY DEF BnPlace
  <1>3. \/ Tell("unanswered")
        \/ reply = "ok" /\ Go("cancel_last") /\ UNCHANGED bnTold
        \/ reply = "ok" /\ Tell("replaced")
        \/ NextAttempt /\ UNCHANGED bnTold
    BY DEF BnPlace
  <1>4. /\ CallShape(bnCall') /\ bnCall'.old.task \in Int
        /\ \/ bnCall'.pc = "idle" /\ bnTold' = "unanswered"
           \/ /\ reply = "ok" /\ bnCall'.pc = "cancel_last" /\ bnTold' = bnTold
              /\ bnCall'.old = bnCall.old
           \/ reply = "ok" /\ bnCall'.pc = "idle" /\ bnTold' = "replaced"
           \/ /\ bnCall'.pc \in {"exhausted", "place"} /\ bnTold' = bnTold
              /\ bnCall'.old = bnCall.old
    BY <1>1, <1>3, Told, Gone, Tried
  <1>5. CASE BnDone(reply)
    <2>1. /\ bnStops' = bnStops \cup {[task |-> bnTask, attempt |-> bnCall.attempt,
                                       close |-> bnCall.close]}
          /\ bnUsed' = bnUsed \cup {<<bnTask, IF bnCall.fits THEN bnCall.attempt ELSE 1>>}
      BY <1>5 DEF BnPlace, Mine
    <2>2. bnTask # 0
      BY <1>1 DEF BnInv, CallKnows, ReplacePcs
    <2> DEFINE s == [task |-> bnTask, attempt |-> bnCall.attempt, close |-> bnCall.close]
    <2>3. s.task = bnTask
      OBVIOUS
    <2> HIDE DEF s
    <2> QED BY <1>1, <1>2, <1>4, <2>1, <2>2, <2>3, Places DEF ReplacePcs, s
  <1>6. CASE ~BnDone(reply)
    <2>1. UNCHANGED <<bnStops, bnUsed>> /\ reply # "ok"
      BY <1>6 DEF BnPlace, BnDone
    <2> QED BY <1>1, <1>2, <1>4, <2>1, MovesOn DEF ReplacePcs
  <1> QED BY <1>5, <1>6

LEMMA AnswersBn ==
    ASSUME BnInv,
           \/ \E code \in {"duplicate", "conflict", "reduce_only", "immediate"} : BnPlaceRejected(code)
           \/ \E yes \in BOOLEAN : BnLookup(yes) \/ BnClassify(yes) \/ BnExhausted(yes)
    PROVE  BnInv'
  <1>1. BnTypeOK
    BY DEF BnInv
  <1>2. ASSUME NEW code \in {"duplicate", "conflict", "reduce_only", "immediate"},
               BnPlaceRejected(code)
        PROVE  BnInv'
    <2>1. /\ bnCall.pc = "place" /\ UNCHANGED <<bnSize, bnStops, bnTps, bnUsed, bnTask>>
          /\ \/ Tell("skipped_immediate")
             \/ UNCHANGED bnTold /\ \E label \in {"lookup", "conflict", "lookup_ro"} : Go(label)
      BY <1>2 DEF BnPlaceRejected, At
    <2>2. /\ CallShape(bnCall') /\ bnCall'.old.task \in Int
          /\ \/ bnCall'.pc = "idle" /\ bnTold' = "skipped_immediate"
             \/ /\ bnCall'.pc \in {"lookup", "conflict", "lookup_ro"} /\ bnTold' = bnTold
                /\ bnCall'.old = bnCall.old
      BY <1>1, <2>1, Told, Gone
    <2> QED BY <2>1, <2>2, MovesOn DEF ReplacePcs
  <1>3. ASSUME NEW found \in BOOLEAN, BnLookup(found) PROVE BnInv'
    <2>1. /\ bnCall.pc \in {"lookup", "lookup_ro"}
          /\ UNCHANGED <<bnSize, bnStops, bnTps, bnUsed, bnTask>>
          /\ \/ found /\ Go("cancel_last") /\ UNCHANGED bnTold
             \/ found /\ Tell("replaced")
             \/ Go("classify") /\ UNCHANGED bnTold
             \/ NextAttempt /\ UNCHANGED bnTold
      BY <1>3 DEF BnLookup, At
    <2>2. found => Attempted(bnUsed, bnTask)
      <3>1. ASSUME found PROVE Mine \in bnUsed
        BY <1>3, <3>1 DEF BnLookup
      <3>2. Mine[1] = bnTask
        BY DEF Mine
      <3> QED BY <3>1, <3>2 DEF Attempted
    <2>3. /\ CallShape(bnCall') /\ bnCall'.old.task \in Int
          /\ \/ found /\ bnCall'.pc = "cancel_last" /\ bnTold' = bnTold /\ bnCall'.old = bnCall.old
             \/ found /\ bnCall'.pc = "idle" /\ bnTold' = "replaced"
             \/ /\ bnCall'.pc \in {"classify", "exhausted", "place"} /\ bnTold' = bnTold
                /\ bnCall'.old = bnCall.old
      BY <1>1, <2>1, Told, Gone, Tried
    <2> QED BY <2>1, <2>2, <2>3, MovesOn DEF ReplacePcs
  <1>4. ASSUME NEW read \in BOOLEAN, BnClassify(read) \/ BnExhausted(read) PROVE BnInv'
    <2>1. /\ bnCall.pc \in {"classify", "exhausted"}
          /\ UNCHANGED <<bnSize, bnStops, bnTps, bnUsed, bnTask>>
          /\ \/ bnSize = 0 /\ Tell("skipped_flat")
             \/ Tell("critical")
             \/ NextAttempt /\ UNCHANGED bnTold
      BY <1>4 DEF BnClassify, BnExhausted, ReadFlat, At
    <2>2. /\ CallShape(bnCall') /\ bnCall'.old.task \in Int
          /\ \/ bnSize = 0 /\ bnCall'.pc = "idle" /\ bnTold' = "skipped_flat"
             \/ bnCall'.pc = "idle" /\ bnTold' = "critical"
             \/ /\ bnCall'.pc \in {"exhausted", "place"} /\ bnTold' = bnTold
                /\ bnCall'.old = bnCall.old
      BY <1>1, <2>1, Told, Tried
    <2> QED BY <2>1, <2>2, MovesOn DEF ReplacePcs
  <1> QED BY <1>2, <1>3, <1>4

LEMMA TakeProfitBn ==
    ASSUME BnInv, NEW reply \in Replies, BnTpDelete(reply) \/ BnTpPlace(reply)
    PROVE  BnInv'
  <1>1. /\ bnCall.pc \in {"tp_delete", "tp_place"} /\ UNCHANGED <<bnSize, bnStops, bnUsed, bnTask>>
        /\ \/ bnCall.pc = "tp_delete" /\ bnTps' = {} /\ Go("tp_place") /\ UNCHANGED bnTold
           \/ Tell("tp_raised")
           \/ bnCall.pc = "tp_place" /\ Tell("tp_replaced") /\ bnTps' \subseteq bnTps \cup {bnTask}
    BY DEF BnTpDelete, BnTpPlace, At, BnDone
  <1>2. /\ CallShape(bnCall') /\ bnCall'.old.task \in Int
        /\ \/ bnTps' = {} /\ bnCall'.pc = "tp_place" /\ bnTold' = bnTold
           \/ bnCall'.pc = "idle" /\ bnTold' = "tp_raised"
           \/ /\ bnCall.pc = "tp_place" /\ bnCall'.pc = "idle" /\ bnTold' = "tp_replaced"
              /\ bnTps' \subseteq bnTps \cup {bnTask}
    BY <1>1, Told, Gone DEF BnInv
  <1>3. bnTold = "waiting" /\ (bnCall.pc = "tp_place" => bnTps = {})
    BY <1>1 DEF BnInv, CallKnows
  <1>4. BnTypeOK' /\ Numbered(bnStops', bnUsed', bnTask') /\ Covered(bnSize', bnStops', bnUsed', bnTask')
    BY <1>1, <1>2 DEF BnInv, BnTypeOK
  <1>5. CallKnows(bnCall', bnTold', bnSize', bnStops', bnTps', bnUsed', bnTask')
    BY <1>1, <1>2, <1>3 DEF CallKnows, BnPcs, EntryPcs, ReplacePcs
  <1> QED BY <1>4, <1>5 DEF BnInv

LEMMA StepBinance == BnInv /\ [BnNext]_bnVars => BnInv'
  <1> SUFFICES ASSUME BnInv, [BnNext]_bnVars PROVE BnInv'
    OBVIOUS
  <1>1. CASE UNCHANGED bnVars
    BY <1>1 DEF bnVars, BnInv, BnTypeOK, CallShape
  <1>2. ASSUME NEW reply \in Replies, NEW n \in 0..BnQty, BnEntry(reply, n) PROVE BnInv'
    BY <1>2, EntryBn
  <1>3. ASSUME NEW reply \in Replies,
               BnEntryStop(reply) \/ BnEntryTp(reply) \/ BnRollbackCancel(reply)
        PROVE  BnInv'
    <2>1. 0 \in 0..BnQty
      BY BnAssumption
    <2> QED BY <1>3, <2>1, EntryBn
  <1>4. ASSUME NEW reply \in Replies, BnRollbackClose(reply) \/ BnCloseAll(reply) PROVE BnInv'
    <2>1. TRUE \in BOOLEAN
      OBVIOUS
    <2> QED BY <1>4, <2>1, ClosesBn
  <1>5. ASSUME NEW reply \in Replies, NEW read \in BOOLEAN, BnEmergency(read, reply) PROVE BnInv'
    BY <1>5, ClosesBn
  <1>6. ASSUME NEW reply \in Replies,
               \/ BnCancelFirst(reply) \/ BnPlace(reply) \/ BnConflict(reply)
               \/ BnCancelLast(reply) \/ BnTpDelete(reply) \/ BnTpPlace(reply)
        PROVE  BnInv'
    BY <1>6, CancelBn, PlaceBn, TakeProfitBn
  <1> QED BY <1>1, <1>2, <1>3, <1>4, <1>5, <1>6, VenueActsBn, BeginsBn, AnswersBn DEF BnNext

LEMMA TruthBinance == BnInv => BinanceTellsTheTruth
  <1> SUFFICES ASSUME BnInv PROVE BinanceTellsTheTruth
    OBVIOUS
  <1>1. bnTold = "tp_replaced" => Cardinality(bnTps) <= 1
    <2> SUFFICES ASSUME bnTold = "tp_replaced" PROVE Cardinality(bnTps) <= 1
      OBVIOUS
    <2>1. bnTps = {} \/ bnTps = {bnTask}
      BY DEF BnInv, CallKnows
    <2>2. Cardinality({}) = 0
      BY FS_EmptySet
    <2>3. Cardinality({bnTask}) = 1
      BY FS_Singleton
    <2>4. CASE bnTps = {}
      BY <2>2, <2>4
    <2>5. CASE bnTps = {bnTask}
      BY <2>3, <2>5
    <2> QED BY <2>1, <2>4, <2>5
  <1>2. bnTold = "replaced" /\ bnSize > 0 => \E s \in bnStops : s.task = bnTask
    BY DEF BnInv, CallKnows, Covered
  <1> QED BY <1>1, <1>2 DEF BinanceTellsTheTruth, BnInv, CallKnows

\* What a caller of the Binance adapter concludes from the end of a call is true
\* at the venue, whichever requests were carried out and reported as failed.
THEOREM BinanceTruthful == BnSpec => []BinanceTellsTheTruth
  BY InitBinance, StepBinance, TruthBinance, PTL DEF BnSpec

-----------------------------------------------------------------------------
(* BybitAdapter: what the end of a call tells its caller.                   *)

ByPart == [id : Nat, type : Types, price : Nat]
SaidShape(s) == s = [what |-> s.what, id |-> s.id, price |-> s.price, saw |-> s.saw]

ByTypeOK ==
    /\ bySize \in Nat /\ byCount \in Nat
    /\ byFull \in [Types -> Nat] /\ byParts \subseteq ByPart
    /\ SaidShape(byTold) /\ byTold.id \in Nat

\* Partial orders exist with the position only and are told apart by their ids;
\* while a take profit is being replaced the newest id is not used yet.
PartsOK(size, parts, count, call) ==
    /\ size = 0 => parts = {}
    /\ \A o \in parts : o.id \in 1..count
    /\ \A o, q \in parts : o.id = q.id => o = q
    /\ call.pc \in {"tp_cancel", "tp_place", "tp_full"} => count # 0 /\ \A o \in parts : o.id # count

\* What the call under way has in hand.
ByCallKnows(call, parts) ==
    /\ call.pc = "amend" => /\ call.price \in Nat
                            /\ \A o \in parts : o.id = call.old => o.type = "stop_loss"
    /\ call.pc \in {"tp_cancel", "tp_place", "tp_full"} =>
           /\ call = [pc |-> call.pc, price |-> call.price, old |-> call.old]
           /\ call.price \in Nat
    /\ call.pc = "list" => \A o \in parts : <<o.type, o.price>> \in call.orders

StopAt(p, full, parts) ==
    p = full["stop_loss"] \/ \E o \in parts : o.type = "stop_loss" /\ o.price = p

\* What the caller was told.
ToldTrue(told, ready, size, full, parts, count) ==
    /\ told.id <= count
    /\ told.what \in {"entered", "sl_replaced", "sl_amended"} /\ ready /\ size > 0 =>
           StopAt(told.price, full, parts)
    /\ told.what = "cancelled" => \A o \in parts : o.id # told.id
    /\ told.what = "listed" /\ ready =>
           /\ \A t \in Types : full[t] > 0 => <<t, full[t]>> \in told.saw
           /\ \A o \in parts : <<o.type, o.price>> \in told.saw

\* The inductive invariant.
ByInv ==
    /\ ByTypeOK
    /\ PartsOK(bySize, byParts, byCount, byCall)
    /\ ByCallKnows(byCall, byParts)
    /\ ToldTrue(byTold, byCall.pc = "idle", bySize, byFull, byParts, byCount)

\* Answers that promise nothing, and answers about a stop, an order or the list.
LEMMA SaidOK ==
    ASSUME NEW w
    PROVE  SaidShape(Said(w)) /\ Said(w).what = w /\ Said(w).id = 0
  BY DEF Said, SaidShape

LEMMA SaidPrice ==
    ASSUME NEW w, NEW x, NEW s, s = [Said(w) EXCEPT !.price = x]
    PROVE  SaidShape(s) /\ s.what = w /\ s.id = 0 /\ s.price = x
  BY DEF Said, SaidShape

LEMMA SaidSaw ==
    ASSUME NEW w, NEW x, NEW s, s = [Said(w) EXCEPT !.saw = x]
    PROVE  SaidShape(s) /\ s.what = w /\ s.id = 0 /\ s.saw = x
  BY DEF Said, SaidShape

Promises == {"entered", "sl_replaced", "sl_amended", "cancelled", "listed"}

LEMMA NothingPromised ==
    ASSUME NEW told, told.what \notin Promises, told.id = 0, NEW ready, NEW size, NEW full,
           NEW parts, NEW count \in Nat
    PROVE  ToldTrue(told, ready, size, full, parts, count)
  BY DEF ToldTrue, Promises

LEMMA TellBy ==
    ASSUME NEW said, ByTell(said)
    PROVE  byTold' = said /\ byCall'.pc = "idle"
  BY DEF ByTell, ByIdle

\* Nothing is in hand once a call has ended.
LEMMA IdleBy ==
    ASSUME NEW call, call.pc = "idle", NEW size, NEW parts, NEW count,
           size = 0 => parts = {}, \A o \in parts : o.id \in 1..count,
           \A o, q \in parts : o.id = q.id => o = q
    PROVE  PartsOK(size, parts, count, call) /\ ByCallKnows(call, parts)
  BY DEF PartsOK, ByCallKnows

LEMMA ShrunkBy ==
    ASSUME NEW n \in Nat, ByShrink(n)
    PROVE  /\ bySize' = n
           /\ n = 0 => byParts' = {} /\ byFull' = Bare
           /\ n # 0 => byParts' = byParts /\ byFull' = byFull
  BY DEF ByShrink

LEMMA BareOK == Bare \in [Types -> Nat] /\ \A t \in Types : Bare[t] = 0
  BY DEF Bare

LEMMA InitBybit == ByInit => ByInv
  <1> SUFFICES ASSUME ByInit PROVE ByInv
    OBVIOUS
  <1>1. ByTypeOK
    BY SaidOK, BareOK DEF ByInit, ByTypeOK
  <1>2. PartsOK(bySize, byParts, byCount, byCall) /\ ByCallKnows(byCall, byParts)
    BY DEF ByInit, ByIdle, PartsOK, ByCallKnows
  <1>3. ToldTrue(byTold, byCall.pc = "idle", bySize, byFull, byParts, byCount)
    BY SaidOK, NothingPromised DEF ByInit, Promises
  <1> QED BY <1>1, <1>2, <1>3 DEF ByInv

\* What the venue does on its own takes orders away, and with a stop the answer
\* that spoke of it.
LEMMA VenueActsBy ==
    ASSUME ByInv, ByFullFires \/ \E o \in byParts : ByPartFires(o)
    PROVE  ByInv'
  <1>1. /\ ByTypeOK /\ PartsOK(bySize, byParts, byCount, byCall) /\ ByCallKnows(byCall, byParts)
        /\ ToldTrue(byTold, byCall.pc = "idle", bySize, byFull, byParts, byCount)
    BY DEF ByInv
  <1>2. UNCHANGED <<byCount, byCall>>
    BY DEF ByFullFires, ByPartFires
  <1>3. ASSUME bySize' = 0, byParts' = {}, byFull' = Bare,
               byTold' = byTold \/ byTold' = Said("stop_fired")
        PROVE  ByInv'
    <2>1. ByTypeOK'
      BY <1>1, <1>2, <1>3, SaidOK, BareOK DEF ByTypeOK
    <2>2. PartsOK(bySize', byParts', byCount', byCall') /\ ByCallKnows(byCall', byParts')
      BY <1>1, <1>2, <1>3 DEF PartsOK, ByCallKnows
    <2>3. ToldTrue(byTold', byCall'.pc = "idle", bySize', byFull', byParts', byCount')
      BY <1>1, <1>2, <1>3, SaidOK, BareOK DEF ToldTrue, ByTypeOK
    <2> QED BY <2>1, <2>2, <2>3 DEF ByInv
  <1>4. CASE ByFullFires
    BY <1>3, <1>4, ShrunkBy DEF ByFullFires
  <1>5. ASSUME NEW o \in byParts, ByPartFires(o) PROVE ByInv'
    <2>1. byTold' = IF o.type = "stop_loss" /\ o.price = byTold.price THEN Said("stop_fired") ELSE byTold
      BY <1>5 DEF ByPartFires
    <2>2. bySize # 0
      BY <1>1, <1>5 DEF PartsOK
    <2>3. CASE bySize = 1
      <3>1. ByShrink(0)
        BY <1>5, <2>3 DEF ByPartFires
      <3> QED BY <1>3, <2>1, <3>1, ShrunkBy
    <2>4. CASE bySize # 1
      <3>1. bySize' = bySize - 1 /\ byParts' = byParts \ {o} /\ byFull' = byFull
        BY <1>5, <2>4 DEF ByPartFires
      <3>2. bySize' \in Nat \ {0} /\ byParts' \subseteq byParts
        BY <1>1, <2>2, <2>4, <3>1 DEF ByTypeOK
      <3>3. ByTypeOK'
        BY <1>1, <1>2, <2>1, <3>1, <3>2, SaidOK DEF ByTypeOK
      <3>4. PartsOK(bySize', byParts', byCount', byCall') /\ ByCallKnows(byCall', byParts')
        BY <1>1, <1>2, <3>2 DEF PartsOK, ByCallKnows
      <3>5. CASE byTold' = Said("stop_fired")
        <4>1. ToldTrue(byTold', byCall'.pc = "idle", bySize', byFull', byParts', byCount')
          BY <1>1, <1>2, <3>5, SaidOK, NothingPromised DEF Promises, ByTypeOK
        <4> QED BY <3>3, <3>4, <4>1 DEF ByInv
      <3>6. CASE byTold' = byTold /\ ~(o.type = "stop_loss" /\ o.price = byTold.price)
        <4>1. bySize > 0
          BY <1>1, <2>2 DEF ByTypeOK
        <4>2. StopAt(byTold.price, byFull, byParts) => StopAt(byTold.price, byFull', byParts')
          BY <3>1, <3>6 DEF StopAt
        <4>3. ToldTrue(byTold', byCall'.pc = "idle", bySize', byFull', byParts', byCount')
          BY <1>1, <1>2, <3>1, <3>2, <3>6, <4>1, <4>2 DEF ToldTrue
        <4> QED BY <3>3, <3>4, <4>3 DEF ByInv
      <3> QED BY <2>1, <3>5, <3>6
    <2> QED BY <2>3, <2>4
  <1> QED BY <1>4, <1>5

\* The orders of the next state, typed and told apart.
OrdersOK(size, full, parts, count) ==
    /\ size \in Nat /\ count \in Nat
    /\ full \in [Types -> Nat] /\ parts \subseteq ByPart
    /\ size = 0 => parts = {}
    /\ \A o \in parts : o.id \in 1..count
    /\ \A o, q \in parts : o.id = q.id => o = q

LEMMA NowOK == ByInv => OrdersOK(bySize, byFull, byParts, byCount)
  BY DEF ByInv, ByTypeOK, PartsOK, OrdersOK

\* The call ends with an answer.
LEMMA Ends ==
    ASSUME OrdersOK(bySize', byFull', byParts', byCount'), byCall'.pc = "idle",
           SaidShape(byTold'), byTold'.id \in Nat,
           ToldTrue(byTold', TRUE, bySize', byFull', byParts', byCount')
    PROVE  ByInv'
  <1>1. ByTypeOK'
    BY DEF OrdersOK, ByTypeOK
  <1>2. PartsOK(bySize', byParts', byCount', byCall') /\ ByCallKnows(byCall', byParts')
    BY IdleBy DEF OrdersOK
  <1>3. (byCall'.pc = "idle") = TRUE
    OBVIOUS
  <1> QED BY <1>1, <1>2, <1>3 DEF ByInv

LEMMA EndsQuietly ==
    ASSUME OrdersOK(bySize', byFull', byParts', byCount'),
           NEW w, w \notin Promises, ByTell(Said(w))
    PROVE  ByInv'
  <1>1. byTold' = Said(w) /\ byCall'.pc = "idle"
    BY TellBy
  <1>2. ToldTrue(byTold', TRUE, bySize', byFull', byParts', byCount')
    BY <1>1, SaidOK, NothingPromised DEF OrdersOK
  <1> QED BY <1>1, <1>2, SaidOK, Ends

\* The call goes on: what the last answer said is of orders that are still not
\* back, because ids are not used twice.
LEMMA GoesOn ==
    ASSUME ByInv, OrdersOK(bySize', byFull', byParts', byCount'),
           byTold' = byTold, byCall'.pc # "idle", byCount' >= byCount,
           \A o \in byParts' : o.id > byCount \/ \E q \in byParts : q.id = o.id,
           PartsOK(bySize', byParts', byCount', byCall'), ByCallKnows(byCall', byParts')
    PROVE  ByInv'
  <1>1. ByTypeOK'
    BY DEF OrdersOK, ByTypeOK, ByInv
  <1>2. /\ byTold.id \in Nat /\ byCount \in Nat /\ byCount' \in Nat /\ byTold.id <= byCount
        /\ \A o \in byParts' : o.id \in Nat
        /\ byTold.what = "cancelled" => \A o \in byParts : o.id # byTold.id
    BY DEF ByInv, ByTypeOK, ToldTrue, OrdersOK, ByPart
  <1>3. byTold.what = "cancelled" => \A o \in byParts' : o.id # byTold.id
    BY <1>2
  <1>4. ToldTrue(byTold', byCall'.pc = "idle", bySize', byFull', byParts', byCount')
    BY <1>2, <1>3 DEF ToldTrue
  <1> QED BY <1>1, <1>4 DEF ByInv

LEMMA SetFull ==
    ASSUME NEW full \in [Types -> Nat], NEW t \in Types, NEW p \in Nat
    PROVE  [full EXCEPT ![t] = p] \in [Types -> Nat] /\ [full EXCEPT ![t] = p][t] = p
  OBVIOUS

\* An order under the next id.
LEMMA Added ==
    ASSUME ByInv, bySize > 0, NEW count \in Nat, NEW t \in Types, NEW p \in Nat,
           count \in Nat \ {0}, count >= byCount, \A o \in byParts : o.id # count
    PROVE  LET o == [id |-> count, type |-> t, price |-> p]
           IN  /\ OrdersOK(bySize, byFull, byParts \cup {o}, count)
               /\ o.id = count /\ o.type = t /\ o.price = p
  <1> DEFINE o == [id |-> count, type |-> t, price |-> p]
  <1>1. o \in ByPart /\ o.id = count /\ o.type = t /\ o.price = p
    BY DEF ByPart
  <1>2. OrdersOK(bySize, byFull, byParts, byCount)
    BY NowOK
  <1> HIDE DEF o
  <1>3. \A q \in byParts : q.id \in 1..count
    BY <1>2 DEF OrdersOK
  <1>4. OrdersOK(bySize, byFull, byParts \cup {o}, count)
    BY <1>1, <1>2, <1>3 DEF OrdersOK
  <1> QED BY <1>1, <1>4 DEF o

LEMMA LaterCount ==
    ASSUME ByInv, NEW count \in Nat, count >= byCount
    PROVE  OrdersOK(bySize, byFull, byParts, count)
  BY NowOK DEF OrdersOK

LEMMA FreshBy ==
    ASSUME ByInv, Fresh
    PROVE  /\ byCount' = byCount + 1 /\ byCount' \in Nat \ {0} /\ byCount' >= byCount
           /\ \A o \in byParts : o.id # byCount'
           /\ OrdersOK(bySize, byFull, byParts, byCount')
  <1>1. byCount' = byCount + 1 /\ byCount \in Nat
    BY DEF Fresh, ByInv, ByTypeOK
  <1>2. byCount' \in Nat \ {0} /\ byCount' >= byCount
    BY <1>1
  <1>3. \A o \in byParts : o.id # byCount'
    BY <1>1 DEF ByInv, PartsOK
  <1> QED BY <1>1, <1>2, <1>3, LaterCount

LEMMA EntryBy ==
    ASSUME ByInv, NEW reply \in ByReplies, NEW n \in 0..ByQty, NEW sl \in ByPrices,
           NEW tp \in ByPrices \cup {0}, ByEntry(reply, n, sl, tp)
    PROVE  ByInv'
  <1>1. /\ bySize = 0 /\ byParts' = byParts /\ byParts = {}
        /\ n \in Nat /\ sl \in Nat /\ tp \in Nat /\ byCount' \in Nat
    BY ByAssumption, FreshBy DEF ByEntry, ByInv, PartsOK
  <1>2. \/ /\ bySize' = n
           /\ n # 0 => byFull' = [Bare EXCEPT !["stop_loss"] = sl, !["take_profit"] = tp]
           /\ n = 0 => byFull' = Bare
        \/ bySize' = bySize /\ byFull' = byFull /\ reply # "ok"
    BY DEF ByEntry, ByDone
  <1>3. byFull' \in [Types -> Nat] /\ bySize' \in Nat
    <2>1. [Bare EXCEPT !["stop_loss"] = sl, !["take_profit"] = tp] \in [Types -> Nat]
      BY <1>1, BareOK DEF Types
    <2> QED BY <1>1, <1>2, <2>1, BareOK DEF ByInv, ByTypeOK
  <1>4. OrdersOK(bySize', byFull', byParts', byCount')
    BY <1>1, <1>3 DEF OrdersOK
  <1>5. CASE reply = "ok"
    <2> DEFINE s == [Said("entered") EXCEPT !.price = sl]
    <2>1. ByTell(s)
      BY <1>5 DEF ByEntry
    <2>2. SaidShape(s) /\ s.what = "entered" /\ s.id = 0 /\ s.price = sl
      BY SaidPrice, ZenonT(60)
    <2> HIDE DEF s
    <2>3. byTold' = s /\ byCall'.pc = "idle"
      BY <2>1, TellBy
    <2>4. bySize' > 0 => byFull'["stop_loss"] = sl
      BY <1>1, <1>2, <1>5, BareOK DEF Types
    <2>5. ToldTrue(byTold', TRUE, bySize', byFull', byParts', byCount')
      BY <1>1, <2>2, <2>3, <2>4 DEF ToldTrue, StopAt
    <2> QED BY <1>4, <2>2, <2>3, <2>5, Ends
  <1>6. CASE reply # "ok"
    <2>1. ByTell(Said("raised"))
      BY <1>6 DEF ByEntry
    <2> QED BY <1>4, <2>1, EndsQuietly DEF Promises
  <1> QED BY <1>5, <1>6

\* Calls whose answer says nothing of the orders.
LEMMA QuietBy ==
    ASSUME ByInv, NEW reply \in ByReplies,
           \/ \E t \in Types, p \in ByPrices : ByPlaceFull(t, p, reply)
           \/ \E p \in ByPrices : ByPlaceTp(p, reply)
           \/ \E n \in 1..ByQty : ByClose(n, reply)
           \/ ByTpPlace(reply) \/ ByTpFull(reply) \/ ByClearOrders(reply)
    PROVE  ByInv'
  <1>1. OrdersOK(bySize, byFull, byParts, byCount) /\ byCount \in Nat /\ byFull \in [Types -> Nat]
    BY NowOK DEF OrdersOK
  <1>2. PICK w \in {"placed", "raised", "closed", "tp_replaced", "cleared"} : ByTell(Said(w))
    BY DEF ByPlaceFull, ByPlaceTp, ByClose, ByTpPlace, ByTpFull, ByClearOrders
  <1> SUFFICES OrdersOK(bySize', byFull', byParts', byCount')
    BY <1>2, EndsQuietly DEF Promises
  <1>3. ASSUME NEW t \in Types, NEW p \in ByPrices, ByPlaceFull(t, p, reply)
        PROVE  OrdersOK(bySize', byFull', byParts', byCount')
    <2>1. /\ Fresh /\ UNCHANGED <<bySize, byParts>>
          /\ byFull' = byFull \/ byFull' = [byFull EXCEPT ![t] = p]
      BY <1>3 DEF ByPlaceFull
    <2>2. byFull' \in [Types -> Nat]
      BY <1>1, <2>1, ByAssumption, SetFull
    <2> QED BY <2>1, <2>2, FreshBy DEF OrdersOK
  <1>4. ASSUME NEW p \in ByPrices, ByPlaceTp(p, reply)
        PROVE  OrdersOK(bySize', byFull', byParts', byCount')
    <2>1. /\ bySize > 0 /\ Fresh /\ UNCHANGED <<bySize, byFull>>
          /\ \/ byParts' = byParts
             \/ byParts' = byParts \cup {[id |-> byCount', type |-> "take_profit", price |-> p]}
      BY <1>4 DEF ByPlaceTp
    <2>2. p \in Nat /\ "take_profit" \in Types
      BY ByAssumption DEF Types
    <2> QED BY <2>1, <2>2, FreshBy, Added
  <1>5. ASSUME NEW n \in 1..ByQty, ByClose(n, reply)
        PROVE  OrdersOK(bySize', byFull', byParts', byCount')
    <2>1. /\ n \in 1..bySize /\ UNCHANGED byCount
          /\ ByShrink(bySize - n) \/ UNCHANGED <<bySize, byFull, byParts>>
      BY <1>5 DEF ByClose
    <2>2. bySize - n \in Nat
      BY <1>1, <2>1 DEF OrdersOK
    <2>3. CASE ByShrink(bySize - n)
      BY <1>1, <2>1, <2>2, <2>3, ShrunkBy, BareOK DEF OrdersOK
    <2> QED BY <1>1, <2>1, <2>3
  <1>6. CASE ByTpPlace(reply)
    <2>1. /\ byCall.pc = "tp_place" /\ UNCHANGED <<bySize, byFull, byCount>>
          /\ \/ byParts' = byParts
             \/ /\ bySize # 0
                /\ byParts' = byParts \cup {[id |-> byCount, type |-> "take_profit",
                                             price |-> byCall.price]}
      BY <1>6 DEF ByTpPlace
    <2>2. byCall.price \in Nat /\ "take_profit" \in Types /\ \A o \in byParts : o.id # byCount
      BY <2>1 DEF ByInv, ByCallKnows, PartsOK, Types
    <2>3. byCount \in Nat \ {0}
      BY <1>1, <2>1 DEF ByInv, PartsOK
    <2> QED BY <1>1, <2>1, <2>2, <2>3, Added DEF OrdersOK
  <1>7. CASE ByTpFull(reply)
    <2>1. /\ byCall.pc = "tp_full" /\ UNCHANGED <<bySize, byParts, byCount>>
          /\ byFull' = byFull \/ byFull' = [byFull EXCEPT !["take_profit"] = byCall.price]
      BY <1>7 DEF ByTpFull
    <2>2. byCall.price \in Nat /\ "take_profit" \in Types
      BY <2>1 DEF ByInv, ByCallKnows, Types
    <2>3. byFull' \in [Types -> Nat]
      BY <1>1, <2>1, <2>2, SetFull
    <2> QED BY <1>1, <2>1, <2>3 DEF OrdersOK
  <1>8. CASE ByClearOrders(reply)
    <2>1. UNCHANGED <<bySize, byFull, byCount>> /\ (byParts' = {} \/ byParts' = byParts)
      BY <1>8 DEF ByClearOrders
    <2> QED BY <1>1, <2>1 DEF OrdersOK
  <1> QED BY <1>3, <1>4, <1>5, <1>6, <1>7, <1>8

\* cancel_and_replace_sl and the amendment it falls back on.
LEMMA ReplaceSlBy ==
    ASSUME ByInv, NEW close \in BOOLEAN, NEW p \in ByPrices, NEW reply \in ByReplies,
           NEW old \in 0..byCount, ByReplaceSl(close, p, reply, old)
    PROVE  ByInv'
  <1> DEFINE o == [id |-> byCount', type |-> "stop_loss", price |-> p]
             s == [Said("sl_replaced") EXCEPT !.price = p]
  <1>1. /\ bySize > 0 /\ Fresh /\ bySize' = bySize
        /\ \A q \in byParts : q.id = old => q.type = "stop_loss"
        /\ byFull' = IF close /\ ByDone(reply) THEN [byFull EXCEPT !["stop_loss"] = p] ELSE byFull
        /\ byParts' = IF ~close /\ ByDone(reply) THEN byParts \cup {o} ELSE byParts
    BY DEF ByReplaceSl
  <1>2. /\ byCount' = byCount + 1 /\ byCount \in Nat /\ byCount' >= byCount /\ byCount' \in Nat \ {0}
        /\ \A q \in byParts : q.id # byCount'
        /\ OrdersOK(bySize, byFull, byParts, byCount')
    BY <1>1, FreshBy DEF ByInv, ByTypeOK
  <1>3. p \in Nat /\ "stop_loss" \in Types
    BY ByAssumption DEF Types
  <1>4. OrdersOK(bySize, byFull, byParts \cup {o}, byCount') /\ o.id = byCount'
        /\ o.type = "stop_loss" /\ o.price = p
    BY <1>1, <1>2, <1>3, Added
  <1> HIDE DEF o
  <1>5. byFull' \in [Types -> Nat] /\ (close /\ ByDone(reply) => byFull'["stop_loss"] = p)
    BY <1>1, <1>2, <1>3, SetFull DEF OrdersOK
  <1>6. OrdersOK(bySize', byFull', byParts', byCount')
    BY <1>1, <1>2, <1>4, <1>5 DEF OrdersOK
  <1>7. CASE reply = "ok"
    <2>1. ByTell(s) /\ ByDone(reply)
      <3>1. ~BySilent(reply)
        BY <1>7 DEF BySilent
      <3> QED BY <1>7, <3>1 DEF ByReplaceSl, ByDone
    <2>2. SaidShape(s) /\ s.what = "sl_replaced" /\ s.id = 0 /\ s.price = p
      BY SaidPrice, ZenonT(60)
    <2> HIDE DEF s
    <2>3. byTold' = s /\ byCall'.pc = "idle"
      BY <2>1, TellBy
    <2>4. StopAt(p, byFull', byParts')
      BY <1>1, <1>4, <1>5, <2>1 DEF StopAt
    <2>5. ToldTrue(byTold', TRUE, bySize', byFull', byParts', byCount')
      BY <1>2, <2>2, <2>3, <2>4 DEF ToldTrue
    <2> QED BY <1>6, <2>2, <2>3, <2>5, Ends
  <1>8. CASE BySilent(reply)
    <2>1. reply # "ok"
      BY <1>8 DEF BySilent
    <2>2. ByTell(Said("raised"))
      BY <1>8, <2>1 DEF ByReplaceSl
    <2> QED BY <1>6, <2>2, EndsQuietly DEF Promises
  <1>9. CASE reply # "ok" /\ ~BySilent(reply)
    <2>1. byCall' = [pc |-> "amend", price |-> p, old |-> old] /\ byTold' = byTold
      BY <1>9 DEF ByReplaceSl
    <2>2. byCall'.pc = "amend" /\ byCall'.price = p /\ byCall'.old = old
      BY <2>1
    <2>3. \A q \in byParts' : q.id > byCount \/ \E r \in byParts : r.id = q.id
      BY <1>1, <1>2, <1>4
    <2>4. \A q \in byParts' : q.id = old => q.type = "stop_loss"
      BY <1>1, <1>4
    <2>5. PartsOK(bySize', byParts', byCount', byCall')
      BY <1>6, <2>2 DEF OrdersOK, PartsOK
    <2>6. ByCallKnows(byCall', byParts')
      BY <1>3, <2>2, <2>4 DEF ByCallKnows
    <2> QED BY <1>2, <1>6, <2>1, <2>2, <2>3, <2>5, <2>6, GoesOn
  <1> QED BY <1>7, <1>8, <1>9

LEMMA AmendBy ==
    ASSUME ByInv, NEW reply \in ByReplies, ByAmendSl(reply)
    PROVE  ByInv'
  <1> DEFINE hit == {o \in byParts : o.id = byCall.old}
             s == [Said("sl_amended") EXCEPT !.price = byCall.price]
             moved == (byParts \ hit) \cup {Amended(o) : o \in hit}
  <1>1. /\ byCall.pc = "amend" /\ UNCHANGED <<bySize, byFull, byCount>>
        /\ reply = "ok" => hit # {}
        /\ byParts' = IF ByDone(reply) THEN moved ELSE byParts
        /\ ByTell(IF reply = "ok" THEN s ELSE Said("raised"))
    BY DEF ByAmendSl
  <1>2. OrdersOK(bySize, byFull, byParts, byCount) /\ byCall.price \in Nat
    BY <1>1, NowOK DEF ByInv, ByCallKnows
  <1>3. \A o \in hit : /\ Amended(o) \in ByPart /\ Amended(o).id = o.id
                       /\ Amended(o).type = "stop_loss" /\ Amended(o).price = byCall.price
    <2> SUFFICES ASSUME NEW o \in hit
                 PROVE  /\ Amended(o) \in ByPart /\ Amended(o).id = o.id
                        /\ Amended(o).type = "stop_loss" /\ Amended(o).price = byCall.price
      OBVIOUS
    <2>1. o \in ByPart /\ o.type = "stop_loss"
      BY <1>1, <1>2 DEF OrdersOK, ByInv, ByCallKnows
    <2> QED BY <1>2, <2>1 DEF Amended, ByPart
  <1>4. \A q \in moved : q \in ByPart /\ \E o \in byParts : o.id = q.id /\ (o \in hit => q = Amended(o))
                                                     /\ (o \notin hit => q = o)
    BY <1>2, <1>3 DEF OrdersOK
  <1>5. OrdersOK(bySize, byFull, moved, byCount)
    <2>1. moved \subseteq ByPart /\ \A q \in moved : q.id \in 1..byCount
      BY <1>2, <1>4 DEF OrdersOK
    <2>2. \A q, r \in moved : q.id = r.id => q = r
      <3> SUFFICES ASSUME NEW q \in moved, NEW r \in moved, q.id = r.id PROVE q = r
        OBVIOUS
      <3>1. PICK o \in byParts : /\ o.id = q.id /\ (o \in hit => q = Amended(o))
                                 /\ (o \notin hit => q = o)
        BY <1>4
      <3>2. PICK u \in byParts : /\ u.id = r.id /\ (u \in hit => r = Amended(u))
                                 /\ (u \notin hit => r = u)
        BY <1>4
      <3>3. o = u
        BY <1>2, <3>1, <3>2 DEF OrdersOK
      <3> HIDE DEF moved, hit
      <3> QED BY <3>1, <3>2, <3>3
    <2>3. bySize = 0 => moved = {}
      BY <1>2 DEF OrdersOK
    <2> HIDE DEF moved
    <2> QED BY <1>2, <2>1, <2>2, <2>3 DEF OrdersOK
  <1>6. OrdersOK(bySize', byFull', byParts', byCount')
    BY <1>1, <1>2, <1>5
  <1>7. CASE reply = "ok"
    <2>1. ByTell(s) /\ byParts' = moved /\ hit # {}
      BY <1>1, <1>7 DEF ByDone
    <2>2. SaidShape(s) /\ s.what = "sl_amended" /\ s.id = 0 /\ s.price = byCall.price
      BY DEF Said, SaidShape
    <2>3. \E q \in moved : q.type = "stop_loss" /\ q.price = byCall.price
      BY <1>3, <2>1
    <2> HIDE DEF s, moved, hit
    <2>4. byTold' = s /\ byCall'.pc = "idle"
      BY <2>1, TellBy
    <2>5. StopAt(byCall.price, byFull', byParts')
      BY <2>1, <2>3 DEF StopAt
    <2>6. ToldTrue(byTold', TRUE, bySize', byFull', byParts', byCount')
      BY <1>1, <1>2, <2>2, <2>4, <2>5 DEF ToldTrue, OrdersOK
    <2> QED BY <1>6, <2>2, <2>4, <2>6, Ends
  <1>8. CASE reply # "ok"
    <2>1. ByTell(Said("raised"))
      BY <1>1, <1>8
    <2> QED BY <1>6, <2>1, EndsQuietly DEF Promises
  <1> QED BY <1>7, <1>8

\* cancel_and_replace_tp: two requests, or one for the position itself.
LEMMA ReplaceTpBy ==
    ASSUME ByInv, NEW p \in ByPrices, NEW old \in 0..byCount, NEW known \in BOOLEAN,
           ByReplaceTp(p, old, known)
    PROVE  ByInv'
  <1>1. /\ Fresh /\ UNCHANGED <<bySize, byFull, byParts, byTold>>
        /\ byCall' = [pc |-> IF known THEN "tp_cancel" ELSE "tp_full", price |-> p, old |-> old]
    BY DEF ByReplaceTp
  <1>2. /\ byCount' \in Nat \ {0} /\ byCount' >= byCount /\ \A o \in byParts : o.id # byCount'
        /\ OrdersOK(bySize', byFull', byParts', byCount')
    BY <1>1, FreshBy
  <1>3. /\ byCall'.pc \in {"tp_cancel", "tp_full"} /\ byCall'.price = p
        /\ byCall' = [pc |-> byCall'.pc, price |-> byCall'.price, old |-> byCall'.old]
    BY <1>1
  <1>4. p \in Nat
    BY ByAssumption
  <1>5. PartsOK(bySize', byParts', byCount', byCall')
    BY <1>1, <1>2, <1>3 DEF OrdersOK, PartsOK
  <1>6. ByCallKnows(byCall', byParts')
    BY <1>3, <1>4 DEF ByCallKnows
  <1> QED BY <1>1, <1>2, <1>3, <1>5, <1>6, GoesOn

LEMMA TpCancelBy ==
    ASSUME ByInv, NEW reply \in ByReplies, ByTpCancel(reply)
    PROVE  ByInv'
  <1>1. /\ byCall.pc = "tp_cancel" /\ UNCHANGED <<bySize, byFull, byCount>>
        /\ byParts' \subseteq byParts
    BY DEF ByTpCancel
  <1>2. OrdersOK(bySize, byFull, byParts, byCount) /\ byCount \in Nat
    BY NowOK DEF OrdersOK
  <1>3. OrdersOK(bySize', byFull', byParts', byCount')
    BY <1>1, <1>2 DEF OrdersOK
  <1>4. CASE BySilent(reply)
    <2>1. ByTell(Said("raised"))
      BY <1>4 DEF ByTpCancel
    <2> QED BY <1>3, <2>1, EndsQuietly DEF Promises
  <1>5. CASE ~BySilent(reply)
    <2>1. byTold' = byTold /\ byCall' = [byCall EXCEPT !.pc = "tp_place"]
      BY <1>5 DEF ByTpCancel
    <2>2. byCall = [pc |-> byCall.pc, price |-> byCall.price, old |-> byCall.old] /\ byCall.price \in Nat
      BY <1>1 DEF ByInv, ByCallKnows
    <2>3. byCall' = [pc |-> "tp_place", price |-> byCall.price, old |-> byCall.old]
      BY <2>1, <2>2
    <2>4. byCount # 0 /\ \A o \in byParts : o.id # byCount
      BY <1>1 DEF ByInv, PartsOK
    <2>5. PartsOK(bySize', byParts', byCount', byCall')
      BY <1>1, <1>3, <2>4 DEF OrdersOK, PartsOK
    <2>6. ByCallKnows(byCall', byParts')
      BY <2>2, <2>3 DEF ByCallKnows
    <2>7. byCall'.pc # "idle" /\ byCount' >= byCount
      BY <1>1, <1>2, <2>3
    <2> QED BY <1>1, <1>3, <2>1, <2>5, <2>6, <2>7, GoesOn
  <1> QED BY <1>4, <1>5

\* cancel_conditional_order says cancelled only of an order that is gone.
LEMMA CancelBy ==
    ASSUME ByInv, NEW reply \in ByReplies,
           \/ \E t \in Types : ByCancelFull(t, reply)
           \/ \E o \in byParts : ByCancelPart(o, reply)
    PROVE  ByInv'
  <1>1. OrdersOK(bySize, byFull, byParts, byCount) /\ byCount \in Nat
    BY NowOK DEF OrdersOK
  <1>2. ASSUME NEW t \in Types, ByCancelFull(t, reply) PROVE ByInv'
    <2>1. UNCHANGED <<bySize, byParts, byCount>> /\ (byFull' = byFull \/ byFull' = [byFull EXCEPT ![t] = 0])
      BY <1>2 DEF ByCancelFull
    <2>2. OrdersOK(bySize', byFull', byParts', byCount')
      BY <1>1, <2>1, SetFull DEF OrdersOK
    <2>3. CASE reply = "ok"
      <3>1. ByTell(Said("cancelled"))
        BY <1>2, <2>3 DEF ByCancelFull, BySilent
      <3>2. \A o \in byParts : o.id # 0
        BY <1>1 DEF OrdersOK
      <3>3. byTold' = Said("cancelled") /\ byCall'.pc = "idle"
        BY <3>1, TellBy
      <3>4. ToldTrue(byTold', TRUE, bySize', byFull', byParts', byCount')
        BY <1>1, <2>1, <3>2, <3>3, SaidOK DEF ToldTrue
      <3> QED BY <2>2, <3>3, <3>4, SaidOK, Ends
    <2>4. CASE reply # "ok"
      <3>1. PICK w \in {"raised", "not_cancelled"} : ByTell(Said(w))
        BY <1>2, <2>4 DEF ByCancelFull
      <3> QED BY <2>2, <3>1, EndsQuietly DEF Promises
    <2> QED BY <2>3, <2>4
  <1>3. ASSUME NEW o \in byParts, ByCancelPart(o, reply) PROVE ByInv'
    <2> DEFINE s == [Said("cancelled") EXCEPT !.id = o.id]
    <2>1. UNCHANGED <<bySize, byFull, byCount>> /\ byParts' \subseteq byParts
      BY <1>3 DEF ByCancelPart
    <2>2. OrdersOK(bySize', byFull', byParts', byCount')
      BY <1>1, <2>1 DEF OrdersOK
    <2>3. CASE reply = "ok"
      <3>1. ByTell(s) /\ byParts' = byParts \ {o}
        BY <1>3, <2>3 DEF ByCancelPart, ByDone, BySilent
      <3>2. SaidShape(s) /\ s.what = "cancelled" /\ s.id = o.id
        BY DEF Said, SaidShape
      <3> HIDE DEF s
      <3>3. o.id \in 1..byCount /\ \A q \in byParts' : q.id # o.id
        BY <1>1, <3>1 DEF OrdersOK
      <3>4. byTold' = s /\ byCall'.pc = "idle"
        BY <3>1, TellBy
      <3>5. ToldTrue(byTold', TRUE, bySize', byFull', byParts', byCount')
        BY <1>1, <2>1, <3>2, <3>3, <3>4 DEF ToldTrue
      <3>6. o.id \in Nat
        BY <1>1, <3>3
      <3> QED BY <2>2, <3>2, <3>4, <3>5, <3>6, Ends
    <2>4. CASE reply # "ok"
      <3>1. PICK w \in {"raised", "not_cancelled"} : ByTell(Said(w))
        BY <1>3, <2>4 DEF ByCancelPart
      <3> QED BY <2>2, <3>1, EndsQuietly DEF Promises
    <2> QED BY <2>3, <2>4
  <1> QED BY <1>2, <1>3

LEMMA ClearFullBy ==
    ASSUME ByInv, NEW reply \in ByReplies, ByClearFull(reply)
    PROVE  ByInv'
  <1>1. UNCHANGED <<bySize, byParts, byCount>> /\ (byFull' = Bare \/ byFull' = byFull)
    BY DEF ByClearFull
  <1>2. OrdersOK(bySize, byFull, byParts, byCount) /\ byCount \in Nat
    BY NowOK DEF OrdersOK
  <1>3. OrdersOK(bySize', byFull', byParts', byCount')
    BY <1>1, <1>2, BareOK DEF OrdersOK
  <1>4. CASE BySilent(reply)
    <2>1. ByTell(Said("raised"))
      BY <1>4 DEF ByClearFull
    <2> QED BY <1>3, <2>1, EndsQuietly DEF Promises
  <1>5. CASE ~BySilent(reply)
    <2>1. byTold' = byTold /\ byCall' = [pc |-> "clear_orders"]
      BY <1>5 DEF ByClearFull
    <2>2. byCall'.pc = "clear_orders" /\ byCount' >= byCount
      BY <1>1, <1>2, <2>1
    <2>3. PartsOK(bySize', byParts', byCount', byCall') /\ ByCallKnows(byCall', byParts')
      BY <1>3, <2>2 DEF OrdersOK, PartsOK, ByCallKnows
    <2> QED BY <1>1, <1>3, <2>1, <2>2, <2>3, GoesOn
  <1> QED BY <1>4, <1>5

\* get_open_conditional_orders: what is gone between its two reads is listed
\* still, what there is at the end is listed in any case.
LEMMA ListBy ==
    ASSUME ByInv, ByListOrders \/ ByListPosition
    PROVE  ByInv'
  <1>1. UNCHANGED <<bySize, byFull, byParts, byCount>>
    BY DEF ByListOrders, ByListPosition
  <1>2. OrdersOK(bySize, byFull, byParts, byCount) /\ byCount \in Nat
    BY NowOK DEF OrdersOK
  <1>3. OrdersOK(bySize', byFull', byParts', byCount')
    BY <1>1, <1>2
  <1>4. CASE ByListOrders
    <2>1. byTold' = byTold /\ byCall' = [pc |-> "list", orders |-> {<<o.type, o.price>> : o \in byParts}]
      BY <1>4 DEF ByListOrders
    <2>2. byCall'.pc = "list" /\ byCount' >= byCount
      BY <1>1, <1>2, <2>1
    <2>3. \A o \in byParts' : <<o.type, o.price>> \in byCall'.orders
      BY <1>1, <2>1
    <2>4. PartsOK(bySize', byParts', byCount', byCall')
      BY <1>3, <2>2 DEF OrdersOK, PartsOK
    <2>5. ByCallKnows(byCall', byParts')
      BY <2>2, <2>3 DEF ByCallKnows
    <2> QED BY <1>1, <1>3, <2>1, <2>2, <2>4, <2>5, GoesOn
  <1>5. CASE ByListPosition
    <2> DEFINE x == Listed(byCall.orders, byFull)
               s == [Said("listed") EXCEPT !.saw = x]
    <2>1. byCall.pc = "list" /\ ByTell(s)
      BY <1>5 DEF ByListPosition
    <2>2. /\ \A t \in Types : byFull[t] > 0 => <<t, byFull[t]>> \in x
          /\ \A o \in byParts : <<o.type, o.price>> \in x
      BY <2>1 DEF Listed, ByInv, ByCallKnows
    <2> HIDE DEF x
    <2>3. SaidShape(s) /\ s.what = "listed" /\ s.id = 0 /\ s.saw = x
      BY SaidSaw, ZenonT(60)
    <2> HIDE DEF s
    <2>4. byTold' = s /\ byCall'.pc = "idle"
      BY <2>1, TellBy
    <2>5. ToldTrue(byTold', TRUE, bySize', byFull', byParts', byCount')
      BY <1>1, <1>2, <2>2, <2>3, <2>4 DEF ToldTrue
    <2> QED BY <1>3, <2>3, <2>4, <2>5, Ends
  <1> QED BY <1>4, <1>5

LEMMA StepBybit == ByInv /\ [ByNext]_byVars => ByInv'
  <1> SUFFICES ASSUME ByInv, [ByNext]_byVars PROVE ByInv'
    OBVIOUS
  <1>1. CASE UNCHANGED byVars
    BY <1>1 DEF byVars, ByInv, ByTypeOK, PartsOK, ByCallKnows, ToldTrue, StopAt
  <1>2. CASE ByFullFires \/ \E o \in byParts : ByPartFires(o)
    BY <1>2, VenueActsBy
  <1>3. CASE ByListOrders \/ ByListPosition
    BY <1>3, ListBy
  <1>4. ASSUME NEW reply \in ByReplies,
               \/ \E n \in 0..ByQty, sl \in ByPrices, tp \in ByPrices \cup {0} :
                      ByEntry(reply, n, sl, tp)
               \/ \E t \in Types, p \in ByPrices : ByPlaceFull(t, p, reply)
               \/ \E p \in ByPrices : ByPlaceTp(p, reply)
               \/ \E close \in BOOLEAN, p \in ByPrices, old \in 0..byCount :
                      ByReplaceSl(close, p, reply, old)
               \/ ByAmendSl(reply) \/ ByTpCancel(reply) \/ ByTpPlace(reply) \/ ByTpFull(reply)
               \/ \E t \in Types : ByCancelFull(t, reply)
               \/ \E o \in byParts : ByCancelPart(o, reply)
               \/ ByClearFull(reply) \/ ByClearOrders(reply)
               \/ \E n \in 1..ByQty : ByClose(n, reply)
        PROVE  ByInv'
    BY <1>4, EntryBy, QuietBy, ReplaceSlBy, AmendBy, TpCancelBy, CancelBy, ClearFullBy
  <1>5. CASE \E p \in ByPrices, old \in 0..byCount, known \in BOOLEAN : ByReplaceTp(p, old, known)
    BY <1>5, ReplaceTpBy
  <1> QED BY <1>1, <1>2, <1>3, <1>4, <1>5 DEF ByNext

LEMMA TruthBybit == ByInv => BybitTellsTheTruth
  <1> SUFFICES ASSUME ByInv PROVE BybitTellsTheTruth
    OBVIOUS
  <1>1. ToldTrue(byTold, Ready, bySize, byFull, byParts, byCount)
    BY DEF ByInv, Ready
  <1>2. StopAt(byTold.price, byFull, byParts) => byTold.price \in Stops
    BY DEF StopAt, Stops
  <1> QED BY <1>1, <1>2 DEF ToldTrue, BybitTellsTheTruth

\* What a caller of the Bybit adapter concludes from the end of a call is true at
\* the venue: a stop it was told to be in place is there, in whichever of the two
\* forms, as long as the position is; an order it was told to be cancelled has
\* gone; and a listing it was given holds every stop there is.
THEOREM BybitTruthful == BySpec => []BybitTellsTheTruth
  <1> QED BY InitBybit, StepBybit, TruthBybit, PTL DEF BySpec
=============================================================================
