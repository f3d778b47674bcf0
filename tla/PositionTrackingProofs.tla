----------------------- MODULE PositionTrackingProofs -----------------------
(***************************************************************************)
(* Proofs about PositionTracking: the types, that a take-profit level is   *)
(* subtracted at most once, and that a position with a single take profit  *)
(* is booked as closed only when it is flat on the exchange and settles    *)
(* only with a stop loss.  They hold for every order of delivery, every    *)
(* fault and every bound; the first two for every ladder of levels.  Then, *)
(* for ladders of any length in a calm environment, that the book agrees   *)
(* with the exchange.                                                      *)
(***************************************************************************)
EXTENDS PositionTracking, FiniteSetTheorems, WellFoundedInduction, TLAPS

-----------------------------------------------------------------------------
(* A level is subtracted at most once. *)

\* The inductive invariant: dispatched_sl_levels remembers every level that was
\* ever subtracted.  status does not: a late success callback rewinds it.
AppliedInv == applied = [l \in Levels |-> IF l \in dispatched THEN 1 ELSE 0]

LEMMA InitApplied == Init => AppliedInv
BY DEF Init, AppliedInv

LEMMA EngineBookApplied ==
    ASSUME AppliedInv, NEW l \in Levels, NEW q, NEW by, EngineBook(l, q, by)
    PROVE  AppliedInv'
<1>1. /\ l \notin dispatched
      /\ dispatched' = dispatched \cup {l}
      /\ applied' = [applied EXCEPT ![l] = @ + 1]
  BY DEF EngineBook, Duplicate
<1>2. applied[l] + 1 = 1
  BY <1>1 DEF AppliedInv
<1> QED
  BY <1>1, <1>2 DEF AppliedInv

LEMMA StepApplied == AppliedInv /\ [Next]_vars => AppliedInv'
<1> SUFFICES ASSUME AppliedInv, [Next]_vars PROVE AppliedInv'
  OBVIOUS
<1>1. CASE UNCHANGED <<dispatched, applied>>
  BY <1>1 DEF AppliedInv
<1>2. CASE TpEvent
  <2>1. CASE \E l \in Levels : EngineBook(l, qty, "stream")
    BY <2>1, EngineBookApplied
  <2>2. CASE UNCHANGED <<dispatched, applied>>
    BY <2>2, <1>1
  <2> QED
    BY <1>2, <2>1, <2>2 DEF TpEvent, Matches, Ignore, context
<1>3. CASE ReconcilePartialClose
  <2>1. CASE \E l \in Levels : EngineBook(l, Restored(qty, reconciler), "reconciler")
    BY <2>1, EngineBookApplied
  <2>2. CASE UNCHANGED <<dispatched, applied>>
    BY <2>2, <1>1
  <2> QED
    BY <1>3, <2>1, <2>2 DEF ReconcilePartialClose, ClosestOpenLevel, context
<1>4. CASE FillSl \/ ManualClose \/ StopVanishes \/ \E l \in TpOrders : FillTp(l)
  BY <1>1, <1>4 DEF FillSl, ManualClose, StopVanishes, FillTp, context
<1>5. CASE SuppressOrderUpdate \/ SingleTpEvent \/ SlEvent \/ PositionFlat \/ PositionResized
  BY <1>1, <1>5
     DEF SuppressOrderUpdate, SingleTpEvent, SlEvent, PositionFlat, PositionResized, Ignore, context
<1>6. CASE EngineFinish \/ CancelRemainingOrders
  BY <1>1, <1>6 DEF EngineFinish, CancelRemainingOrders
<1>7. CASE WorkerStep
  BY <1>1, <1>7 DEF WorkerStep, StartTask, ExecuteTask, RunCallback, context
<1>8. CASE LoseStream \/ WarmUp \/ SyncStep \/ Hydrate
  BY <1>1, <1>8
     DEF LoseStream, WarmUp, SyncStep, Reconnect, SyncRead, SyncApply, SyncOrders, GiveUp,
         Hydrate, context
<1>9. CASE UNCHANGED vars
  BY <1>1, <1>9 DEF vars, context
<1> QED
  BY <1>2, <1>3, <1>4, <1>5, <1>6, <1>7, <1>8, <1>9 DEF Next, StreamStep

\* However often and in whatever order a take profit is reported, echoed,
\* inferred or confirmed, its close quantity is subtracted at most once.
THEOREM LevelsAppliedOnce == Spec => []LevelAppliedOnce
<1>1. AppliedInv => LevelAppliedOnce
  BY DEF AppliedInv, LevelAppliedOnce
<1> QED
  BY <1>1, InitApplied, StepApplied, PTL DEF Spec

-----------------------------------------------------------------------------
(* Types of the pure operators. *)

LEMMA TransitionTyped ==
    ASSUME NEW m \in Machine, NEW t, CanTransition(m, t)
    PROVE  Transition(m, t) \in Machine
<1> DEFINE target == CHOOSE s \in PositionStates : <<m.state, t, s>> \in VALID_TRANSITIONS
<1>1. target \in PositionStates
  BY DEF CanTransition
<1>2. m.state \in PositionStates /\ m.saved \in PositionStates \cup {NoSavedState}
  BY DEF Machine
<1>3. CASE target = "reconnecting"
  <2>1. Transition(m, t) = [state |-> target, saved |-> m.state]
    BY <1>3 DEF Transition
  <2> QED
    BY <1>1, <1>2, <2>1 DEF Machine
<1>4. CASE target # "reconnecting" /\ t = "sync_complete" /\ m.saved # NoSavedState
  <2>1. Transition(m, t) = [state |-> m.saved, saved |-> NoSavedState]
    BY <1>4 DEF Transition
  <2> QED
    BY <1>2, <1>4, <2>1 DEF Machine
<1>5. CASE target # "reconnecting" /\ ~(t = "sync_complete" /\ m.saved # NoSavedState)
  <2>1. Transition(m, t) = [m EXCEPT !.state = target]
    BY <1>5 DEF Transition
  <2> QED
    BY <1>1, <1>2, <2>1 DEF Machine
<1> QED
  BY <1>3, <1>4, <1>5

LEMMA TryTyped == ASSUME NEW m \in Machine, NEW t PROVE TryTransition(m, t) \in Machine
BY TransitionTyped DEF TryTransition

LEMMA MovedTyped ==
    ASSUME NEW m \in Machine, NEW s \in PositionStates
    PROVE  [m EXCEPT !.state = s] \in Machine
BY DEF Machine

LEMMA SyncedTyped == ASSUME NEW m \in Machine, NEW s PROVE Synced(m, s) \in Machine
BY TransitionTyped, MovedTyped DEF Synced, ForcedTransition, PositionStates

LEMMA AllClosedTyped == ASSUME NEW m \in Machine PROVE AllClosed(m) \in Machine
BY TransitionTyped, TryTyped DEF AllClosed

LEMMA PartialCloseTyped == ASSUME NEW m \in Machine PROVE PartialClose(m) \in Machine
BY TransitionTyped, TryTyped DEF PartialClose

LEMMA SyncCompletedTyped ==
    ASSUME NEW m \in Machine
    PROVE  SyncCompleted(m) \in Machine
<1>1. <<"reconnecting", "sync_complete", "open">> \in VALID_TRANSITIONS
  BY DEF VALID_TRANSITIONS, From
<1>2. m.state = "reconnecting" => CanTransition(m, "sync_complete")
  BY <1>1 DEF CanTransition, PositionStates
<1> QED
  BY <1>2, TransitionTyped DEF SyncCompleted

-----------------------------------------------------------------------------
(* Type correctness, part by part. *)

LEMMA PartsKept ==
    /\ ExchangeOK /\ UNCHANGED exchange => ExchangeOK'
    /\ LinkOK /\ UNCHANGED link => LinkOK'
    /\ ContextOK /\ UNCHANGED context => ContextOK'
    /\ TaskOK /\ UNCHANGED <<handler, reconciler, sync>> => TaskOK'
    /\ QueueOK /\ UNCHANGED queue => QueueOK'
    /\ EnvOK /\ UNCHANGED <<env, applied>> => EnvOK'
BY DEF ExchangeOK, exchange, LinkOK, link, ContextOK, context, TaskOK, QueueOK, queue, EnvOK, env

Handlers == [at : {"idle", "engine", "cleanup"}, level : Levels \cup {0},
             shift : BOOLEAN, by : {"stream", "reconciler"}]

LEMMA IdleTyped == Idle \in Handlers /\ Cleanup \in Handlers
BY DEF Idle, Cleanup, Handlers

LEMMA NumbersTyped ==
    /\ 0 \in 0 .. Original /\ Original \in 0 .. Original /\ Original \in Nat
    /\ 0 \in 0 .. MaxLosses /\ 0 \in 0 .. MaxManual
    /\ N \in Nat /\ Levels \subseteq Nat /\ TpOrders \subseteq Nat
    /\ \A l \in Levels : Close[l] \in Nat
<1>1. Close \in Seq(Nat \ {0})
  BY TrackingAssumption
<1>2. N \in Nat /\ \A l \in Levels : Close[l] \in Nat
  BY <1>1 DEF N, Levels
<1> QED
  BY <1>2, TrackingAssumption DEF Levels, TpOrders

LEMMA InitTyped == Init => TypeOK
<1> SUFFICES ASSUME Init PROVE TypeOK
  OBVIOUS
<1>1. ExchangeOK /\ EnvOK
  BY NumbersTyped DEF Init, ExchangeOK, EnvOK
<1>2. LinkOK
  BY DEF Init, LinkOK
<1>3. ContextOK
  BY NumbersTyped DEF Init, ContextOK, Machine, PositionStates, NoSavedState
<1>4. TaskOK
  BY IdleTyped, NumbersTyped DEF Init, TaskOK, NoSync, Handlers
<1>5. QueueOK
  BY DEF Init, QueueOK, TaskSet, StopKinds
<1> QED
  BY <1>1, <1>2, <1>3, <1>4, <1>5 DEF TypeOK

\* The exchange's messages.
LEMMA EventsTyped ==
    /\ \A l \in Nat, a \in BOOLEAN : OrderEvent("tp", l, a) \in Message
    /\ \A l \in Nat, a \in BOOLEAN : OrderEvent("sl", l, a) \in Message
    /\ \A s \in Nat : PositionEvent(s) \in Message
BY DEF OrderEvent, PositionEvent, Message

LEMMA FillEventsTyped ==
    ASSUME NEW type \in {"tp", "sl"}, NEW l \in Nat, NEW s \in Nat,
           NEW m \in FillEvents(type, l, s)
    PROVE  m \in Seq(Message)
<1>1. PICK d \in Deliveries, a \in Addressed :
        m = [i \in DOMAIN d |-> IF d[i] = "o" THEN OrderEvent(type, l, a) ELSE PositionEvent(s)]
  BY DEF FillEvents
<1>2. d \in Seq({"o", "p"}) /\ a \in BOOLEAN
  BY TrackingAssumption
<1>3. OrderEvent(type, l, a) \in Message /\ PositionEvent(s) \in Message
  BY <1>2, EventsTyped
<1>4. DOMAIN d = 1 .. Len(d) /\ Len(d) \in Nat
  BY <1>2
<1>5. m \in [1 .. Len(d) -> Message]
  BY <1>1, <1>3, <1>4
<1> QED
  BY <1>4, <1>5

LEMMA EmitTyped ==
    ASSUME LinkOK, NEW m \in Seq(Message), Emit(m)
    PROVE  LinkOK'
BY DEF LinkOK, Emit

LEMMA FillTpTyped == ASSUME TypeOK, NEW l \in TpOrders, FillTp(l) PROVE TypeOK'
<1>1. size' \in 0 .. Original /\ size' \in Nat
  <2>1. CASE l = 0 \/ Close[l] > size
    BY <2>1, NumbersTyped DEF FillTp
  <2>2. CASE ~(l = 0 \/ Close[l] > size)
    <3>1. Close[l] \in Nat
      BY <2>2, NumbersTyped DEF TpOrders
    <3> QED
      BY <2>2, <3>1, NumbersTyped DEF FillTp, TypeOK, ExchangeOK
  <2> QED
    BY <2>1, <2>2
<1>2. ExchangeOK'
  BY <1>1 DEF FillTp, TypeOK, ExchangeOK
<1>3. l \in Nat
  BY NumbersTyped
<1>4. LinkOK'
  BY <1>1, <1>3, FillEventsTyped, EmitTyped DEF FillTp, TypeOK
<1> QED
  BY <1>2, <1>4, PartsKept DEF FillTp, TypeOK

LEMMA FillSlTyped == ASSUME TypeOK, FillSl PROVE TypeOK'
<1>1. ExchangeOK'
  BY NumbersTyped DEF FillSl, TypeOK, ExchangeOK
<1>2. LinkOK'
  BY FillEventsTyped, EmitTyped DEF FillSl, TypeOK
<1> QED
  BY <1>1, <1>2, PartsKept DEF FillSl, TypeOK

LEMMA ManualCloseTyped == ASSUME TypeOK, ManualClose PROVE TypeOK'
<1>1. PICK c \in ManualCuts \cup {size} : c <= size /\ size' = size - c
  BY DEF ManualClose
<1>2. c \in Nat /\ size \in Nat
  BY NumbersTyped, TrackingAssumption DEF TypeOK, ExchangeOK
<1>3. size' \in 0 .. Original /\ size' \in Nat
  BY <1>1, <1>2, NumbersTyped DEF TypeOK, ExchangeOK
<1>4. ExchangeOK'
  BY <1>3 DEF ManualClose, TypeOK, ExchangeOK
<1>5. LinkOK'
  <2>1. <<PositionEvent(size')>> \in Seq(Message)
    BY <1>3, EventsTyped
  <2> QED
    BY <2>1, EmitTyped DEF ManualClose, TypeOK
<1>6. EnvOK'
  BY TrackingAssumption DEF ManualClose, TypeOK, EnvOK
<1> QED
  BY <1>4, <1>5, <1>6, PartsKept DEF ManualClose, TypeOK

-----------------------------------------------------------------------------
(* The stream's handlers. *)

LEMMA ReceiveTyped ==
    ASSUME TypeOK, NEW type, Receive(type)
    PROVE  /\ Head(inbox) \in Message
           /\ LinkOK' /\ ExchangeOK'
           /\ UNCHANGED <<sync, inFlight, placed, env>>
<1>1. inbox \in Seq(Message) /\ inbox # <<>>
  BY DEF Receive, TypeOK, LinkOK
<1>2. Head(inbox) \in Message /\ Tail(inbox) \in Seq(Message)
  BY <1>1
<1>3. LinkOK'
  BY <1>2 DEF Receive, TypeOK, LinkOK
<1> QED
  BY <1>2, <1>3, PartsKept DEF Receive, TypeOK

LEMMA AttemptStateSyncTyped ==
    ASSUME TypeOK, NEW m \in Machine, NEW q \in Nat, AttemptStateSync(m, q)
    PROVE  machine' \in Machine /\ qty' \in Nat
<1>1. size \in Nat
  BY NumbersTyped DEF TypeOK, ExchangeOK
<1> QED
  BY <1>1, SyncedTyped DEF AttemptStateSync

LEMMA ClosePositionTyped ==
    ASSUME TypeOK, NEW trigger, NEW strict, ClosePosition(trigger, strict)
    PROVE  machine' \in Machine /\ qty' \in Nat /\ handler' \in Handlers /\ tasks' \subseteq TaskSet
<1> DEFINE m == TryTransition(machine, trigger)
<1>1. m \in Machine
  BY TryTyped DEF TypeOK, ContextOK
<1>2. Purged(tasks) \subseteq TaskSet /\ tasks \subseteq TaskSet /\ handler \in Handlers
  BY DEF Purged, TypeOK, QueueOK, TaskOK, Handlers
<1>3. CASE /\ CanTransition(m, "all_closed")
           /\ machine' = Transition(m, "all_closed") /\ qty' = 0
           /\ handler' = Cleanup /\ tasks' = Purged(tasks)
  BY <1>1, <1>2, <1>3, TransitionTyped, IdleTyped
<1>4. CASE /\ AttemptStateSync(m, 0)
           /\ IF strict THEN UNCHANGED <<handler, tasks>>
              ELSE handler' = Cleanup /\ tasks' = Purged(tasks)
  <2>1. machine' \in Machine /\ qty' \in Nat
    BY <1>1, <1>4, AttemptStateSyncTyped
  <2> QED
    BY <1>2, <1>4, <2>1, IdleTyped
<1> QED
  BY <1>3, <1>4 DEF ClosePosition

LEMMA EngineBookTyped ==
    ASSUME TypeOK, NEW l \in Levels, NEW q \in Nat, NEW by \in {"stream", "reconciler"},
           EngineBook(l, q, by)
    PROVE  ContextOK' /\ handler' \in Handlers /\ applied' \in [Levels -> Nat]
<1>1. CloseQty(l, q) \in Nat
  BY NumbersTyped DEF CloseQty
<1>2. Cut(q, CloseQty(l, q)) \in Nat
  BY <1>1 DEF Cut
<1>3. ContextOK'
  BY <1>2 DEF EngineBook, TypeOK, ContextOK
<1>4. handler' \in Handlers
  <2>1. (l # N /\ Cut(q, CloseQty(l, q)) > 0) \in BOOLEAN
    OBVIOUS
  <2> QED
    BY <2>1 DEF EngineBook, Handlers
<1>5. applied' \in [Levels -> Nat]
  <2>1. applied \in [Levels -> Nat] /\ applied' = [applied EXCEPT ![l] = @ + 1]
    BY DEF EngineBook, TypeOK, EnvOK
  <2> QED
    BY <2>1
<1> QED
  BY <1>3, <1>4, <1>5

\* What a handler must establish once its message is received.
LEMMA HandledTyped ==
    ASSUME TypeOK, NEW type, Receive(type),
           ContextOK', handler' \in Handlers, reconciler' \in Nat,
           tasks' \subseteq TaskSet, applied' \in [Levels -> Nat]
    PROVE  TypeOK'
<1>1. LinkOK' /\ ExchangeOK' /\ UNCHANGED <<sync, inFlight, placed, env>>
  BY ReceiveTyped
<1>2. TaskOK'
  BY <1>1 DEF TypeOK, TaskOK, Handlers
<1>3. QueueOK'
  BY <1>1 DEF TypeOK, QueueOK
<1>4. EnvOK'
  BY <1>1 DEF TypeOK, EnvOK, env
<1> QED
  BY <1>1, <1>2, <1>3, <1>4 DEF TypeOK

\* The parts of the state a handler may leave alone.
LEMMA LeftAlone ==
    ASSUME TypeOK
    PROVE  /\ UNCHANGED context => ContextOK'
           /\ UNCHANGED handler => handler' \in Handlers
           /\ UNCHANGED reconciler => reconciler' \in Nat
           /\ UNCHANGED tasks => tasks' \subseteq TaskSet
           /\ UNCHANGED applied => applied' \in [Levels -> Nat]
           /\ machine' \in Machine /\ qty' \in Nat /\ UNCHANGED <<status, ids, dispatched, slId>>
                 => ContextOK'
           /\ Purged(tasks) \subseteq TaskSet
BY DEF TypeOK, ContextOK, context, TaskOK, Handlers, QueueOK, EnvOK, Purged

LEMMA IgnoreTyped == ASSUME TypeOK, NEW type, Receive(type), Ignore PROVE TypeOK'
BY LeftAlone, HandledTyped DEF Ignore

LEMMA TpEventTyped == ASSUME TypeOK, TpEvent PROVE TypeOK'
<1> DEFINE e == Head(inbox)
<1>1. Receive("tp")
  BY DEF TpEvent
<1>2. CASE MatchesTriggered(e) /\ reconciler' = 0 /\ UNCHANGED <<context, handler, tasks, applied>>
  BY <1>1, <1>2, LeftAlone, HandledTyped
<1>3. CASE Ignore
  BY <1>1, <1>3, IgnoreTyped
<1>4. CASE /\ Matches(e) /\ EngineBook(e.level, qty, "stream")
           /\ UNCHANGED <<reconciler, tasks>>
  <2>1. e.level \in Levels /\ qty \in Nat
    BY <1>4 DEF Matches, TypeOK, ContextOK
  <2>2. ContextOK' /\ handler' \in Handlers /\ applied' \in [Levels -> Nat]
    BY <1>4, <2>1, EngineBookTyped
  <2> QED
    BY <1>1, <1>4, <2>2, LeftAlone, HandledTyped
<1>5. CASE /\ reconciler' = 0
           /\ IF machine.state = "closed" \/ qty = 0
              THEN handler' = Cleanup /\ tasks' = Purged(tasks)
              ELSE UNCHANGED <<handler, tasks>>
           /\ UNCHANGED <<context, applied>>
  <2>1. handler' \in Handlers /\ tasks' \subseteq TaskSet
    BY <1>5, LeftAlone, IdleTyped
  <2> QED
    BY <1>1, <1>5, <2>1, LeftAlone, HandledTyped
<1> QED
  BY <1>2, <1>3, <1>4, <1>5 DEF TpEvent

\* A handler that closes the position.
LEMMA ClosingTyped ==
    ASSUME TypeOK, NEW type, Receive(type), NEW trigger, NEW strict,
           ClosePosition(trigger, strict),
           UNCHANGED <<status, ids, dispatched, slId, reconciler, applied>>
    PROVE  TypeOK'
<1>1. machine' \in Machine /\ qty' \in Nat /\ handler' \in Handlers /\ tasks' \subseteq TaskSet
  BY ClosePositionTyped
<1> QED
  BY <1>1, LeftAlone, HandledTyped

LEMMA SingleTpEventTyped == ASSUME TypeOK, SingleTpEvent PROVE TypeOK'
BY IgnoreTyped, ClosingTyped DEF SingleTpEvent

LEMMA SlEventTyped == ASSUME TypeOK, SlEvent PROVE TypeOK'
<1>1. Receive("sl")
  BY DEF SlEvent
<1>2. CASE Ignore
  BY <1>1, <1>2, IgnoreTyped
<1>3. CASE /\ ClosePosition("sl_triggered", TRUE)
           /\ UNCHANGED <<status, ids, dispatched, slId, reconciler, applied>>
  BY <1>1, <1>3, ClosingTyped
<1>4. CASE /\ AttemptStateSync(machine, qty)
           /\ UNCHANGED <<status, ids, dispatched, slId, handler, reconciler, tasks, applied>>
  <2>1. machine' \in Machine /\ qty' \in Nat
    BY <1>4, AttemptStateSyncTyped DEF TypeOK, ContextOK
  <2> QED
    BY <1>1, <1>4, <2>1, LeftAlone, HandledTyped
<1> QED
  BY <1>2, <1>3, <1>4 DEF SlEvent

LEMMA PositionFlatTyped == ASSUME TypeOK, PositionFlat PROVE TypeOK'
BY IgnoreTyped, ClosingTyped DEF PositionFlat

LEMMA PositionResizedTyped == ASSUME TypeOK, PositionResized PROVE TypeOK'
<1>1. Receive("pos") /\ Head(inbox).size \in Nat
  BY ReceiveTyped DEF PositionResized, Message
<1>2. qty' \in Nat /\ machine' \in Machine
  BY <1>1 DEF PositionResized, TypeOK, ContextOK
<1>3. reconciler' \in Nat
  BY <1>1 DEF PositionResized, TypeOK, ContextOK, TaskOK
<1> QED
  BY <1>1, <1>2, <1>3, LeftAlone, HandledTyped DEF PositionResized

-----------------------------------------------------------------------------
(* The engine, the clean-up, the reconciler and the queue's worker. *)

LEMMA EngineFinishTyped == ASSUME TypeOK, EngineFinish PROVE TypeOK'
<1>1. machine' \in Machine
  BY AllClosedTyped, PartialCloseTyped DEF EngineFinish, TypeOK, ContextOK
<1>2. Task("replace_sl", 0) \in TaskSet
  BY DEF TaskSet, StopKinds
<1>3. handler' \in Handlers /\ tasks' \subseteq TaskSet
  <2>1. PICK moved \in {FALSE, handler.shift /\ size > 0} :
          LET queued == IF moved THEN tasks \cup {Task("replace_sl", 0)} ELSE tasks
          IN  IF handler.by = "stream" /\ (machine'.state = "closed" \/ qty = 0)
              THEN handler' = Cleanup /\ tasks' = Purged(queued)
              ELSE handler' = Idle /\ tasks' = queued
    BY DEF EngineFinish
  <2>2. tasks \subseteq TaskSet
    BY DEF TypeOK, QueueOK
  <2> QED
    BY <1>2, <2>1, <2>2, IdleTyped DEF Purged
<1>4. ContextOK'
  BY <1>1 DEF EngineFinish, TypeOK, ContextOK
<1>5. TaskOK'
  BY <1>3 DEF EngineFinish, TypeOK, TaskOK, Handlers
<1>6. QueueOK'
  BY <1>3 DEF EngineFinish, TypeOK, QueueOK
<1> QED
  BY <1>4, <1>5, <1>6, PartsKept DEF EngineFinish, TypeOK

LEMMA CancelRemainingOrdersTyped == ASSUME TypeOK, CancelRemainingOrders PROVE TypeOK'
<1>1. tpLive' \subseteq TpOrders
  BY DEF CancelRemainingOrders, TypeOK, ExchangeOK
<1>2. slLive' \in BOOLEAN
  BY DEF CancelRemainingOrders
<1>3. ExchangeOK'
  BY <1>1, <1>2 DEF CancelRemainingOrders, TypeOK, ExchangeOK
<1>4. status' \in [Levels -> {"pending", "open", "triggered", "cancelled"}]
  <2>1. status' = [l \in Levels |-> IF l \in ids /\ status[l] # "triggered"
                                  THEN "cancelled" ELSE status[l]]
    BY DEF CancelRemainingOrders
  <2> QED
    BY <2>1 DEF TypeOK, ContextOK
<1>5. ContextOK'
  BY <1>4 DEF CancelRemainingOrders, TypeOK, ContextOK
<1>6. TaskOK'
  BY IdleTyped DEF CancelRemainingOrders, TypeOK, TaskOK, Handlers
<1> QED
  BY <1>3, <1>5, <1>6, PartsKept DEF CancelRemainingOrders, TypeOK

LEMMA ReconcilePartialCloseTyped == ASSUME TypeOK, ReconcilePartialClose PROVE TypeOK'
<1>1. /\ reconciler' = 0
      /\ UNCHANGED <<exchange, link, sync, queue, env>>
  BY DEF ReconcilePartialClose
<1>2. Restored(qty, reconciler) \in Nat
  BY DEF Restored, TypeOK, ContextOK, TaskOK
<1>3. ContextOK' /\ handler' \in Handlers /\ applied' \in [Levels -> Nat]
  <2>1. CASE UNCHANGED <<context, handler, applied>>
    BY <2>1, LeftAlone
  <2>2. CASE \E l \in Levels : EngineBook(l, Restored(qty, reconciler), "reconciler")
    BY <1>2, <2>2, EngineBookTyped
  <2>3. CASE /\ qty' = Restored(qty, reconciler)
             /\ UNCHANGED <<machine, status, ids, dispatched, slId, handler, applied>>
    <3>1. machine' \in Machine
      BY <2>3 DEF TypeOK, ContextOK
    <3> QED
      BY <1>2, <2>3, <3>1, LeftAlone
  <2> QED
    BY <2>1, <2>2, <2>3 DEF ReconcilePartialClose, ClosestOpenLevel
<1>4. TaskOK'
  BY <1>1, <1>3 DEF TypeOK, TaskOK, Handlers
<1>5. EnvOK'
  BY <1>1, <1>3 DEF TypeOK, EnvOK, env
<1> QED
  BY <1>1, <1>3, <1>4, <1>5, PartsKept DEF TypeOK

LEMMA StartTaskTyped == ASSUME TypeOK, StartTask PROVE TypeOK'
<1>1. QueueOK'
  BY DEF StartTask, TypeOK, QueueOK
<1> QED
  BY <1>1, PartsKept DEF StartTask, TypeOK

LEMMA ExecuteTaskTyped == ASSUME TypeOK, ExecuteTask PROVE TypeOK'
<1>1. inFlight \in TaskSet
  BY DEF ExecuteTask, TypeOK, QueueOK
<1>2. inFlight.kind = "tp" => inFlight.level \in TpOrders
  BY <1>1 DEF TaskSet, Task, StopKinds
<1>3. UNCHANGED <<machine, qty, status, ids, dispatched, handler, reconciler, sync, tasks,
                  env, applied>>
  BY DEF ExecuteTask
<1>4. CASE inFlight' = NoTask /\ UNCHANGED <<exchange, link, slId, placed>>
  <2>1. QueueOK'
    BY <1>3, <1>4 DEF TypeOK, QueueOK
  <2> QED
    BY <1>3, <1>4, <2>1, PartsKept DEF TypeOK, context
<1>5. CASE /\ tpLive' = IF inFlight.kind = "tp" THEN tpLive \cup {inFlight.level} ELSE tpLive
           /\ slLive' = (slLive \/ inFlight.kind \in StopKinds)
           /\ slId' = IF inFlight.kind \in StopKinds /\ slId = "live" THEN "stale" ELSE slId
           /\ IF inFlight.kind = "emergency_close"
              THEN size' = 0 /\ Emit(<<PositionEvent(0)>>)
              ELSE UNCHANGED <<size, link>>
           /\ placed' = TRUE
           /\ UNCHANGED inFlight
  <2>1. tpLive' \subseteq TpOrders
    BY <1>2, <1>5 DEF TypeOK, ExchangeOK
  <2>2. size' \in 0 .. Original
    BY <1>5, NumbersTyped DEF TypeOK, ExchangeOK
  <2>3. ExchangeOK'
    BY <1>5, <2>1, <2>2 DEF ExchangeOK
  <2>4. LinkOK'
    <3>1. <<PositionEvent(0)>> \in Seq(Message)
      BY EventsTyped
    <3> QED
      BY <1>5, <3>1, EmitTyped, PartsKept DEF TypeOK
  <2>5. ContextOK'
    BY <1>3, <1>5 DEF TypeOK, ContextOK
  <2>6. QueueOK'
    BY <1>3, <1>5 DEF TypeOK, QueueOK
  <2> QED
    BY <1>3, <2>3, <2>4, <2>5, <2>6, PartsKept DEF TypeOK
<1> QED
  BY <1>4, <1>5 DEF ExecuteTask

LEMMA RunCallbackTyped == ASSUME TypeOK, RunCallback PROVE TypeOK'
<1>1. machine' \in Machine
  BY TryTyped DEF RunCallback, TypeOK, ContextOK
<1>2. ids' \subseteq Levels
  BY DEF RunCallback, TypeOK, ContextOK
<1>3. status' \in [Levels -> {"pending", "open", "triggered", "cancelled"}]
  BY DEF RunCallback, TypeOK, ContextOK
<1>4. ContextOK'
  BY <1>1, <1>2, <1>3 DEF RunCallback, TypeOK, ContextOK
<1>5. QueueOK'
  BY DEF RunCallback, TypeOK, QueueOK
<1> QED
  BY <1>4, <1>5, PartsKept DEF RunCallback, TypeOK

-----------------------------------------------------------------------------
(* Losing the stream and coming back. *)

LEMMA NothingTyped == <<>> \in Seq(Message)
OBVIOUS

LEMMA LoseStreamTyped == ASSUME TypeOK, LoseStream PROVE TypeOK'
<1>1. machine' \in Machine /\ qty' \in Nat
  <2>1. machine \in Machine /\ qty \in Nat
    BY DEF TypeOK, ContextOK
  <2>2. CASE UNCHANGED <<machine, qty>>
    BY <2>1, <2>2
  <2>3. CASE /\ CanTransition(machine, "ws_disconnected")
             /\ machine' = Transition(machine, "ws_disconnected") /\ UNCHANGED qty
    BY <2>1, <2>3, TransitionTyped
  <2>4. CASE AttemptStateSync(machine, qty)
    BY <2>1, <2>4, AttemptStateSyncTyped
  <2> QED
    BY <2>2, <2>3, <2>4 DEF LoseStream
<1>2. LinkOK'
  <2>1. inbox' = <<>> /\ up' = FALSE /\ warm' = FALSE
    BY DEF LoseStream
  <2>2. connected' \in BOOLEAN
    BY Zenon DEF LoseStream, TypeOK, LinkOK
  <2> QED
    BY <2>1, <2>2, NothingTyped DEF LinkOK
<1>3. ContextOK'
  BY <1>1 DEF LoseStream, TypeOK, ContextOK
<1>4. TaskOK'
  BY DEF LoseStream, TypeOK, TaskOK
<1>5. EnvOK'
  BY TrackingAssumption DEF LoseStream, TypeOK, EnvOK
<1> QED
  BY <1>2, <1>3, <1>4, <1>5, PartsKept DEF LoseStream, TypeOK

LEMMA StopVanishesTyped == ASSUME TypeOK, StopVanishes PROVE TypeOK'
<1>1. ExchangeOK' /\ ContextOK'
  BY DEF StopVanishes, TypeOK, ExchangeOK, ContextOK
<1> QED
  BY <1>1, PartsKept DEF StopVanishes, TypeOK

LEMMA RestartTyped == ASSUME Restart PROVE LinkOK'
BY NothingTyped DEF Restart, LinkOK

LEMMA ReconnectTyped == ASSUME TypeOK, Reconnect PROVE TypeOK'
<1>1. TaskOK'
  BY NumbersTyped DEF Reconnect, TypeOK, TaskOK
<1> QED
  BY <1>1, RestartTyped, PartsKept DEF Reconnect, TypeOK

LEMMA WarmUpTyped == ASSUME TypeOK, WarmUp PROVE TypeOK'
<1>1. LinkOK'
  BY DEF WarmUp, TypeOK, LinkOK
<1> QED
  BY <1>1, PartsKept DEF WarmUp, TypeOK

LEMMA SyncReadTyped == ASSUME TypeOK, SyncRead PROVE TypeOK'
<1>1. TaskOK'
  BY DEF SyncRead, TypeOK, TaskOK, ExchangeOK
<1> QED
  BY <1>1, PartsKept DEF SyncRead, TypeOK

LEMMA SyncApplyTyped == ASSUME TypeOK, SyncApply PROVE TypeOK'
<1>1. sync.size \in 0 .. Original /\ machine' \in Machine
  BY SyncedTyped DEF SyncApply, TypeOK, TaskOK, ContextOK
<1>2. qty' \in Nat
  BY <1>1, NumbersTyped DEF SyncApply
<1>3. ContextOK'
  BY <1>1, <1>2 DEF SyncApply, TypeOK, ContextOK
<1>4. TaskOK'
  BY NumbersTyped DEF SyncApply, NoSync, TypeOK, TaskOK
<1> QED
  BY <1>3, <1>4, PartsKept DEF SyncApply, TypeOK

LEMMA SyncOrdersTyped == ASSUME TypeOK, SyncOrders PROVE TypeOK'
<1>1. Task("emergency_sl", 0) \in TaskSet
  BY DEF TaskSet, StopKinds
<1>2. QueueOK'
  BY <1>1 DEF SyncOrders, TypeOK, QueueOK
<1>3. ContextOK'
  BY SyncCompletedTyped DEF SyncOrders, TypeOK, ContextOK
<1>4. TaskOK'
  BY NumbersTyped DEF SyncOrders, NoSync, TypeOK, TaskOK
<1> QED
  BY <1>2, <1>3, <1>4, PartsKept DEF SyncOrders, TypeOK

LEMMA GiveUpTyped == ASSUME TypeOK, GiveUp PROVE TypeOK'
<1>1. Task("emergency_close", 0) \in TaskSet
  BY DEF TaskSet, StopKinds
<1>2. QueueOK'
  BY <1>1 DEF GiveUp, TypeOK, QueueOK
<1>3. TaskOK'
  BY NumbersTyped DEF GiveUp, NoSync, TypeOK, TaskOK
<1> QED
  BY <1>2, <1>3, PartsKept DEF GiveUp, TypeOK

LEMMA HydrateTyped == ASSUME TypeOK, Hydrate PROVE TypeOK'
BY RestartTyped, PartsKept DEF Hydrate, TypeOK

LEMMA StepTyped == TypeOK /\ [Next]_vars => TypeOK'
<1> SUFFICES ASSUME TypeOK, [Next]_vars PROVE TypeOK'
  OBVIOUS
<1>1. CASE \E l \in TpOrders : FillTp(l)
  BY <1>1, FillTpTyped
<1>2. CASE FillSl \/ ManualClose \/ StopVanishes
  BY <1>2, FillSlTyped, ManualCloseTyped, StopVanishesTyped
<1>3. CASE SuppressOrderUpdate
  BY <1>3, IgnoreTyped DEF SuppressOrderUpdate
<1>4. CASE StreamStep /\ ~SuppressOrderUpdate
  BY <1>4, TpEventTyped, SingleTpEventTyped, SlEventTyped, PositionFlatTyped,
     PositionResizedTyped DEF StreamStep
<1>5. CASE EngineFinish \/ CancelRemainingOrders \/ ReconcilePartialClose
  BY <1>5, EngineFinishTyped, CancelRemainingOrdersTyped, ReconcilePartialCloseTyped
<1>6. CASE WorkerStep
  BY <1>6, StartTaskTyped, ExecuteTaskTyped, RunCallbackTyped DEF WorkerStep
<1>7. CASE LoseStream \/ WarmUp \/ Hydrate
  BY <1>7, LoseStreamTyped, WarmUpTyped, HydrateTyped
<1>8. CASE SyncStep
  BY <1>8, ReconnectTyped, SyncReadTyped, SyncApplyTyped, SyncOrdersTyped, GiveUpTyped
     DEF SyncStep
<1>9. CASE UNCHANGED vars
  BY <1>9, PartsKept DEF vars, TypeOK
<1> QED
  BY <1>1, <1>2, <1>3, <1>4, <1>5, <1>6, <1>7, <1>8, <1>9 DEF Next

\* Every variable of the tracker, of the engine and of the exchange keeps its
\* type; in particular no quantity becomes negative.
THEOREM TypeCorrect == Spec => []TypeOK
BY InitTyped, StepTyped, PTL DEF Spec

-----------------------------------------------------------------------------
(* A position with a single take profit is closed only when it is flat. *)

\* What a message says about the size is still an upper bound: the position
\* only shrinks.
Honest(b, s) ==
    \A i \in DOMAIN b : IF b[i].type = "pos" THEN s <= b[i].size ELSE s = 0

\* The inductive invariant, for N = 0.
FlatInv ==
    /\ TypeOK
    /\ Honest(inbox, size)
    /\ sync.at = "apply" => size <= sync.size
    /\ handler.at # "engine"
    /\ machine.saved # "closed"
    /\ ClosedIsFlat

LEMMA NothingFromClosed == \A t, s : <<"closed", t, s>> \notin VALID_TRANSITIONS
BY DEF VALID_TRANSITIONS, From

LEMMA ClosedByClosing ==
    \A a, t : <<a, t, "closed">> \in VALID_TRANSITIONS => t \in {"all_closed", "emergency_close"}
BY DEF VALID_TRANSITIONS, From

\* No other trigger closes a position, and CLOSED is never the saved state.
LEMMA TransitionFlat ==
    ASSUME NEW m \in Machine, NEW t, CanTransition(m, t), m.saved # "closed"
    PROVE  /\ Transition(m, t).saved # "closed"
           /\ t \notin {"all_closed", "emergency_close"} => Transition(m, t).state # "closed"
<1> DEFINE target == CHOOSE s \in PositionStates : <<m.state, t, s>> \in VALID_TRANSITIONS
<1>1. target \in PositionStates /\ <<m.state, t, target>> \in VALID_TRANSITIONS
  BY DEF CanTransition
<1>2. m.state # "closed"
  BY <1>1, NothingFromClosed
<1>3. t \notin {"all_closed", "emergency_close"} => target # "closed"
  BY <1>1, ClosedByClosing
<1>4. m.state \in PositionStates /\ m = [state |-> m.state, saved |-> m.saved]
  BY DEF Machine
<1>5. CASE target = "reconnecting"
  <2>1. Transition(m, t) = [state |-> "reconnecting", saved |-> m.state]
    BY <1>5 DEF Transition
  <2> QED
    BY <1>2, <2>1
<1>6. CASE target # "reconnecting" /\ t = "sync_complete" /\ m.saved # NoSavedState
  <2>1. Transition(m, t) = [state |-> m.saved, saved |-> NoSavedState]
    BY <1>6 DEF Transition
  <2> QED
    BY <2>1 DEF NoSavedState
<1>7. CASE target # "reconnecting" /\ ~(t = "sync_complete" /\ m.saved # NoSavedState)
  <2>1. Transition(m, t) = [m EXCEPT !.state = target]
    BY <1>7 DEF Transition
  <2>2. Transition(m, t).state = target /\ Transition(m, t).saved = m.saved
    BY <1>4, <2>1
  <2> QED
    BY <1>3, <2>2
<1> QED
  BY <1>5, <1>6, <1>7

LEMMA TryFlat ==
    ASSUME NEW m \in Machine, NEW t, m.saved # "closed"
    PROVE  TryTransition(m, t).saved # "closed"
BY TransitionFlat DEF TryTransition

LEMMA SyncedFlat ==
    ASSUME NEW m \in Machine, NEW s \in Nat, m.saved # "closed"
    PROVE  /\ Synced(m, s).saved # "closed"
           /\ s # 0 => Synced(m, s).state # "closed"
<1>1. \A x : [m EXCEPT !.state = x].saved = m.saved /\ [m EXCEPT !.state = x].state = x
  BY DEF Machine
<1>2. CASE s = 0
  BY <1>1, <1>2, TransitionFlat DEF Synced, ForcedTransition
<1>3. CASE s # 0
  BY <1>1, <1>3 DEF Synced, Reopened
<1> QED
  BY <1>2, <1>3

LEMMA InitFlat == N = 0 /\ Init => FlatInv
<1> SUFFICES ASSUME Init PROVE FlatInv
  OBVIOUS
<1>1. TypeOK
  BY InitTyped
<1>2. Honest(inbox, size)
  BY DEF Init, Honest
<1>3. sync.at # "apply" /\ handler.at # "engine"
  BY DEF Init, NoSync, Idle
<1>4. machine.saved # "closed" /\ machine.state # "closed"
  BY DEF Init, NoSavedState
<1> QED
  BY <1>1, <1>2, <1>3, <1>4 DEF FlatInv, ClosedIsFlat

\* Messages stay honest while the position shrinks and new ones are honest.
LEMMA EmitHonest ==
    ASSUME TypeOK, Honest(inbox, size), NEW m \in Seq(Message), Emit(m),
           size' \in Nat, size' <= size, Honest(m, size')
    PROVE  Honest(inbox', size')
<1>1. inbox \in Seq(Message) /\ size \in Nat
  BY NumbersTyped DEF TypeOK, LinkOK, ExchangeOK
<1>2. \A i \in DOMAIN inbox : inbox[i] \in Message
  BY <1>1
<1>3. Honest(inbox, size')
  <2> SUFFICES ASSUME NEW i \in DOMAIN inbox
               PROVE  IF inbox[i].type = "pos" THEN size' <= inbox[i].size ELSE size' = 0
    BY DEF Honest
  <2>1. inbox[i].size \in Nat
    BY <1>2 DEF Message
  <2> QED
    BY <1>1, <2>1 DEF Honest
<1>4. CASE inbox' = inbox
  BY <1>3, <1>4
<1>5. CASE inbox' = inbox \o m
  <2>1. ASSUME NEW i \in DOMAIN inbox'
        PROVE  \/ i \in DOMAIN inbox /\ inbox'[i] = inbox[i]
               \/ i - Len(inbox) \in DOMAIN m /\ inbox'[i] = m[i - Len(inbox)]
    BY <1>1, <1>5, <2>1
  <2> QED
    BY <1>3, <2>1 DEF Honest
<1> QED
  BY <1>4, <1>5 DEF Emit

\* Once the position is flat, every message about a fill is honest.
LEMMA FillEventsHonest ==
    ASSUME NEW type \in {"tp", "sl"}, NEW l \in Nat, NEW m \in FillEvents(type, l, 0)
    PROVE  Honest(m, 0)
<1>1. PICK d \in Deliveries, a \in Addressed :
        m = [i \in DOMAIN d |-> IF d[i] = "o" THEN OrderEvent(type, l, a) ELSE PositionEvent(0)]
  BY DEF FillEvents
<1> QED
  BY <1>1 DEF Honest, OrderEvent, PositionEvent

\* A step that leaves the tracker and the manager alone.
LEMMA UntouchedFlat ==
    ASSUME FlatInv, TypeOK', Honest(inbox', size'), size' <= size,
           UNCHANGED <<machine, handler, sync>>
    PROVE  FlatInv'
<1>1. size \in Nat /\ size' \in Nat /\ sync.size \in Nat
  BY NumbersTyped DEF FlatInv, TypeOK, ExchangeOK, TaskOK
<1> QED
  BY <1>1 DEF FlatInv, ClosedIsFlat

LEMMA FillTpFlat == ASSUME N = 0, FlatInv, NEW l \in TpOrders, FillTp(l) PROVE FlatInv'
<1>1. l = 0 /\ size' = 0 /\ size \in Nat /\ TypeOK
  BY NumbersTyped DEF TpOrders, FillTp, FlatInv, TypeOK, ExchangeOK
<1>2. Honest(inbox', size')
  BY <1>1, FillEventsTyped, FillEventsHonest, EmitHonest DEF FillTp, FlatInv
<1> QED
  BY <1>1, <1>2, FillTpTyped, UntouchedFlat DEF FillTp, FlatInv, context

LEMMA FillSlFlat == ASSUME FlatInv, FillSl PROVE FlatInv'
<1>1. size' = 0 /\ size \in Nat /\ TypeOK
  BY NumbersTyped DEF FillSl, FlatInv, TypeOK, ExchangeOK
<1>2. Honest(inbox', size')
  BY <1>1, FillEventsTyped, FillEventsHonest, EmitHonest DEF FillSl, FlatInv
<1>3. TypeOK' /\ size' <= size
  BY <1>1, FillSlTyped
<1>4. UNCHANGED <<machine, handler, sync>>
  BY DEF FillSl, context
<1> QED
  BY <1>2, <1>3, <1>4, UntouchedFlat

\* A position message is honest about the size it reports.
LEMMA PositionHonest ==
    ASSUME NEW s \in Nat
    PROVE  <<PositionEvent(s)>> \in Seq(Message) /\ Honest(<<PositionEvent(s)>>, s)
BY EventsTyped DEF Honest, PositionEvent

LEMMA ManualCloseFlat == ASSUME FlatInv, ManualClose PROVE FlatInv'
<1>1. PICK c \in ManualCuts \cup {size} : c <= size /\ size' = size - c
  BY DEF ManualClose
<1>2. c \in Nat /\ size \in Nat
  BY NumbersTyped, TrackingAssumption DEF FlatInv, TypeOK, ExchangeOK
<1>3. size' \in Nat /\ size' <= size
  BY <1>1, <1>2
<1>4. Honest(inbox', size')
  BY <1>3, PositionHonest, EmitHonest DEF ManualClose, FlatInv
<1> QED
  BY <1>3, <1>4, ManualCloseTyped, UntouchedFlat DEF ManualClose, FlatInv, context

\* A received message is honest, and so are the ones behind it.
LEMMA ReceiveFlat ==
    ASSUME FlatInv, NEW type, Receive(type)
    PROVE  /\ Head(inbox).type = type /\ Head(inbox) \in Message
           /\ type = "pos" => size <= Head(inbox).size
           /\ type # "pos" => size = 0
           /\ Honest(inbox', size') /\ UNCHANGED <<size, sync>>
<1>1. inbox \in Seq(Message) /\ inbox # <<>> /\ inbox' = Tail(inbox)
  BY DEF Receive, FlatInv, TypeOK, LinkOK
<1>2. Head(inbox) = inbox[1] /\ 1 \in DOMAIN inbox /\ Head(inbox) \in Message
  BY <1>1
<1>3. Head(inbox).type = type /\ UNCHANGED <<size, sync>>
  BY DEF Receive, exchange
<1>4. /\ type = "pos" => size <= Head(inbox).size
      /\ type # "pos" => size = 0
  BY <1>2, <1>3 DEF FlatInv, Honest
<1>5. \A i \in DOMAIN inbox' : i + 1 \in DOMAIN inbox /\ inbox'[i] = inbox[i + 1]
  BY <1>1
<1>6. Honest(inbox', size')
  BY <1>3, <1>5 DEF FlatInv, Honest
<1> QED
  BY <1>2, <1>3, <1>4, <1>6

LEMMA AttemptStateSyncFlat ==
    ASSUME FlatInv, NEW m \in Machine, m.saved # "closed", NEW q, AttemptStateSync(m, q),
           m.state = "closed" => size = 0
    PROVE  machine'.saved # "closed" /\ (machine'.state = "closed" => size = 0)
<1>1. size \in Nat
  BY NumbersTyped DEF FlatInv, TypeOK, ExchangeOK
<1>2. machine' = m \/ machine' = Synced(m, size)
  BY DEF AttemptStateSync
<1> QED
  BY <1>1, <1>2, SyncedFlat

\* A handler of the stream keeps the invariant if the machine does.
LEMMA HandledFlat ==
    ASSUME FlatInv, TypeOK', NEW type, Receive(type), handler'.at # "engine",
           machine'.saved # "closed", machine'.state = "closed" => size = 0
    PROVE  FlatInv'
BY ReceiveFlat DEF FlatInv, ClosedIsFlat

LEMMA IgnoreFlat == ASSUME FlatInv, NEW type, Receive(type), Ignore PROVE FlatInv'
BY IgnoreTyped, HandledFlat DEF Ignore, context, FlatInv, ClosedIsFlat

\* Closing a position that is flat.
LEMMA ClosingFlat ==
    ASSUME FlatInv, NEW type, Receive(type), NEW trigger, NEW strict,
           ClosePosition(trigger, strict), size = 0,
           UNCHANGED <<status, ids, dispatched, slId, reconciler, applied>>
    PROVE  FlatInv'
<1> DEFINE m == TryTransition(machine, trigger)
<1>1. TypeOK /\ TypeOK' /\ machine \in Machine
  BY ClosingTyped DEF FlatInv, TypeOK, ContextOK
<1>2. m \in Machine /\ m.saved # "closed"
  BY <1>1, TryTyped, TryFlat DEF FlatInv
<1>3. handler'.at # "engine"
  BY DEF ClosePosition, Cleanup, Idle, FlatInv
<1>4. machine'.saved # "closed"
  <2>1. CASE CanTransition(m, "all_closed") /\ machine' = Transition(m, "all_closed")
    BY <1>2, <2>1, TransitionFlat
  <2>2. CASE AttemptStateSync(m, 0)
    BY <1>2, <2>2, AttemptStateSyncFlat
  <2> QED
    BY <2>1, <2>2 DEF ClosePosition
<1> QED
  BY <1>1, <1>3, <1>4, HandledFlat

LEMMA StreamStepFlat == ASSUME N = 0, FlatInv, StreamStep PROVE FlatInv'
<1>1. CASE SuppressOrderUpdate
  BY <1>1, IgnoreFlat DEF SuppressOrderUpdate
<1>2. CASE TpEvent
  BY <1>2 DEF TpEvent
<1>3. CASE SingleTpEvent
  <2>1. Receive("tp") /\ size = 0
    BY <1>3, ReceiveFlat DEF SingleTpEvent
  <2> QED
    BY <1>3, <2>1, IgnoreFlat, ClosingFlat DEF SingleTpEvent
<1>4. CASE SlEvent
  <2>1. Receive("sl") /\ size = 0
    BY <1>4, ReceiveFlat DEF SlEvent
  <2>2. CASE Ignore
    BY <2>1, <2>2, IgnoreFlat
  <2>3. CASE /\ ClosePosition("sl_triggered", TRUE)
             /\ UNCHANGED <<status, ids, dispatched, slId, reconciler, applied>>
    BY <2>1, <2>3, ClosingFlat
  <2>4. CASE AttemptStateSync(machine, qty) /\ UNCHANGED handler
    <3>1. machine \in Machine /\ machine.saved # "closed" /\ handler.at # "engine"
      BY DEF FlatInv, TypeOK, ContextOK
    <3>2. machine'.saved # "closed"
      BY <2>1, <2>4, <3>1, AttemptStateSyncFlat
    <3>3. TypeOK'
      BY <1>4, SlEventTyped DEF FlatInv
    <3> QED
      BY <2>1, <2>4, <3>1, <3>2, <3>3, HandledFlat
  <2> QED
    BY <1>4, <2>2, <2>3, <2>4 DEF SlEvent
<1>5. CASE PositionFlat
  <2>1. Receive("pos") /\ size \in Nat /\ size <= Head(inbox).size /\ Head(inbox).size = 0
    BY <1>5, ReceiveFlat, NumbersTyped DEF PositionFlat, IsFlat, FlatInv, TypeOK, ExchangeOK
  <2>2. size = 0
    BY <2>1
  <2> QED
    BY <1>5, <2>1, <2>2, IgnoreFlat, ClosingFlat DEF PositionFlat
<1>6. CASE PositionResized
  <2>1. Receive("pos") /\ UNCHANGED <<machine, handler>> /\ TypeOK'
    BY <1>6, PositionResizedTyped DEF PositionResized, FlatInv
  <2> QED
    BY <2>1, HandledFlat DEF FlatInv, ClosedIsFlat
<1> QED
  BY <1>1, <1>2, <1>3, <1>4, <1>5, <1>6 DEF StreamStep

\* A step that neither shrinks the position nor emits a message.
LEMMA QuietFlat ==
    ASSUME FlatInv, TypeOK', UNCHANGED size, inbox' = inbox \/ inbox' = <<>>,
           sync'.at = "apply" => size <= sync'.size, handler'.at # "engine",
           machine'.saved # "closed", machine'.state = "closed" => size = 0
    PROVE  FlatInv'
<1>1. Honest(inbox', size')
  BY DEF FlatInv, Honest
<1> QED
  BY <1>1 DEF FlatInv, ClosedIsFlat

LEMMA CancelRemainingOrdersFlat == ASSUME FlatInv, CancelRemainingOrders PROVE FlatInv'
<1>1. TypeOK' /\ handler'.at # "engine"
  BY CancelRemainingOrdersTyped DEF FlatInv, CancelRemainingOrders, Idle
<1> QED
  BY <1>1, QuietFlat DEF CancelRemainingOrders, FlatInv, ClosedIsFlat, link

LEMMA ReconcileFlat == ASSUME N = 0, FlatInv, ReconcilePartialClose PROVE FlatInv'
<1>1. Levels = {}
  BY DEF Levels
<1>2. UNCHANGED <<context, handler>>
  BY <1>1 DEF ReconcilePartialClose, ClosestOpenLevel
<1>3. TypeOK'
  BY ReconcilePartialCloseTyped DEF FlatInv
<1> QED
  BY <1>2, <1>3, QuietFlat
     DEF ReconcilePartialClose, FlatInv, ClosedIsFlat, exchange, link, context

LEMMA ExecuteTaskFlat == ASSUME FlatInv, ExecuteTask PROVE FlatInv'
<1>1. TypeOK /\ TypeOK' /\ size \in Nat
  BY ExecuteTaskTyped, NumbersTyped DEF FlatInv, TypeOK, ExchangeOK
<1>2. UNCHANGED <<machine, handler, sync>>
  BY DEF ExecuteTask
<1>3. CASE UNCHANGED <<size, link>>
  BY <1>1, <1>2, <1>3, QuietFlat DEF FlatInv, ClosedIsFlat, link
<1>4. CASE size' = 0 /\ Emit(<<PositionEvent(0)>>)
  <2>1. size' <= size /\ size' \in Nat
    BY <1>1, <1>4
  <2>2. <<PositionEvent(0)>> \in Seq(Message) /\ Honest(<<PositionEvent(0)>>, size')
    BY <1>4, PositionHonest
  <2>3. TypeOK /\ Honest(inbox, size)
    BY DEF FlatInv
  <2>4. Honest(inbox', size')
    BY <1>4, <2>1, <2>2, <2>3, EmitHonest
  <2> QED
    BY <1>1, <1>2, <2>4, <2>1, UntouchedFlat
<1> QED
  BY <1>3, <1>4 DEF ExecuteTask, exchange

LEMMA RunCallbackFlat == ASSUME FlatInv, RunCallback PROVE FlatInv'
<1>1. TypeOK' /\ machine \in Machine
  BY RunCallbackTyped DEF FlatInv, TypeOK, ContextOK
<1>2. machine' = machine \/ machine' = TryTransition(machine, "adjustment_complete")
  BY DEF RunCallback
<1>3. machine'.saved # "closed" /\ (machine'.state = "closed" => size = 0)
  BY <1>1, <1>2, TransitionFlat DEF TryTransition, FlatInv, ClosedIsFlat
<1> QED
  BY <1>1, <1>3, QuietFlat DEF RunCallback, FlatInv, exchange, link

LEMMA LoseStreamFlat == ASSUME FlatInv, LoseStream PROVE FlatInv'
<1>1. TypeOK' /\ machine \in Machine
  BY LoseStreamTyped DEF FlatInv, TypeOK, ContextOK
<1>2. machine'.saved # "closed" /\ (machine'.state = "closed" => size = 0)
  <2>1. CASE UNCHANGED machine
    BY <2>1 DEF FlatInv, ClosedIsFlat
  <2>2. CASE /\ CanTransition(machine, "ws_disconnected")
             /\ machine' = Transition(machine, "ws_disconnected")
    BY <1>1, <2>2, TransitionFlat DEF FlatInv
  <2>3. CASE AttemptStateSync(machine, qty)
    BY <1>1, <2>3, AttemptStateSyncFlat DEF FlatInv, ClosedIsFlat
  <2> QED
    BY <2>1, <2>2, <2>3 DEF LoseStream
<1>3. sync' = sync \/ sync'.at = "backoff"
  BY DEF LoseStream, FlatInv, TypeOK, TaskOK
<1>4. UNCHANGED <<size, handler>> /\ inbox' = <<>>
  BY DEF LoseStream, exchange
<1> QED
  BY <1>1, <1>2, <1>3, <1>4, QuietFlat DEF FlatInv

LEMMA SyncStepFlat == ASSUME FlatInv, SyncStep PROVE FlatInv'
<1>1. machine \in Machine /\ TypeOK /\ size \in Nat
  BY NumbersTyped DEF FlatInv, TypeOK, ContextOK, ExchangeOK
<1>2. TypeOK'
  BY <1>1, ReconnectTyped, SyncReadTyped, SyncApplyTyped, SyncOrdersTyped, GiveUpTyped
     DEF SyncStep
<1>3. CASE Reconnect
  <2>1. sync'.at # "apply" /\ inbox' = <<>> /\ UNCHANGED <<size, machine, handler>>
    BY <1>3 DEF Reconnect, Restart, exchange, context
  <2> QED
    BY <1>2, <2>1, QuietFlat DEF FlatInv, ClosedIsFlat
<1>4. CASE SyncRead
  <2>1. sync'.size = size /\ UNCHANGED <<size, inbox, machine, handler>>
    BY <1>4 DEF SyncRead, exchange, link, context
  <2> QED
    BY <1>1, <1>2, <2>1, QuietFlat DEF FlatInv, ClosedIsFlat
<1>5. CASE SyncApply
  <2>1. sync.size \in Nat /\ size <= sync.size /\ machine' = Synced(machine, sync.size)
    BY <1>5, NumbersTyped DEF SyncApply, FlatInv, TypeOK, TaskOK
  <2>2. machine'.saved # "closed" /\ (machine'.state = "closed" => size = 0)
    <3>1. sync.size = 0 => size = 0
      BY <1>1, <2>1
    <3> QED
      BY <1>1, <2>1, <3>1, SyncedFlat DEF FlatInv
  <2>3. sync'.at # "apply" /\ UNCHANGED <<size, inbox, handler>>
    BY <1>5 DEF SyncApply, NoSync, exchange, link, FlatInv, TypeOK, TaskOK
  <2> QED
    BY <1>2, <2>2, <2>3, QuietFlat DEF FlatInv
<1>6. CASE SyncOrders
  <2>1. machine' = machine \/ machine' = Transition(machine, "sync_complete")
    BY <1>6 DEF SyncOrders, SyncCompleted
  <2>2. <<"reconnecting", "sync_complete", "open">> \in VALID_TRANSITIONS
    BY DEF VALID_TRANSITIONS, From
  <2>3. machine' # machine => CanTransition(machine, "sync_complete")
    BY <1>6, <2>2 DEF SyncOrders, SyncCompleted, CanTransition, PositionStates
  <2>4. machine'.saved # "closed" /\ (machine'.state = "closed" => size = 0)
    BY <1>1, <2>1, <2>3, TransitionFlat DEF FlatInv, ClosedIsFlat
  <2>5. sync'.at # "apply" /\ UNCHANGED <<size, inbox, handler>>
    BY <1>6 DEF SyncOrders, NoSync, exchange, link
  <2> QED
    BY <1>2, <2>4, <2>5, QuietFlat DEF FlatInv
<1>7. CASE GiveUp
  <2>1. sync'.at # "apply" /\ UNCHANGED <<size, inbox, machine, handler>>
    BY <1>7 DEF GiveUp, NoSync, exchange, link, context
  <2> QED
    BY <1>2, <2>1, QuietFlat DEF FlatInv, ClosedIsFlat
<1> QED
  BY <1>3, <1>4, <1>5, <1>6, <1>7 DEF SyncStep

LEMMA StepFlat == N = 0 /\ FlatInv /\ [Next]_vars => FlatInv'
<1> SUFFICES ASSUME N = 0, FlatInv, [Next]_vars PROVE FlatInv'
  OBVIOUS
<1>1. TypeOK'
  BY StepTyped DEF FlatInv
<1>2. CASE \E l \in TpOrders : FillTp(l)
  BY <1>2, FillTpFlat
<1>3. CASE FillSl \/ ManualClose
  BY <1>3, FillSlFlat, ManualCloseFlat
<1>4. CASE StreamStep
  BY <1>4, StreamStepFlat
<1>5. CASE EngineFinish
  BY <1>5 DEF EngineFinish, FlatInv
<1>6. CASE CancelRemainingOrders \/ ReconcilePartialClose
  BY <1>6, CancelRemainingOrdersFlat, ReconcileFlat
<1>7. CASE ExecuteTask \/ RunCallback
  BY <1>7, ExecuteTaskFlat, RunCallbackFlat
<1>8. CASE StartTask \/ StopVanishes \/ WarmUp \/ UNCHANGED vars
  <2>1. UNCHANGED <<size, inbox, machine, handler, sync>>
    BY <1>8 DEF StartTask, StopVanishes, WarmUp, vars, exchange, link, context
  <2> QED
    BY <1>1, <2>1, QuietFlat DEF FlatInv, ClosedIsFlat
<1>9. CASE Hydrate
  <2>1. UNCHANGED <<size, machine, handler, sync>> /\ inbox' = <<>>
    BY <1>9 DEF Hydrate, Restart, exchange, context
  <2> QED
    BY <1>1, <2>1, QuietFlat DEF FlatInv, ClosedIsFlat
<1>10. CASE LoseStream \/ SyncStep
  BY <1>10, LoseStreamFlat, SyncStepFlat
<1> QED
  BY <1>2, <1>3, <1>4, <1>5, <1>6, <1>7, <1>8, <1>9, <1>10 DEF Next, WorkerStep

\* A position with a single take profit is booked as closed only when it is
\* flat, whatever is lost, delayed, reordered or closed by hand.
THEOREM SingleTpClosedIsFlat ==
    ASSUME N = 0
    PROVE  Spec => []ClosedIsFlat
<1>1. Init => FlatInv
  BY InitFlat
<1>2. FlatInv /\ [Next]_vars => FlatInv'
  BY StepFlat
<1>3. FlatInv => ClosedIsFlat
  BY DEF FlatInv
<1> QED
  BY <1>1, <1>2, <1>3, PTL DEF Spec
-----------------------------------------------------------------------------
(* A position with a single take profit is never left without protection.   *)

\* Protection that the queue has still to place: a stop loss, or the close that
\* makes one superfluous.
StopPending == \/ \E t \in tasks : t.kind \in StopKinds
               \/ inFlight.kind \in StopKinds /\ ~placed
ClosePending == \/ Task("emergency_close", 0) \in tasks
                \/ inFlight.kind = "emergency_close" /\ ~placed

\* The inductive invariant, on top of FlatInv: who makes up for a missing stop.
Guarded ==
    /\ handler.at = "cleanup" => size = 0
    /\ qty = 0 => size = 0
    /\ size > 0 /\ ~connected =>
          sync.at = "backoff" \/ (sync.at = "idle" /\ ClosePending)
    /\ size > 0 /\ ~slLive => StopPending \/ ClosePending \/ ~up \/ sync.at # "idle"

LEMMA FlatGuarded == ASSUME FlatInv, size' = 0 PROVE Guarded'
BY DEF Guarded

LEMMA InitGuarded == Init => Guarded
<1> SUFFICES ASSUME Init PROVE Guarded
  OBVIOUS
<1>1. Task("sl", 0) \in tasks /\ Task("sl", 0).kind \in StopKinds
  BY DEF Init, Task, StopKinds
<1>2. size = qty /\ connected = TRUE /\ handler.at # "cleanup"
  BY DEF Init, Idle
<1> QED
  BY <1>1, <1>2 DEF Guarded, StopPending

\* A step that leaves the queue, the stop and the link alone.
LEMMA UnguardedNot ==
    ASSUME FlatInv, Guarded, size' \in Nat, size' <= size,
           UNCHANGED <<connected, up, slLive, handler, tasks, inFlight, placed>>,
           qty' = qty \/ qty' # 0, sync'.at = sync.at
    PROVE  Guarded'
<1>1. size \in Nat
  BY NumbersTyped DEF FlatInv, TypeOK, ExchangeOK
<1>2. /\ size > 0 \/ size = 0
      /\ size = 0 => size' = 0
      /\ size' > 0 => size > 0
  BY <1>1
<1>3. (StopPending' <=> StopPending) /\ (ClosePending' <=> ClosePending)
  BY DEF StopPending, ClosePending
<1> QED
  BY <1>2, <1>3 DEF Guarded

LEMMA ExchangeGuarded ==
    ASSUME N = 0, FlatInv, Guarded,
           FillSl \/ ManualClose \/ StopVanishes \/ \E l \in TpOrders : FillTp(l)
    PROVE  Guarded'
<1>0. size \in Nat
  BY NumbersTyped DEF FlatInv, TypeOK, ExchangeOK
<1>1. CASE FillSl \/ \E l \in TpOrders : FillTp(l)
  <2>1. size' = 0
    BY <1>1 DEF FillSl, FillTp, TpOrders
  <2> QED
    BY <2>1, FlatGuarded
<1>2. CASE ManualClose
  <2>1. PICK c \in ManualCuts \cup {size} : c <= size /\ size' = size - c
    BY <1>2 DEF ManualClose
  <2>2. c \in Nat
    BY <1>0, TrackingAssumption
  <2>3. size' \in Nat /\ size' <= size
    BY <1>0, <2>1, <2>2
  <2>4. UNCHANGED <<connected, up, slLive, handler, tasks, inFlight, placed, qty, sync>>
    BY <1>2 DEF ManualClose, Emit, context, queue
  <2> QED
    BY <2>3, <2>4, UnguardedNot
<1>3. CASE StopVanishes
  <2>1. /\ ~up' /\ UNCHANGED <<size, qty, connected, sync, handler, tasks, inFlight, placed>>
    BY <1>3 DEF StopVanishes, link, queue
  <2> QED
    BY <2>1 DEF Guarded, ClosePending
<1> QED
  BY <1>1, <1>2, <1>3

\* A handler either ignores its message, or the position is flat, or the message
\* says that it is not.
LEMMA StreamGuarded == ASSUME N = 0, FlatInv, Guarded, StreamStep PROVE Guarded'
<1>0. size \in Nat /\ size <= size
  BY NumbersTyped DEF FlatInv, TypeOK, ExchangeOK
<1>1. ASSUME NEW type, Receive(type) PROVE UNCHANGED <<size, connected, up, slLive, sync, inFlight, placed>>
  BY <1>1 DEF Receive, exchange
<1>2. ASSUME NEW type, Receive(type), Ignore PROVE Guarded'
  BY <1>0, <1>1, <1>2, UnguardedNot DEF Ignore, context
<1>3. ASSUME NEW type, Receive(type), size = 0 PROVE Guarded'
  BY <1>1, <1>3, FlatGuarded
<1>4. CASE SuppressOrderUpdate
  BY <1>2, <1>4 DEF SuppressOrderUpdate
<1>5. CASE TpEvent
  BY <1>5 DEF TpEvent
<1>6. CASE SingleTpEvent \/ SlEvent
  <2>1. PICK type \in {"tp", "sl"} : Receive(type)
    BY <1>6 DEF SingleTpEvent, SlEvent
  <2> QED
    BY <1>3, <2>1, ReceiveFlat
<1>7. CASE PositionFlat
  <2>1. Receive("pos") /\ size <= Head(inbox).size /\ Head(inbox).size = 0
    BY <1>7, ReceiveFlat DEF PositionFlat, IsFlat
  <2>2. size = 0
    BY <1>0, <2>1
  <2> QED
    BY <1>3, <2>1, <2>2
<1>8. CASE PositionResized
  <2>1. Receive("pos") /\ qty' # 0 /\ UNCHANGED <<handler, tasks>>
    BY <1>8 DEF PositionResized, IsFlat
  <2> QED
    BY <1>0, <1>1, <2>1, UnguardedNot
<1> QED
  BY <1>4, <1>5, <1>6, <1>7, <1>8 DEF StreamStep

LEMMA WorkerGuarded == ASSUME FlatInv, Guarded, WorkerStep PROVE Guarded'
<1>0. size \in Nat /\ inFlight \in TaskSet \cup {NoTask} /\ tasks \subseteq TaskSet
  BY NumbersTyped DEF FlatInv, TypeOK, ExchangeOK, QueueOK
<1>1. CASE StartTask
  <2>1. PICK t \in tasks : inFlight' = t /\ tasks' = tasks \ {t}
    BY <1>1 DEF StartTask
  <2>2. /\ inFlight = NoTask /\ ~placed'
        /\ UNCHANGED <<size, slLive, connected, up, qty, handler, sync>>
    BY <1>1 DEF StartTask, exchange, link, context
  <2>3. inFlight.kind = "none"
    BY <2>2 DEF NoTask, Task
  <2>4. StopPending => StopPending'
    BY <2>1, <2>2, <2>3 DEF StopPending, StopKinds
  <2>5. Task("emergency_close", 0).kind = "emergency_close"
    BY DEF Task
  <2>6. ClosePending => ClosePending'
    BY <2>1, <2>2, <2>3, <2>5 DEF ClosePending
  <2> QED
    BY <2>2, <2>4, <2>6 DEF Guarded
<1>2. CASE ExecuteTask
  <2>1. UNCHANGED <<qty, handler, sync, tasks>> /\ ~placed
    BY <1>2 DEF ExecuteTask
  <2>2. CASE size' = 0
    BY <2>2, FlatGuarded
  <2>3. CASE size' # 0
    <3>1. /\ inFlight.kind # "emergency_close"
          /\ UNCHANGED <<size, connected, up>>
          /\ \/ inFlight.kind = "tp" /\ UNCHANGED slLive
             \/ slLive' = (slLive \/ inFlight.kind \in StopKinds)
      BY <1>2, <2>3 DEF ExecuteTask, exchange, link
    <3>2. ClosePending => ClosePending'
      BY <2>1, <3>1 DEF ClosePending
    <3>3. StopPending => StopPending' \/ slLive'
      BY <2>1, <3>1 DEF StopPending, StopKinds
    <3>4. slLive => slLive'
      BY <3>1
    <3> QED
      BY <2>1, <3>1, <3>2, <3>3, <3>4 DEF Guarded
  <2> QED
    BY <2>2, <2>3
<1>3. CASE RunCallback
  <2>1. placed /\ UNCHANGED <<size, slLive, connected, up, qty, handler, sync, tasks>>
    BY <1>3 DEF RunCallback, exchange, link
  <2> QED
    BY <2>1 DEF Guarded, StopPending, ClosePending
<1> QED
  BY <1>1, <1>2, <1>3 DEF WorkerStep

LEMMA SyncGuarded ==
    ASSUME FlatInv, Guarded, SyncStep
    PROVE  Guarded'
<1>0. size \in Nat /\ sync.size \in Nat
  BY NumbersTyped DEF FlatInv, TypeOK, ExchangeOK, TaskOK
<1>1. CASE Reconnect
  <2>1. /\ sync'.at = "read" /\ connected' /\ UNCHANGED <<size, handler, qty>>
    BY <1>1 DEF Reconnect, Restart, exchange, context
  <2> QED
    BY <2>1 DEF Guarded
<1>2. CASE SyncRead
  <2>1. /\ sync.at = "read" /\ sync'.at = "apply"
        /\ UNCHANGED <<size, handler, qty, connected>>
    BY <1>2 DEF SyncRead, exchange, context, link
  <2> QED
    BY <2>1 DEF Guarded
<1>3. CASE SyncApply
  <2>1. /\ size <= sync.size /\ qty' = sync.size /\ sync.at = "apply"
        /\ UNCHANGED <<size, handler, connected>>
        /\ sync' = IF sync.size = 0 THEN NoSync ELSE [sync EXCEPT !.at = "orders"]
    BY <1>3 DEF SyncApply, FlatInv, exchange, link
  <2>2. CASE sync.size = 0
    <3>1. size' = 0
      BY <1>0, <2>1, <2>2
    <3> QED
      BY <3>1, FlatGuarded
  <2>3. CASE sync.size # 0
    <3>1. sync'.at = "orders"
      BY <2>1, <2>3 DEF FlatInv, TypeOK, TaskOK
    <3> QED
      BY <2>1, <2>3, <3>1 DEF Guarded
  <2> QED
    BY <2>2, <2>3
<1>4. CASE SyncOrders
  <2>1. /\ UNCHANGED <<size, slLive, qty, handler, connected, up, inFlight, placed>>
        /\ tasks' = IF MissingStop THEN tasks \cup {Task("emergency_sl", 0)} ELSE tasks
        /\ sync.at = "orders"
    BY <1>4 DEF SyncOrders, exchange, link
  <2>2. CASE size = 0
    BY <2>1, <2>2, FlatGuarded
  <2>3. CASE size > 0
    <3>1. connected /\ qty # 0 /\ machine.state # "closed"
      BY <2>1, <2>3 DEF Guarded, FlatInv, ClosedIsFlat
    <3>2. qty > 0
      BY <3>1, NumbersTyped DEF FlatInv, TypeOK, ContextOK
    <3>3. ~slLive => StopPending'
      <4> SUFFICES ASSUME ~slLive PROVE StopPending'
        OBVIOUS
      <4>1. Task("emergency_sl", 0) \in tasks'
        BY <2>1, <3>1, <3>2 DEF MissingStop
      <4>2. Task("emergency_sl", 0).kind \in StopKinds
        BY DEF Task, StopKinds
      <4> QED
        BY <4>1, <4>2 DEF StopPending
    <3> QED
      BY <2>1, <2>3, <3>1, <3>3 DEF Guarded
  <2> QED
    BY <1>0, <2>2, <2>3
<1>5. CASE GiveUp
  <2>1. /\ UNCHANGED <<size, qty, handler>> /\ sync'.at = "idle"
        /\ tasks' = IF qty = 0 \/ machine.state = "closed" THEN tasks
                    ELSE tasks \cup {Task("emergency_close", 0)}
    BY <1>5 DEF GiveUp, exchange, context, NoSync
  <2>2. CASE size = 0
    BY <2>1, <2>2, FlatGuarded
  <2>3. CASE size > 0
    <3>1. qty # 0 /\ machine.state # "closed"
      BY <2>3 DEF Guarded, FlatInv, ClosedIsFlat
    <3>2. ClosePending'
      BY <2>1, <3>1 DEF ClosePending
    <3> QED
      BY <2>1, <2>3, <3>1, <3>2 DEF Guarded
  <2> QED
    BY <1>0, <2>2, <2>3
<1> QED
  BY <1>1, <1>2, <1>3, <1>4, <1>5 DEF SyncStep

LEMMA LinkGuarded ==
    ASSUME FlatInv, Guarded, LoseStream \/ WarmUp \/ Hydrate
    PROVE  Guarded'
<1>0. size \in Nat /\ size <= size
  BY NumbersTyped DEF FlatInv, TypeOK, ExchangeOK
<1>1. CASE LoseStream
  <2>1. ~up' /\ UNCHANGED <<size, handler, tasks, inFlight, placed>>
    BY <1>1 DEF LoseStream, exchange, queue
  <2>2. \/ UNCHANGED <<sync, connected>>
        \/ sync' = [sync EXCEPT !.at = "backoff"]
    BY <1>1 DEF LoseStream
  <2>3. sync' = [sync EXCEPT !.at = "backoff"] => sync'.at = "backoff"
    BY DEF FlatInv, TypeOK, TaskOK
  <2>4. qty' = qty \/ qty' = size
    BY <1>1 DEF LoseStream, AttemptStateSync
  <2>5. ClosePending' <=> ClosePending
    BY <2>1 DEF ClosePending
  <2>6. /\ handler'.at = "cleanup" => size' = 0
        /\ qty' = 0 => size' = 0
    BY <2>1, <2>4 DEF Guarded
  <2>7. size' > 0 /\ ~connected' =>
           sync'.at = "backoff" \/ (sync'.at = "idle" /\ ClosePending')
    BY <2>1, <2>2, <2>3, <2>5 DEF Guarded
  <2> QED
    BY <2>1, <2>6, <2>7 DEF Guarded
<1>2. CASE WarmUp
  <2>1. UNCHANGED <<size, connected, up, slLive, handler, tasks, inFlight, placed, qty, sync>>
    BY <1>2 DEF WarmUp, exchange, context, queue
  <2> QED
    BY <1>0, <2>1, UnguardedNot
<1>3. CASE Hydrate
  <2>1. /\ UNCHANGED <<size, slLive, qty, handler, sync, tasks, inFlight, placed>>
        /\ connected' /\ ~connected /\ sync.at = "idle"
    BY <1>3 DEF Hydrate, Restart, exchange, context, queue
  <2>2. size > 0 => ClosePending'
    BY <2>1 DEF Guarded, ClosePending
  <2> QED
    BY <2>1, <2>2 DEF Guarded
<1> QED
  BY <1>1, <1>2, <1>3

LEMMA StepGuarded == N = 0 /\ FlatInv /\ Guarded /\ [Next]_vars => Guarded'
<1> SUFFICES ASSUME N = 0, FlatInv, Guarded, [Next]_vars PROVE Guarded'
  OBVIOUS
<1>0. size \in Nat /\ size <= size
  BY NumbersTyped DEF FlatInv, TypeOK, ExchangeOK
<1>1. CASE FillSl \/ ManualClose \/ StopVanishes \/ \E l \in TpOrders : FillTp(l)
  BY <1>1, ExchangeGuarded
<1>2. CASE StreamStep
  BY <1>2, StreamGuarded
<1>3. CASE EngineFinish
  BY <1>3 DEF EngineFinish, FlatInv
<1>4. CASE CancelRemainingOrders
  <2>1. size' = 0
    BY <1>4 DEF CancelRemainingOrders, Guarded
  <2> QED
    BY <2>1, FlatGuarded
<1>5. CASE ReconcilePartialClose \/ UNCHANGED vars
  <2>1. UNCHANGED <<context, handler>>
    BY <1>5 DEF ReconcilePartialClose, ClosestOpenLevel, Levels, vars
  <2>2. UNCHANGED <<size, connected, up, slLive, handler, tasks, inFlight, placed, qty, sync>>
    BY <1>5, <2>1 DEF ReconcilePartialClose, vars, exchange, link, context, queue
  <2> QED
    BY <1>0, <2>2, UnguardedNot
<1>6. CASE WorkerStep
  BY <1>6, WorkerGuarded
<1>7. CASE LoseStream \/ WarmUp \/ Hydrate
  BY <1>7, LinkGuarded
<1>8. CASE SyncStep
  BY <1>8, SyncGuarded
<1> QED
  BY <1>1, <1>2, <1>3, <1>4, <1>5, <1>6, <1>7, <1>8 DEF Next

\* A live position with a single take profit has a stop loss once everything has
\* settled, whichever REST calls fail, however often the stream is lost and
\* whatever the exchange dropped meanwhile.
THEOREM SingleTpProtected ==
    ASSUME N = 0
    PROVE  Spec => []OpenIsProtected
<1>1. Init => FlatInv /\ Guarded
  BY InitFlat, InitGuarded
<1>2. FlatInv /\ Guarded /\ [Next]_vars => (FlatInv /\ Guarded)'
  BY StepFlat, StepGuarded
<1>3. FlatInv /\ Guarded => OpenIsProtected
  BY DEF Guarded, StopPending, ClosePending, OpenIsProtected, Settled, Quiet, NoTask, Task,
         StopKinds
<1> QED
  BY <1>1, <1>2, <1>3, PTL DEF Spec
-----------------------------------------------------------------------------
(* A ladder of take profits in a calm environment.                          *)

\* R[l] units are left once level l has closed: the levels close exactly the
\* position, and no two of them but the last close the same quantity.  No call
\* fails, no stream is lost, a fill's order events come before its position
\* event, and the user closes everything or nothing.
CalmLadder(R) ==
    /\ R \in [0 .. N -> Nat]
    /\ R[0] = Original /\ R[N] = 0
    /\ \A l \in Levels : R[l] = R[l - 1] - Close[l]
    /\ \A k, l \in 1 .. N - 1 : Close[k] = Close[l] => k = l
    /\ Faults = {} /\ ManualCuts = {} /\ MaxLosses = 0
    /\ Deliveries \subseteq {<<"o", "p">>, <<"o", "o", "p">>}

HasMinimal(T) == \E U \in T : \A V \in T : V \subseteq U => V = U

\* Induction over the subsets of a finite set: a collection of them has a least one.
LEMMA MinimalSubset ==
    ASSUME NEW S, NEW T, IsFiniteSet(S), T \subseteq SUBSET S, T # {}
    PROVE  HasMinimal(T)
<1>1. IsWellFoundedOn(StrictSubsetOrdering(S), SUBSET S)
  BY FS_StrictSubsetOrderingWellFounded, FS_FiniteSubsetsOfFinite
<1>2. \E U \in T : \A V \in T : ~(<<V, U>> \in StrictSubsetOrdering(S))
  BY <1>1, WFMin
<1>3. \A U, V \in SUBSET S : V \subseteq U /\ V # U => <<V, U>> \in StrictSubsetOrdering(S)
  BY DEF StrictSubsetOrdering
<1> QED
  BY <1>2, <1>3 DEF HasMinimal

HasLeast(S) == \E x \in S : \A y \in S : x <= y

LEMMA LeastLevel ==
    ASSUME NEW S \in SUBSET Levels, S # {}
    PROVE  HasLeast(S)
<1>0. IsFiniteSet(S) /\ S \subseteq Int
  <2>1. IsFiniteSet(1 .. N)
    BY NumbersTyped, FS_Interval
  <2>2. S \subseteq 1 .. N
    BY DEF Levels
  <2>3. IsFiniteSet(S)
    BY <2>1, <2>2, FS_Subset
  <2>4. S \subseteq Int
    BY NumbersTyped
  <2> QED
    BY <2>3, <2>4
<1> DEFINE T == {U \in SUBSET S : U # {} /\ ~HasLeast(U)}
<1> SUFFICES ASSUME T # {} PROVE FALSE
  OBVIOUS
<1>1. PICK U \in T : \A V \in T : V \subseteq U => V = U
  <2>1. T \subseteq SUBSET S
    OBVIOUS
  <2> HIDE DEF T
  <2>2. HasMinimal(T)
    BY <1>0, <2>1, MinimalSubset
  <2> QED
    BY <2>2 DEF HasMinimal
<1>2. U # {} /\ U \subseteq Int /\ U \subseteq S /\ ~HasLeast(U)
  BY <1>0, <1>1
<1>3. PICK x \in U : x \in Int
  BY <1>2
<1>4. CASE U \ {x} = {}
  <2>1. \A y \in U : x <= y
    BY <1>3, <1>4
  <2> QED
    BY <1>2, <1>3, <2>1 DEF HasLeast
<1>5. CASE U \ {x} # {}
  <2>1. U \ {x} \notin T
    BY <1>1, <1>3
  <2>2. HasLeast(U \ {x})
    BY <1>2, <1>5, <2>1
  <2>3. PICK m \in U \ {x} : \A y \in U \ {x} : m <= y
    BY <2>2 DEF HasLeast
  <2>4. m \in Int
    BY <1>2
  <2>5. CASE m <= x
    <3>1. \A y \in U : m <= y
      BY <2>3, <2>5
    <3> QED
      BY <1>2, <2>3, <3>1 DEF HasLeast
  <2>6. CASE ~(m <= x)
    <3>1. \A y \in U : x <= y
      BY <1>2, <1>3, <2>3, <2>4, <2>6
    <3> QED
      BY <1>2, <1>3, <3>1 DEF HasLeast
  <2> QED
    BY <2>5, <2>6
<1> QED
  BY <1>4, <1>5

\* Every level takes something off.
LEMMA RestFalls ==
    ASSUME NEW R, CalmLadder(R), NEW k \in 0 .. N, NEW l \in 0 .. N, k < l
    PROVE  R[l] < R[k]
<1> DEFINE S == {i \in Levels : k < i /\ ~(R[i] < R[k])}
<1> SUFFICES ASSUME S # {} PROVE FALSE
  BY NumbersTyped DEF Levels
<1>1. PICK i \in S : \A j \in S : i <= j
  <2>1. S \in SUBSET Levels
    OBVIOUS
  <2> HIDE DEF S
  <2>2. HasLeast(S)
    BY <2>1, LeastLevel
  <2> QED
    BY <2>2 DEF HasLeast
<1>2. i \in Levels /\ i \in Int /\ i - 1 \in 0 .. N /\ i \in 0 .. N /\ k < i /\ ~(R[i] < R[k])
  BY <1>1, NumbersTyped DEF Levels
<1>3. R[i] \in Nat /\ R[i - 1] \in Nat /\ R[k] \in Nat /\ R[i] = R[i - 1] - Close[i]
  BY <1>2 DEF CalmLadder
<1>4. Close[i] \in Nat \ {0}
  BY <1>2, TrackingAssumption DEF Levels, N
<1>5. R[i] < R[i - 1]
  BY <1>3, <1>4
<1>6. CASE i - 1 = k
  BY <1>2, <1>5, <1>6
<1>7. CASE i - 1 # k
  <2>1. i - 1 \in Levels /\ k < i - 1
    BY <1>2, <1>7, NumbersTyped DEF Levels
  <2>2. R[i - 1] < R[k]
    BY <1>1, <1>2, <2>1
  <2> QED
    BY <1>2, <1>3, <1>5, <2>2
<1> QED
  BY <1>6, <1>7

\* What the ladder's arithmetic comes to.
LEMMA RestFacts ==
    ASSUME NEW R, CalmLadder(R)
    PROVE  /\ N \in Nat /\ N > 0 /\ Levels = 1 .. N /\ TpOrders = Levels
           /\ \A l \in 0 .. N : R[l] \in Nat
           /\ \A k, l \in 0 .. N : R[k] = R[l] => k = l
           /\ R[N] = 0 /\ \A l \in 0 .. N : R[l] = 0 => l = N
           /\ \A l \in Levels : Close[l] \in Nat /\ Close[l] > 0 /\ Close[l] <= R[l - 1]
           /\ \A l \in Levels : R[l] = R[l - 1] - Close[l] /\ R[l] < R[l - 1]
<1>1. N \in Nat /\ Levels = 1 .. N
  BY NumbersTyped DEF Levels
<1>2. N > 0
  BY <1>1, TrackingAssumption DEF CalmLadder
<1>3. \A l \in 0 .. N : R[l] \in Nat
  BY DEF CalmLadder
<1>4. ASSUME NEW k \in 0 .. N, NEW l \in 0 .. N, R[k] = R[l]
      PROVE  k = l
  <2>1. k < l => R[l] < R[k]
    BY RestFalls
  <2>2. l < k => R[k] < R[l]
    BY RestFalls
  <2> QED
    BY <1>1, <1>3, <1>4, <2>1, <2>2
<1>5. R[N] = 0 /\ N \in 0 .. N
  BY <1>1 DEF CalmLadder
<1>6. ASSUME NEW l \in Levels
      PROVE  /\ Close[l] \in Nat /\ Close[l] > 0 /\ Close[l] <= R[l - 1]
             /\ R[l] = R[l - 1] - Close[l] /\ R[l] < R[l - 1]
  <2>1. l - 1 \in 0 .. N /\ l \in 0 .. N
    BY <1>1
  <2>2. R[l] \in Nat /\ R[l - 1] \in Nat /\ R[l] = R[l - 1] - Close[l]
    BY <1>3, <2>1 DEF CalmLadder
  <2>3. Close[l] \in Nat \ {0}
    BY TrackingAssumption DEF Levels, N
  <2> QED
    BY <2>2, <2>3
<1>7. TpOrders = Levels
  BY <1>2 DEF TpOrders
<1> QED
  BY <1>1, <1>2, <1>3, <1>4, <1>5, <1>6, <1>7

\* A level takes its own quantity off, the last one whatever is left.
LEMMA BookLevel ==
    ASSUME NEW R, CalmLadder(R), NEW l \in Levels
    PROVE  Cut(R[l - 1], CloseQty(l, R[l - 1])) = R[l]
<1>1. CASE l = N
  <2>1. R[l - 1] \in Nat /\ R[l] = 0
    BY <1>1, RestFacts
  <2> QED
    BY <1>1, <2>1 DEF Cut, CloseQty
<1>2. CASE l # N
  <2>1. R[l - 1] \in Nat /\ R[l] \in Nat /\ Close[l] \in Nat /\ R[l] = R[l - 1] - Close[l]
    BY RestFacts
  <2> QED
    BY <1>2, <2>1 DEF Cut, CloseQty
<1> QED
  BY <1>1, <1>2

-----------------------------------------------------------------------------
(* The two states a calm ladder's machine is ever in. *)

Opened == [state |-> "open", saved |-> NoSavedState]
Shut == [state |-> "closed", saved |-> NoSavedState]
Closing == [state |-> "closing", saved |-> NoSavedState]

LEMMA TableRows ==
    /\ \A t \in {"sl_triggered", "tp_triggered", "partial_close", "manual_close"}, s \in PositionStates :
          <<"open", t, s>> \in VALID_TRANSITIONS <=> s = "closing"
    /\ \A s \in PositionStates : <<"closing", "all_closed", s>> \in VALID_TRANSITIONS <=> s = "closed"
    /\ \A s \in PositionStates : <<"closing", "partial_close", s>> \in VALID_TRANSITIONS <=> s = "open"
    /\ \A s : <<"open", "all_closed", s>> \notin VALID_TRANSITIONS
    /\ \A s : <<"open", "adjustment_complete", s>> \notin VALID_TRANSITIONS
    /\ \A t, s : <<"closed", t, s>> \notin VALID_TRANSITIONS
BY DEF VALID_TRANSITIONS, From, PositionStates

LEMMA OpenedCloses ==
    ASSUME NEW t \in {"sl_triggered", "tp_triggered", "partial_close", "manual_close"}
    PROVE  CanTransition(Opened, t) /\ Transition(Opened, t) = Closing /\ TryTransition(Opened, t) = Closing
<1>1. \A s \in PositionStates : <<Opened.state, t, s>> \in VALID_TRANSITIONS <=> s = "closing"
  BY TableRows DEF Opened
<1>2. "closing" \in PositionStates
  BY DEF PositionStates
<1>3. CanTransition(Opened, t)
  BY <1>1, <1>2 DEF CanTransition
<1>4. (CHOOSE s \in PositionStates : <<Opened.state, t, s>> \in VALID_TRANSITIONS) = "closing"
  BY <1>1, <1>2
<1>5. [Opened EXCEPT !.state = "closing"] = Closing
  BY DEF Opened, Closing
<1>6. Transition(Opened, t) = Closing
  BY <1>4, <1>5 DEF Transition
<1> QED
  BY <1>3, <1>6 DEF TryTransition

LEMMA ClosingEnds ==
    /\ CanTransition(Closing, "all_closed") /\ Transition(Closing, "all_closed") = Shut
    /\ TryTransition(Closing, "partial_close") = Opened
<1>1. /\ \A s \in PositionStates : <<Closing.state, "all_closed", s>> \in VALID_TRANSITIONS <=> s = "closed"
      /\ \A s \in PositionStates : <<Closing.state, "partial_close", s>> \in VALID_TRANSITIONS <=> s = "open"
  BY TableRows DEF Closing
<1>2. "closed" \in PositionStates /\ "open" \in PositionStates
  BY DEF PositionStates
<1>3. CanTransition(Closing, "all_closed") /\ CanTransition(Closing, "partial_close")
  BY <1>1, <1>2 DEF CanTransition
<1>4. (CHOOSE s \in PositionStates : <<Closing.state, "all_closed", s>> \in VALID_TRANSITIONS) = "closed"
  BY <1>1, <1>2
<1>5. (CHOOSE s \in PositionStates : <<Closing.state, "partial_close", s>> \in VALID_TRANSITIONS) = "open"
  BY <1>1, <1>2
<1>6. [Closing EXCEPT !.state = "closed"] = Shut /\ [Closing EXCEPT !.state = "open"] = Opened
  BY DEF Closing, Shut, Opened
<1>7. Transition(Closing, "all_closed") = Shut
  BY <1>4, <1>6 DEF Transition
<1>8. Transition(Closing, "partial_close") = Opened
  BY <1>5, <1>6 DEF Transition
<1> QED
  BY <1>3, <1>7, <1>8 DEF TryTransition

LEMMA ShutStays ==
    ASSUME NEW t
    PROVE  ~CanTransition(Shut, t) /\ TryTransition(Shut, t) = Shut
BY TableRows DEF CanTransition, TryTransition, Shut

\* The engine's two transitions, and the stop loss adjustment's.
LEMMA MachineFacts ==
    /\ AllClosed(Opened) = Shut /\ AllClosed(Shut) = Shut
    /\ PartialClose(Opened) = Opened
    /\ TryTransition(Opened, "adjustment_complete") = Opened
    /\ TryTransition(Shut, "adjustment_complete") = Shut
<1>1. ~CanTransition(Opened, "all_closed") /\ ~CanTransition(Opened, "adjustment_complete")
  BY TableRows DEF CanTransition, Opened
<1>2. AllClosed(Opened) = Shut
  BY <1>1, OpenedCloses, ClosingEnds DEF AllClosed
<1>3. AllClosed(Shut) = Shut
  BY ShutStays DEF AllClosed
<1>4. PartialClose(Opened) = Opened
  <2>1. CanTransition(Opened, "partial_close") /\ Transition(Opened, "partial_close") = Closing
    BY OpenedCloses
  <2>2. Closing.state = "closing"
    BY DEF Closing
  <2> QED
    BY <2>1, <2>2, ClosingEnds DEF PartialClose
<1> QED
  BY <1>1, <1>2, <1>3, <1>4, ShutStays DEF TryTransition

LEMMA MachinesDiffer == Opened # Shut /\ Opened.state = "open" /\ Shut.state = "closed"
<1>1. Opened.state = "open" /\ Shut.state = "closed"
  BY DEF Opened, Shut
<1> QED
  BY <1>1
-----------------------------------------------------------------------------
(* The inductive invariant of a calm ladder: what is on its way, which levels *)
(* have filled, and what the tracker has booked of them.                      *)

CalmLink == up /\ warm /\ connected /\ sync = NoSync

NoEmergency == /\ \A t \in tasks : t.kind # "emergency_close"
               /\ inFlight.kind # "emergency_close"

Placing(l) == inFlight = Task("tp", l) /\ ~placed

\* The exchange has closed the first f levels, or everything; the orders of the
\* others are live, executing or waiting, in this order.
Ladders(R, f) ==
    /\ size \in {0, R[f]}
    /\ tpLive \subseteq f + 1 .. N
    /\ \A l \in Levels : Task("tp", l) \in tasks \/ Placing(l) => l > f /\ \A k \in tpLive : k < l
    /\ \A l, k \in Levels : Placing(l) /\ Task("tp", k) \in tasks => l < k
    /\ size > 0 => \A l \in f + 1 .. N : l \in tpLive \/ Placing(l) \/ Task("tp", l) \in tasks

\* The stop loss filled, or nothing is left.
Empties(m) == m.type = "sl" \/ (m.type = "pos" /\ m.size = 0)

\* Message k may come right behind message m.
Follows(R, m, k) ==
    \/ m.type = "tp" /\ k.type = "tp" /\ k.level = m.level
    \/ m.type = "tp" /\ k.type = "pos" /\ k.size = R[m.level]
    \/ m.type = "pos" /\ m.size # 0 /\ k.type = "tp" /\ R[k.level - 1] = m.size
    \/ m.type = "pos" /\ m.size # 0 /\ Empties(k)
    \/ m.type = "sl" /\ Empties(k)

Flattening(m) == Empties(m) \/ (m.type = "tp" /\ m.level = N)

\* The messages s tell how the position came down to z units.
TellsOf(R, s, z) ==
    /\ \A i \in 1 .. Len(s) - 1 : Follows(R, s[i], s[i + 1])
    /\ \A i \in 1 .. Len(s) : s[i].type = "tp" => s[i].level \in Levels
    /\ \A i \in 1 .. Len(s) : Flattening(s[i]) => z = 0
    /\ s # <<>> => s[Len(s)].type = "pos" /\ s[Len(s)].size = z

\* What may come next when the first b levels are booked, `done' by their events:
\* an echo, the next
\* level, the size after either, or the end.
Due(R, b, done, m) ==
    \/ m.type = "tp" /\ m.level = b /\ b \in done
    \/ m.type = "tp" /\ m.level = b + 1
    \/ m.type = "pos" /\ m.size = R[b]
    \/ m.type = "pos" /\ b < N /\ m.size = R[b + 1]
    \/ Empties(m)

\* The tracker has booked the first b levels, or learnt their size.
Booked(R, b) ==
    /\ qty = R[b]
    /\ machine = Opened
    /\ handler.at # "cleanup"
    /\ dispatched \subseteq 1 .. b
    /\ \A l \in Levels : status[l] # "cancelled" /\ (status[l] = "triggered" => l \in dispatched)
    /\ inbox # <<>> => Due(R, b, dispatched, Head(inbox))
    /\ inbox = <<>> => size = qty
    /\ reconciler # 0 => \E r \in 1 .. b : r < N /\ Close[r] = reconciler /\ r \notin dispatched

\* The tracker knows that nothing is left.
Ended ==
    /\ qty = 0 /\ size = 0
    /\ machine = Opened => handler.at = "engine" /\ handler.by = "stream"
    /\ machine \in {Opened, Shut}
    /\ inbox # <<>> => \/ Empties(Head(inbox))
                       \/ Head(inbox).type = "tp" /\ Head(inbox).level = N /\ N \in dispatched
    /\ machine = Shut /\ handler.at # "cleanup" => tpLive = {} /\ ~slLive

Books(R) == IF qty = 0 THEN Ended ELSE \E b \in 0 .. N : Booked(R, b)

LadderInv(R) ==
    /\ TypeOK /\ CalmLink /\ NoEmergency
    /\ TellsOf(R, inbox, size)
    /\ \E f \in 0 .. N : Ladders(R, f)
    /\ Books(R)

-----------------------------------------------------------------------------
(* Messages. *)

\* The messages about a fill: one or two order events, then the position event.
LEMMA FillMessages ==
    ASSUME NEW R, CalmLadder(R), NEW type, NEW l, NEW z, NEW m \in FillEvents(type, l, z)
    PROVE  /\ Len(m) \in {2, 3} /\ DOMAIN m = 1 .. Len(m)
           /\ \A i \in 1 .. Len(m) - 1 : m[i].type = type /\ m[i].level = l
           /\ m[Len(m)].type = "pos" /\ m[Len(m)].size = z
<1>1. PICK d \in Deliveries, a \in Addressed :
        m = [i \in DOMAIN d |-> IF d[i] = "o" THEN OrderEvent(type, l, a) ELSE PositionEvent(z)]
  BY DEF FillEvents
<1>2. d = <<"o", "p">> \/ d = <<"o", "o", "p">>
  BY DEF CalmLadder
<1>3. /\ OrderEvent(type, l, a).type = type /\ OrderEvent(type, l, a).level = l
      /\ PositionEvent(z).type = "pos" /\ PositionEvent(z).size = z
  BY DEF OrderEvent, PositionEvent
<1>4. CASE d = <<"o", "p">>
  <2>1. m = <<OrderEvent(type, l, a), PositionEvent(z)>>
    BY <1>1, <1>4
  <2> QED
    BY <1>3, <2>1
<1>5. CASE d = <<"o", "o", "p">>
  <2>1. m = <<OrderEvent(type, l, a), OrderEvent(type, l, a), PositionEvent(z)>>
    BY <1>1, <1>5
  <2> QED
    BY <1>3, <2>1
<1> QED
  BY <1>2, <1>4, <1>5

\* New messages that take up where the old ones ended.
LEMMA EmitTold ==
    ASSUME NEW R, TypeOK, CalmLink, TellsOf(R, inbox, size), size > 0,
           NEW m \in Seq(Message), m # <<>>, Emit(m), NEW z, z = size', TellsOf(R, m, z),
           \A k \in Message : k.type = "pos" /\ k.size = size => Follows(R, k, m[1])
    PROVE  /\ TellsOf(R, inbox', z)
           /\ UNCHANGED <<up, warm, connected>>
           /\ inbox' # <<>>
           /\ Head(inbox') = IF inbox = <<>> THEN m[1] ELSE Head(inbox)
<1> DEFINE s == inbox'
<1>1. inbox \in Seq(Message) /\ size \in Nat
  BY NumbersTyped DEF TypeOK, LinkOK, ExchangeOK
<1>2. s = inbox \o m
  BY DEF Emit, CalmLink
<1>3. /\ Len(s) = Len(inbox) + Len(m) /\ Len(m) \in Nat /\ Len(m) > 0 /\ Len(inbox) \in Nat
      /\ \A i \in 1 .. Len(inbox) : s[i] = inbox[i]
      /\ \A i \in Len(inbox) + 1 .. Len(s) :
           s[i] = m[i - Len(inbox)] /\ i - Len(inbox) \in 1 .. Len(m)
  BY <1>1, <1>2
<1> HIDE DEF s
<1>4. ASSUME NEW i \in 1 .. Len(s) - 1
      PROVE  Follows(R, s[i], s[i + 1])
  <2>1. CASE i < Len(inbox)
    <3>1. i \in 1 .. Len(inbox) - 1 /\ s[i] = inbox[i] /\ s[i + 1] = inbox[i + 1]
      BY <1>3, <1>4, <2>1
    <3> QED
      BY <3>1 DEF TellsOf
  <2>2. CASE i = Len(inbox)
    <3>1. s[i] = inbox[Len(inbox)] /\ s[i + 1] = m[1] /\ inbox # <<>>
      BY <1>1, <1>3, <1>4, <2>2
    <3>2. inbox[Len(inbox)] \in Message /\ inbox[Len(inbox)].type = "pos"
          /\ inbox[Len(inbox)].size = size
      BY <1>1, <1>3, <1>4, <2>2, <3>1 DEF TellsOf
    <3> QED
      BY <3>1, <3>2
  <2>3. CASE i > Len(inbox)
    <3>1. /\ i - Len(inbox) \in 1 .. Len(m) - 1
          /\ s[i] = m[i - Len(inbox)] /\ s[i + 1] = m[(i - Len(inbox)) + 1]
      <4>1. i + 1 \in Len(inbox) + 1 .. Len(s) /\ i \in Len(inbox) + 1 .. Len(s)
        BY <1>3, <1>4, <2>3
      <4>2. (i + 1) - Len(inbox) = (i - Len(inbox)) + 1
        BY <1>3, <1>4
      <4> QED
        BY <1>3, <1>4, <2>3, <4>1, <4>2
    <3> QED
      BY <3>1 DEF TellsOf
  <2> QED
    BY <1>3, <2>1, <2>2, <2>3
<1>5. ASSUME NEW i \in 1 .. Len(s)
      PROVE  (s[i].type = "tp" => s[i].level \in Levels) /\ (Flattening(s[i]) => z = 0)
  <2>1. CASE i \in 1 .. Len(inbox)
    BY <1>1, <1>3, <2>1 DEF TellsOf
  <2>2. CASE i \in Len(inbox) + 1 .. Len(s)
    BY <1>3, <2>2 DEF TellsOf
  <2> QED
    BY <1>3, <1>5, <2>1, <2>2
<1>6. s[Len(s)].type = "pos" /\ s[Len(s)].size = z
  <2>1. Len(s) \in Len(inbox) + 1 .. Len(s) /\ Len(s) - Len(inbox) = Len(m)
    BY <1>3
  <2>2. s[Len(s)] = m[Len(m)]
    BY <1>3, <2>1
  <2> QED
    BY <2>2 DEF TellsOf
<1>7. TellsOf(R, s, z)
  BY <1>4, <1>5, <1>6 DEF TellsOf
<1>8. s # <<>> /\ Head(s) = IF inbox = <<>> THEN m[1] ELSE Head(inbox)
  BY <1>1, <1>2, <1>3 DEF s
<1> QED
  BY <1>7, <1>8 DEF s, Emit, CalmLink

\* The head of the inbox, and what is behind it.
LEMMA ReceiveTold ==
    ASSUME NEW R, TypeOK, CalmLink, TellsOf(R, inbox, size), NEW type, Receive(type)
    PROVE  /\ Head(inbox) \in Message /\ Head(inbox).type = type /\ handler = Idle
           /\ type = "tp" => Head(inbox).level \in Levels
           /\ Flattening(Head(inbox)) => size = 0
           /\ inbox' = <<>> => type = "pos" /\ Head(inbox).size = size
           /\ inbox' # <<>> => /\ Follows(R, Head(inbox), Head(inbox'))
                               /\ Head(inbox') \in Message
                               /\ Head(inbox').type = "tp" => Head(inbox').level \in Levels
           /\ TellsOf(R, inbox', size)
           /\ UNCHANGED <<size, tpLive, slLive, up, warm, connected, sync, inFlight, placed>>
<1> DEFINE s == inbox'
<1>1. inbox \in Seq(Message) /\ inbox # <<>> /\ s = Tail(inbox) /\ Head(inbox).type = type
  BY DEF Receive, TypeOK, LinkOK
<1>2. /\ Head(inbox) = inbox[1] /\ 1 \in 1 .. Len(inbox) /\ Head(inbox) \in Message
      /\ Len(s) = Len(inbox) - 1 /\ Len(inbox) \in Nat /\ s \in Seq(Message)
      /\ \A i \in 1 .. Len(s) : s[i] = inbox[i + 1] /\ i + 1 \in 1 .. Len(inbox)
  BY <1>1
<1>3. handler = Idle
      /\ UNCHANGED <<size, tpLive, slLive, up, warm, connected, sync, inFlight, placed>>
  BY DEF Receive, exchange
<1> HIDE DEF s
<1>4. (type = "tp" => Head(inbox).level \in Levels) /\ (Flattening(Head(inbox)) => size = 0)
  BY <1>1, <1>2 DEF TellsOf
<1>5. CASE s = <<>>
  <2>1. Len(inbox) = 1
    BY <1>2, <1>5
  <2>2. type = "pos" /\ Head(inbox).size = size
    BY <1>1, <1>2, <2>1 DEF TellsOf
  <2>3. TellsOf(R, s, size)
    BY <1>5 DEF TellsOf
  <2> QED
    BY <1>1, <1>2, <1>3, <1>4, <1>5, <2>2, <2>3 DEF s
<1>6. CASE s # <<>>
  <2>1. Len(s) \in Nat /\ Len(s) > 0 /\ Head(s) = s[1] /\ 1 \in 1 .. Len(s) /\ Head(s) \in Message
    BY <1>2, <1>6
  <2>2. Head(s) = inbox[2] /\ 1 \in 1 .. Len(inbox) - 1 /\ 2 \in 1 .. Len(inbox)
    BY <1>2, <2>1
  <2>3. Follows(R, Head(inbox), Head(s)) /\ (Head(s).type = "tp" => Head(s).level \in Levels)
    BY <1>2, <2>2 DEF TellsOf
  <2>4. ASSUME NEW i \in 1 .. Len(s) - 1
        PROVE  Follows(R, s[i], s[i + 1])
    <3>1. i + 1 \in 1 .. Len(inbox) - 1 /\ s[i] = inbox[i + 1] /\ s[i + 1] = inbox[(i + 1) + 1]
      BY <1>2, <2>1, <2>4
    <3> QED
      BY <3>1 DEF TellsOf
  <2>5. \A i \in 1 .. Len(s) : (s[i].type = "tp" => s[i].level \in Levels)
                               /\ (Flattening(s[i]) => size = 0)
    BY <1>2 DEF TellsOf
  <2>6. s[Len(s)].type = "pos" /\ s[Len(s)].size = size
    <3>1. s[Len(s)] = inbox[Len(inbox)]
      BY <1>2, <2>1
    <3> QED
      BY <1>1, <3>1 DEF TellsOf
  <2>7. TellsOf(R, s, size)
    BY <2>4, <2>5, <2>6 DEF TellsOf
  <2> QED
    BY <1>1, <1>2, <1>3, <1>4, <1>6, <2>1, <2>3, <2>7 DEF s
<1> QED
  BY <1>5, <1>6
-----------------------------------------------------------------------------
(* What a step leaves alone. *)

LEMMA LaddersKept ==
    ASSUME NEW R, NEW f \in 0 .. N, Ladders(R, f), size \in Nat,
           UNCHANGED <<inFlight, placed>>, size' \in {size, 0}, tpLive' \subseteq tpLive,
           \A l \in Levels : Task("tp", l) \in tasks' => Task("tp", l) \in tasks,
           size' > 0 => /\ tpLive' = tpLive
                        /\ \A l \in Levels : Task("tp", l) \in tasks => Task("tp", l) \in tasks'
    PROVE  Ladders(R, f)'
<1>1. \A l \in Levels : Placing(l)' <=> Placing(l)
  BY DEF Placing
<1>2. size' \in {0, R[f]} /\ tpLive' \subseteq f + 1 .. N
  BY DEF Ladders
<1>3. \A l \in Levels : Task("tp", l) \in tasks' \/ Placing(l)' => l > f /\ \A k \in tpLive' : k < l
  BY <1>1 DEF Ladders
<1>4. \A l, k \in Levels : Placing(l)' /\ Task("tp", k) \in tasks' => l < k
  BY <1>1 DEF Ladders
<1>5. size' > 0 => \A l \in f + 1 .. N : l \in tpLive' \/ Placing(l)' \/ Task("tp", l) \in tasks'
  <2> SUFFICES ASSUME size' > 0, NEW l \in f + 1 .. N
               PROVE  l \in tpLive' \/ Placing(l)' \/ Task("tp", l) \in tasks'
    OBVIOUS
  <2>1. size > 0 /\ l \in Levels
    BY NumbersTyped DEF Levels
  <2> QED
    BY <1>1, <2>1 DEF Ladders
<1> QED
  BY <1>2, <1>3, <1>4, <1>5 DEF Ladders

LEMMA BooksKept ==
    ASSUME NEW R, Books(R), UNCHANGED <<size, tpLive, slLive, inbox, machine, qty, dispatched,
                                        handler, reconciler>>,
           \A l \in Levels : status'[l] # "cancelled" \/ status'[l] = status[l],
           \A l \in Levels : status'[l] = "triggered" => status[l] = "triggered"
    PROVE  Books(R)'
<1>1. CASE qty = 0
  BY <1>1 DEF Books, Ended
<1>2. CASE qty # 0
  <2>1. PICK b \in 0 .. N : Booked(R, b)
    BY <1>2 DEF Books
  <2>2. \A l \in Levels : status'[l] # "cancelled" /\ (status'[l] = "triggered" => l \in dispatched)
    BY <2>1 DEF Booked
  <2>3. Booked(R, b)'
    BY <2>1, <2>2 DEF Booked, Due
  <2> QED
    BY <1>2, <2>3 DEF Books
<1> QED
  BY <1>1, <1>2

LEMMA EmergencyNot ==
    ASSUME NoEmergency, tasks' \subseteq tasks \cup {Task("replace_sl", 0)}, UNCHANGED inFlight
    PROVE  NoEmergency'
<1>1. Task("replace_sl", 0).kind # "emergency_close"
  BY DEF Task
<1> QED
  BY <1>1 DEF NoEmergency

\* The tasks that are purged or added are never take profits of a live position.
LEMMA TakeProfitTasks ==
    ASSUME NEW l
    PROVE  /\ Task("tp", l) # Task("replace_sl", 0)
           /\ \A ts : Task("tp", l) \notin Purged(ts)
           /\ Task("tp", l).kind = "tp" /\ Task("tp", l).level = l
<1>1. Task("tp", l).kind = "tp" /\ Task("tp", l).level = l /\ Task("replace_sl", 0).kind = "replace_sl"
  BY DEF Task
<1> QED
  BY <1>1 DEF Purged

LEMMA Unchanged ==
    ASSUME NEW R, LadderInv(R), TypeOK', UNCHANGED vars
    PROVE  LadderInv(R)'
<1>1. UNCHANGED <<size, tpLive, slLive, inbox, up, warm, connected, machine, qty, status,
                  dispatched, handler, reconciler, sync, tasks, inFlight, placed>>
  BY DEF vars, exchange, link, context, queue
<1>2. PICK f \in 0 .. N : Ladders(R, f)
  BY DEF LadderInv
<1>3. Ladders(R, f)'
  BY <1>1, <1>2 DEF Ladders, Placing
<1>4. Books(R)'
  BY <1>1, BooksKept DEF LadderInv
<1>5. CalmLink' /\ NoEmergency' /\ TellsOf(R, inbox', size')
  BY <1>1 DEF LadderInv, CalmLink, NoEmergency
<1> QED
  BY <1>3, <1>4, <1>5 DEF LadderInv

-----------------------------------------------------------------------------
(* The first state, and the exchange. *)

LEMMA InitLadder ==
    ASSUME NEW R, CalmLadder(R), Init
    PROVE  LadderInv(R)
<1>1. TypeOK
  BY InitTyped
<1>2. CalmLink
  BY DEF Init, CalmLink
<1>3. tasks = {Task("sl", 0)} \cup {Task("tp", l) : l \in Levels} /\ inFlight = NoTask
  BY RestFacts DEF Init
<1>4. NoEmergency
  BY <1>3 DEF NoEmergency, Task, NoTask
<1>5. TellsOf(R, inbox, size)
  BY DEF Init, TellsOf
<1>6. 0 \in 0 .. N /\ R[0] = Original /\ Original # 0 /\ Levels = 1 .. N
  <2>1. 0 \in 0 .. N /\ Levels = 1 .. N
    BY RestFacts
  <2>2. Original # 0
    BY TrackingAssumption
  <2> QED
    BY <2>1, <2>2 DEF CalmLadder
<1>7. Ladders(R, 0)
  <2>1. size \in {0, R[0]} /\ tpLive = {} /\ ~placed
    BY <1>6 DEF Init
  <2>2. \A l : ~Placing(l)
    BY <1>3 DEF Placing, NoTask, Task
  <2>3. \A l \in 0 + 1 .. N : Task("tp", l) \in tasks
    BY <1>3, <1>6, RestFacts
  <2>4. \A l \in Levels : l > 0
    BY <1>6, RestFacts
  <2> QED
    BY <2>1, <2>2, <2>3, <2>4 DEF Ladders
<1>8. Booked(R, 0)
  <2>1. qty = R[0] /\ machine = Opened /\ size = qty /\ inbox = <<>> /\ reconciler = 0
        /\ dispatched = {}
    BY <1>6 DEF Init, Opened
  <2>2. handler.at # "cleanup"
    BY DEF Init, Idle
  <2>3. \A l \in Levels : status[l] = "pending"
    BY DEF Init
  <2> QED
    BY <2>1, <2>2, <2>3 DEF Booked
<1>9. qty # 0
  BY <1>6 DEF Init
<1> QED
  BY <1>1, <1>2, <1>4, <1>5, <1>6, <1>7, <1>8, <1>9 DEF LadderInv, Books

\* A message that ends the position, or the next level of the position as it is.
Announces(R, m) == \/ Empties(m)
                   \/ \E f \in 0 .. N - 1 : size = R[f] /\ m.type = "tp" /\ m.level = f + 1

\* The tracker's books while the exchange changes.
LEMMA EmitBooks ==
    ASSUME NEW R, CalmLadder(R), Books(R), size > 0,
           UNCHANGED <<machine, qty, status, dispatched, handler, reconciler>>,
           inbox' # <<>>, NEW m, Announces(R, m),
           Head(inbox') = IF inbox = <<>> THEN m ELSE Head(inbox)
    PROVE  Books(R)'
<1>0. qty # 0
  BY DEF Books, Ended
<1>1. PICK b \in 0 .. N : Booked(R, b)
  BY <1>0 DEF Books
<1>2. Due(R, b, dispatched, Head(inbox'))
  <2>1. CASE inbox # <<>>
    BY <1>1, <2>1 DEF Booked
  <2>2. CASE inbox = <<>> /\ Empties(m)
    BY <2>2 DEF Due
  <2>3. CASE inbox = <<>> /\ \E f \in 0 .. N - 1 : size = R[f] /\ m.type = "tp" /\ m.level = f + 1
    <3>1. PICK f \in 0 .. N - 1 : size = R[f] /\ m.type = "tp" /\ m.level = f + 1
      BY <2>3
    <3>2. R[f] = R[b] /\ f \in 0 .. N
      BY <1>1, <2>3, <3>1, RestFacts DEF Booked
    <3>3. f = b
      BY <3>2, RestFacts
    <3> QED
      BY <2>3, <3>1, <3>3 DEF Due
  <2> QED
    BY <2>1, <2>2, <2>3 DEF Announces
<1>3. Booked(R, b)'
  BY <1>1, <1>2 DEF Booked, Due
<1> QED
  BY <1>0, <1>3 DEF Books

\* The levels close in their order.
LEMMA NextLevel ==
    ASSUME NEW R, CalmLadder(R), TypeOK, NEW f \in 0 .. N, Ladders(R, f), NEW l \in TpOrders, FillTp(l)
    PROVE  f < N /\ l = f + 1 /\ size = R[f] /\ size' = R[l]
<1>1. l \in tpLive /\ size > 0 /\ \A k \in tpLive : l <= k
  BY DEF FillTp
<1>2. size = R[f] /\ size \in Nat /\ l \in f + 1 .. N /\ l \in Nat
  BY <1>1, NumbersTyped DEF Ladders, TypeOK, ExchangeOK
<1>3. f < N /\ f + 1 \in f + 1 .. N /\ f + 1 \in Levels
  BY <1>2, RestFacts
<1>4. l <= f + 1
  <2>1. f + 1 \in tpLive \/ Placing(f + 1) \/ Task("tp", f + 1) \in tasks
    BY <1>1, <1>3 DEF Ladders
  <2>2. Placing(f + 1) \/ Task("tp", f + 1) \in tasks => l < f + 1
    BY <1>1, <1>3 DEF Ladders
  <2> QED
    BY <1>1, <1>2, <2>1, <2>2
<1>5. l = f + 1 /\ l \in Levels /\ l # 0
  BY <1>2, <1>3, <1>4
<1>6. R[l] = R[f] - Close[l] /\ Close[l] \in Nat /\ Close[l] <= R[f] /\ R[f] \in Nat
  <2>1. l - 1 = f /\ f \in 0 .. N
    BY <1>5
  <2> QED
    BY <1>5, <2>1, RestFacts
<1>7. size' = R[l]
  BY <1>2, <1>5, <1>6 DEF FillTp
<1> QED
  BY <1>2, <1>3, <1>5, <1>7

LEMMA FillTpLadder ==
    ASSUME NEW R, CalmLadder(R), LadderInv(R), NEW l \in TpOrders, FillTp(l)
    PROVE  LadderInv(R)'
<1>1. PICK f \in 0 .. N : Ladders(R, f)
  BY DEF LadderInv
<1>2. f < N /\ l = f + 1 /\ size = R[f] /\ size' = R[l] /\ l \in Levels /\ l \in 0 .. N
  BY <1>1, NextLevel, RestFacts DEF LadderInv
<1>3. size > 0 /\ l \in tpLive /\ (\A k \in tpLive : l <= k) /\ tpLive' = tpLive \ {l}
  BY DEF FillTp
<1>4. TypeOK' /\ TypeOK /\ size' \in Nat
  BY FillTpTyped, RestFacts, <1>2 DEF LadderInv
<1>5. UNCHANGED <<slLive, machine, qty, status, dispatched, handler, reconciler, sync, tasks,
                  inFlight, placed>>
  BY DEF FillTp, context, queue
<1>6. PICK m \in FillEvents("tp", l, size') : Emit(m)
  BY DEF FillTp
<1>7. m \in Seq(Message)
  BY <1>2, <1>4, FillEventsTyped, RestFacts
<1>8. /\ Len(m) \in {2, 3} /\ m # <<>> /\ 1 \in 1 .. Len(m) - 1
      /\ \A i \in 1 .. Len(m) - 1 : m[i].type = "tp" /\ m[i].level = l
      /\ m[Len(m)].type = "pos" /\ m[Len(m)].size = R[l]
  <2>1. PICK z : z = R[l]
    OBVIOUS
  <2>2. /\ Len(m) \in {2, 3} /\ m[Len(m)].type = "pos" /\ m[Len(m)].size = z
        /\ \A i \in 1 .. Len(m) - 1 : m[i].type = "tp" /\ m[i].level = l
    BY <1>2, <1>6, <2>1, FillMessages
  <2>3. 1 \in 1 .. Len(m) - 1
    <3>1. Len(m) = 2 \/ Len(m) = 3
      BY <2>2
    <3>2. 1 \in 1 .. 2 - 1 /\ 1 \in 1 .. 3 - 1
      OBVIOUS
    <3> QED
      BY <3>1, <3>2
  <2>4. m # <<>>
    <3>1. Len(m) # 0 /\ Len(<<>>) = 0
      BY <2>2
    <3> QED
      BY <3>1
  <2> QED
    BY <2>1, <2>2, <2>3, <2>4
<1>9. TellsOf(R, m, size')
  <2>1. ASSUME NEW i \in 1 .. Len(m) - 1 PROVE Follows(R, m[i], m[i + 1])
    <3>1. i + 1 \in 1 .. Len(m) - 1 \/ i + 1 = Len(m)
      BY <1>8
    <3> QED
      BY <1>8, <3>1 DEF Follows
  <2>2. ASSUME NEW i \in 1 .. Len(m)
        PROVE  (m[i].type = "tp" => m[i].level \in Levels) /\ (Flattening(m[i]) => size' = 0)
    <3>1. i \in 1 .. Len(m) - 1 \/ i = Len(m)
      BY <1>8
    <3>2. l = N => size' = 0
      BY <1>2, RestFacts
    <3> QED
      BY <1>2, <1>8, <3>1, <3>2 DEF Flattening, Empties
  <2> QED
    BY <1>2, <1>8, <2>1, <2>2 DEF TellsOf
<1>10. \A k \in Message : k.type = "pos" /\ k.size = size => Follows(R, k, m[1])
  <2>1. m[1].type = "tp" /\ m[1].level = f + 1 /\ (f + 1) - 1 = f
    BY <1>2, <1>8
  <2>2. R[m[1].level - 1] = size /\ size # 0
    BY <1>2, <1>3, <2>1
  <2> QED
    BY <2>1, <2>2 DEF Follows
<1>11. /\ TellsOf(R, inbox', size') /\ UNCHANGED <<up, warm, connected>> /\ inbox' # <<>>
       /\ Head(inbox') = IF inbox = <<>> THEN m[1] ELSE Head(inbox)
  <2>1. CalmLink /\ TellsOf(R, inbox, size)
    BY DEF LadderInv
  <2>2. PICK z : z = size'
    OBVIOUS
  <2> QED
    BY <1>3, <1>4, <1>6, <1>7, <1>8, <1>9, <1>10, <2>1, <2>2, EmitTold
<1>12. Books(R)'
  <2>1. Announces(R, m[1])
    <3>1. m[1].type = "tp" /\ m[1].level = f + 1 /\ f \in 0 .. N - 1
      BY <1>2, <1>8, RestFacts
    <3> QED
      BY <1>2, <3>1 DEF Announces
  <2> QED
    BY <1>3, <1>5, <1>11, <2>1, EmitBooks DEF LadderInv
<1>13. Ladders(R, l)'
  <2>1. \A k \in Levels : Placing(k)' <=> Placing(k)
    BY <1>5 DEF Placing
  <2>2. tpLive' \subseteq l + 1 .. N
    <3>1. \A k \in tpLive : k \in f + 1 .. N
      BY <1>1 DEF Ladders
    <3> QED
      BY <1>2, <1>3, <3>1
  <2>3. \A k \in Levels : Task("tp", k) \in tasks' \/ Placing(k)' => k > l /\ \A j \in tpLive' : j < k
    BY <1>1, <1>3, <1>5, <2>1, RestFacts DEF Ladders
  <2>4. \A j, k \in Levels : Placing(j)' /\ Task("tp", k) \in tasks' => j < k
    BY <1>1, <1>5, <2>1 DEF Ladders
  <2>5. \A k \in l + 1 .. N : k \in tpLive' \/ Placing(k)' \/ Task("tp", k) \in tasks'
    <3> SUFFICES ASSUME NEW k \in l + 1 .. N
                 PROVE  k \in tpLive' \/ Placing(k)' \/ Task("tp", k) \in tasks'
      OBVIOUS
    <3>1. k \in f + 1 .. N /\ k \in Levels /\ k # l
      BY <1>2, RestFacts
    <3> QED
      BY <1>1, <1>3, <1>5, <2>1, <3>1 DEF Ladders
  <2> QED
    BY <1>2, <2>2, <2>3, <2>4, <2>5 DEF Ladders
<1>14. CalmLink' /\ NoEmergency'
  BY <1>5, <1>11 DEF CalmLink, NoEmergency, LadderInv
<1> QED
  BY <1>2, <1>4, <1>11, <1>12, <1>13, <1>14 DEF LadderInv

\* Everything is closed at once.
LEMMA ClosedLadder ==
    ASSUME NEW R, CalmLadder(R), LadderInv(R), TypeOK', size > 0, size' = 0,
           NEW m \in Seq(Message), Emit(m), Len(m) \in {1, 2, 3},
           \A i \in 1 .. Len(m) - 1 : m[i].type = "sl",
           m[Len(m)].type = "pos", m[Len(m)].size = 0,
           UNCHANGED <<tpLive, machine, qty, status, dispatched, handler, reconciler, sync,
                       tasks, inFlight, placed>>
    PROVE  LadderInv(R)'
<1>1. PICK f \in 0 .. N : Ladders(R, f)
  BY DEF LadderInv
<1>2. \A i \in 1 .. Len(m) : Empties(m[i]) /\ m[i].type # "tp"
  <2>1. \A i \in 1 .. Len(m) : i \in 1 .. Len(m) - 1 \/ i = Len(m)
    OBVIOUS
  <2> QED
    BY <2>1 DEF Empties
<1>3. m # <<>> /\ Empties(m[1])
  BY <1>2
<1>4. TellsOf(R, m, size')
  <2>1. ASSUME NEW i \in 1 .. Len(m) - 1 PROVE Follows(R, m[i], m[i + 1])
    <3>1. i + 1 \in 1 .. Len(m)
      BY <2>1
    <3> QED
      BY <1>2, <3>1 DEF Follows
  <2> QED
    BY <1>2, <2>1 DEF TellsOf
<1>5. \A k \in Message : k.type = "pos" /\ k.size = size => Follows(R, k, m[1])
  BY <1>3 DEF Follows
<1>6. /\ TellsOf(R, inbox', size') /\ UNCHANGED <<up, warm, connected>> /\ inbox' # <<>>
      /\ Head(inbox') = IF inbox = <<>> THEN m[1] ELSE Head(inbox)
  <2>1. TypeOK /\ CalmLink /\ TellsOf(R, inbox, size)
    BY DEF LadderInv
  <2>2. PICK z : z = size'
    OBVIOUS
  <2> QED
    BY <1>3, <1>4, <1>5, <2>1, <2>2, EmitTold
<1>7. Books(R)'
  BY <1>3, <1>6, EmitBooks DEF LadderInv, Announces
<1>8. Ladders(R, f)'
  BY <1>1, LaddersKept, NumbersTyped DEF LadderInv, TypeOK, ExchangeOK
<1>9. CalmLink' /\ NoEmergency'
  BY <1>6 DEF CalmLink, NoEmergency, LadderInv
<1> QED
  BY <1>6, <1>7, <1>8, <1>9 DEF LadderInv

LEMMA FillSlLadder == ASSUME NEW R, CalmLadder(R), LadderInv(R), FillSl PROVE LadderInv(R)'
<1>1. PICK m \in FillEvents("sl", 0, 0) : Emit(m)
  BY DEF FillSl
<1>2. m \in Seq(Message) /\ TypeOK'
  BY <1>1, FillEventsTyped, FillSlTyped DEF LadderInv
<1>3. /\ Len(m) \in {2, 3} /\ \A i \in 1 .. Len(m) - 1 : m[i].type = "sl"
      /\ m[Len(m)].type = "pos" /\ m[Len(m)].size = 0
  BY <1>1, FillMessages
<1> QED
  BY <1>1, <1>2, <1>3, ClosedLadder DEF FillSl, context, queue

LEMMA ManualCloseLadder ==
    ASSUME NEW R, CalmLadder(R), LadderInv(R), ManualClose
    PROVE  LadderInv(R)'
<1>1. size > 0 /\ size \in Nat /\ size' = 0
  BY NumbersTyped DEF ManualClose, CalmLadder, LadderInv, TypeOK, ExchangeOK
<1>2. PICK m \in Seq(Message) : m = <<PositionEvent(0)>>
  <2>1. <<PositionEvent(0)>> \in Seq(Message)
    BY EventsTyped
  <2> QED
    BY <2>1
<1>3. Emit(m) /\ Len(m) = 1 /\ m[1].type = "pos" /\ m[1].size = 0
      /\ \A i \in 1 .. Len(m) - 1 : m[i].type = "sl"
  <2>1. PositionEvent(0).type = "pos" /\ PositionEvent(0).size = 0
    BY DEF PositionEvent
  <2>2. Emit(m)
    BY <1>1, <1>2 DEF ManualClose
  <2>3. Len(m) = 1 /\ m[1] = PositionEvent(0) /\ 1 .. Len(m) - 1 = {}
    BY <1>2
  <2> QED
    BY <2>1, <2>2, <2>3
<1>4. TypeOK'
  BY ManualCloseTyped DEF LadderInv
<1>5. UNCHANGED <<tpLive, machine, qty, status, dispatched, handler, reconciler, sync,
                  tasks, inFlight, placed>>
  BY DEF ManualClose, context, queue
<1> QED
  BY <1>1, <1>3, <1>4, <1>5, ClosedLadder
-----------------------------------------------------------------------------
(* The stream's handlers. *)

\* What a handler must establish once its message is received.
LEMMA HandledLadder ==
    ASSUME NEW R, LadderInv(R), TypeOK', NEW type, Receive(type), Books(R)',
           tasks' = tasks \/ (tasks' = Purged(tasks) /\ size = 0)
    PROVE  LadderInv(R)'
<1>1. /\ TypeOK /\ CalmLink /\ NoEmergency /\ TellsOf(R, inbox, size)
      /\ UNCHANGED <<size, tpLive, up, warm, connected, sync, inFlight, placed>>
  BY DEF LadderInv, Receive, exchange
<1>2. TellsOf(R, inbox', size')
  BY <1>1, ReceiveTold
<1>3. PICK f \in 0 .. N : Ladders(R, f)
  BY DEF LadderInv
<1>4. Ladders(R, f)'
  <2>1. \A l \in Levels : Task("tp", l) \in tasks' => Task("tp", l) \in tasks
    BY TakeProfitTasks
  <2>2. size' > 0 => tasks' = tasks
    BY <1>1
  <2>3. size \in Nat
    BY <1>1, NumbersTyped DEF TypeOK, ExchangeOK
  <2> QED
    BY <1>1, <1>3, <2>1, <2>2, <2>3, LaddersKept
<1>5. NoEmergency'
  BY <1>1, EmergencyNot DEF Purged
<1>6. CalmLink'
  BY <1>1 DEF CalmLink
<1> QED
  BY <1>2, <1>4, <1>5, <1>6 DEF LadderInv

\* Before the handler: its message was due.
LEMMA ReceiveBooks ==
    ASSUME NEW R, CalmLadder(R), LadderInv(R), NEW type, Receive(type)
    PROVE  /\ Head(inbox).type = type /\ handler = Idle /\ handler.at = "idle"
           /\ type = "tp" => Head(inbox).level \in Levels
           /\ Flattening(Head(inbox)) => size = 0
           /\ inbox' = <<>> => type = "pos" /\ Head(inbox).size = size
           /\ inbox' # <<>> => /\ Follows(R, Head(inbox), Head(inbox'))
                               /\ Head(inbox').type = "tp" => Head(inbox').level \in Levels
           /\ UNCHANGED <<size, tpLive, slLive>> /\ size \in Nat
           /\ \/ qty = 0 /\ Ended /\ machine = Shut
                 /\ (Empties(Head(inbox)) \/ (Head(inbox).type = "tp" /\ Head(inbox).level = N
                                             /\ N \in dispatched))
              \/ qty # 0 /\ machine = Opened
                 /\ \E b \in 0 .. N - 1 : Booked(R, b) /\ Due(R, b, dispatched, Head(inbox))
<1>1. TypeOK /\ CalmLink /\ TellsOf(R, inbox, size)
  BY DEF LadderInv
<1>2. handler = Idle /\ handler.at = "idle" /\ inbox # <<>>
  BY DEF Receive, Idle
<1>3. size \in Nat
  BY <1>1, NumbersTyped DEF TypeOK, ExchangeOK
<1>4. CASE qty = 0
  <2>1. Ended
    BY <1>4 DEF LadderInv, Books
  <2>2. machine = Shut
    BY <1>2, <2>1 DEF Ended
  <2>3. Empties(Head(inbox)) \/ (Head(inbox).type = "tp" /\ Head(inbox).level = N
                                 /\ N \in dispatched)
    BY <1>2, <2>1 DEF Ended
  <2> QED
    BY <1>1, <1>2, <1>3, <1>4, <2>1, <2>2, <2>3, ReceiveTold
<1>5. CASE qty # 0
  <2>1. PICK b \in 0 .. N : Booked(R, b)
    BY <1>5 DEF LadderInv, Books
  <2>2. b # N
    BY <1>5, <2>1, RestFacts DEF Booked
  <2>3. b \in 0 .. N - 1
    BY <2>1, <2>2, RestFacts
  <2>4. Due(R, b, dispatched, Head(inbox)) /\ machine = Opened
    BY <1>2, <2>1 DEF Booked
  <2>5. \E c \in 0 .. N - 1 : Booked(R, c) /\ Due(R, c, dispatched, Head(inbox))
    BY <2>1, <2>3, <2>4
  <2> QED
    BY <1>1, <1>2, <1>3, <1>5, <2>4, <2>5, ReceiveTold
<1> QED
  BY <1>4, <1>5

\* Nothing changes for a context that is closed.
LEMMA EndedStays ==
    ASSUME NEW R, CalmLadder(R), LadderInv(R), NEW type, Receive(type), qty = 0,
           UNCHANGED <<machine, qty>>, dispatched \subseteq dispatched',
           handler' = handler \/ handler' = Cleanup
    PROVE  Books(R)'
<1>1. /\ Ended /\ machine = Shut /\ handler.at = "idle" /\ UNCHANGED <<size, tpLive, slLive>>
      /\ inbox' # <<>> => Follows(R, Head(inbox), Head(inbox'))
      /\ Empties(Head(inbox)) \/ (Head(inbox).type = "tp" /\ Head(inbox).level = N /\ N \in dispatched)
  BY ReceiveBooks
<1>2. R[N] = 0
  BY RestFacts
<1>3. inbox' # <<>> => \/ Empties(Head(inbox'))
                       \/ Head(inbox').type = "tp" /\ Head(inbox').level = N /\ N \in dispatched'
  BY <1>1, <1>2 DEF Follows, Empties
<1>4. Cleanup.at = "cleanup"
  BY DEF Cleanup, Idle
<1>5. Ended'
  BY <1>1, <1>3, <1>4, MachinesDiffer DEF Ended
<1> QED
  BY <1>5 DEF Books

\* A handler that closes the position.
LEMMA ClosePositionBooks ==
    ASSUME NEW R, CalmLadder(R), LadderInv(R), NEW type, Receive(type), qty # 0,
           Empties(Head(inbox)),
           NEW t \in {"sl_triggered", "manual_close"}, NEW strict, ClosePosition(t, strict)
    PROVE  Books(R)' /\ tasks' = Purged(tasks) /\ size = 0
<1>1. /\ machine = Opened /\ size = 0 /\ UNCHANGED <<size, tpLive, slLive>>
      /\ inbox' # <<>> => Follows(R, Head(inbox), Head(inbox'))
  BY ReceiveBooks DEF Flattening
<1>2. TryTransition(machine, t) = Closing /\ CanTransition(Closing, "all_closed")
  BY <1>1, OpenedCloses, ClosingEnds
<1>3. machine' = Shut /\ qty' = 0 /\ handler' = Cleanup /\ tasks' = Purged(tasks)
  BY <1>2, ClosingEnds DEF ClosePosition
<1>4. inbox' # <<>> => Empties(Head(inbox'))
  BY <1>1 DEF Follows, Empties
<1>5. handler'.at = "cleanup"
  BY <1>3 DEF Cleanup, Idle
<1>6. Ended'
  BY <1>1, <1>3, <1>4, <1>5, MachinesDiffer DEF Ended
<1> QED
  BY <1>1, <1>3, <1>6 DEF Books

LEMMA SlEventLadder == ASSUME NEW R, CalmLadder(R), LadderInv(R), SlEvent PROVE LadderInv(R)'
<1>1. Receive("sl") /\ TypeOK'
  BY SlEventTyped DEF SlEvent, LadderInv
<1>2. Empties(Head(inbox))
  BY <1>1 DEF Receive, Empties
<1>3. CASE qty = 0
  <2>1. machine = Shut
    BY <1>1, <1>3, ReceiveBooks
  <2>2. Ignore
    BY <1>3, <2>1, MachinesDiffer DEF SlEvent, Gone
  <2>3. UNCHANGED <<machine, qty, dispatched, handler, tasks>>
    BY <2>2 DEF Ignore, context
  <2> QED
    BY <1>1, <1>3, <2>3, EndedStays, HandledLadder
<1>4. CASE qty # 0
  <2>1. machine = Opened
    BY <1>1, <1>4, ReceiveBooks
  <2>2. CanTransition(machine, "sl_triggered")
    BY <2>1, OpenedCloses
  <2>3. ClosePosition("sl_triggered", TRUE)
    BY <1>4, <2>2 DEF SlEvent, Gone
  <2> QED
    BY <1>1, <1>2, <1>4, <2>3, ClosePositionBooks, HandledLadder
<1> QED
  BY <1>3, <1>4

LEMMA PositionFlatLadder ==
    ASSUME NEW R, CalmLadder(R), LadderInv(R), PositionFlat
    PROVE  LadderInv(R)'
<1>1. Receive("pos") /\ TypeOK'
  BY PositionFlatTyped DEF PositionFlat, LadderInv
<1>2. Empties(Head(inbox))
  BY <1>1 DEF PositionFlat, IsFlat, Receive, Empties
<1>3. CASE qty = 0
  <2>1. machine = Shut
    BY <1>1, <1>3, ReceiveBooks
  <2>2. Ignore
    BY <1>3, <2>1, MachinesDiffer DEF PositionFlat, Gone
  <2>3. UNCHANGED <<machine, qty, dispatched, handler, tasks>>
    BY <2>2 DEF Ignore, context
  <2> QED
    BY <1>1, <1>3, <2>3, EndedStays, HandledLadder
<1>4. CASE qty # 0
  <2>1. ClosePosition("manual_close", FALSE)
    BY <1>4 DEF PositionFlat, Gone
  <2> QED
    BY <1>1, <1>2, <1>4, <2>1, ClosePositionBooks, HandledLadder
<1> QED
  BY <1>3, <1>4

\* A reported size is the one booked, or the one after the next level; the
\* reconciler then remembers that level by its quantity.
LEMMA PositionResizedLadder ==
    ASSUME NEW R, CalmLadder(R), LadderInv(R), PositionResized
    PROVE  LadderInv(R)'
<1> DEFINE s == Head(inbox).size
<1>1. Receive("pos") /\ TypeOK' /\ s # 0
  BY PositionResizedTyped DEF PositionResized, IsFlat, LadderInv
<1>2. /\ Head(inbox).type = "pos" /\ handler.at = "idle" /\ ~Empties(Head(inbox))
      /\ UNCHANGED <<size, tpLive, slLive>>
  BY <1>1, ReceiveBooks DEF Empties
<1>3. /\ qty # 0 /\ machine = Opened
      /\ \E b \in 0 .. N - 1 : Booked(R, b) /\ Due(R, b, dispatched, Head(inbox))
  BY <1>1, <1>2, ReceiveBooks
<1>4. PICK b \in 0 .. N - 1 : Booked(R, b) /\ Due(R, b, dispatched, Head(inbox))
  BY <1>3
<1>5. /\ qty' = s /\ UNCHANGED <<machine, status, dispatched, handler, tasks>>
      /\ reconciler' = IF s < qty /\ N > 0 /\ machine.state \in {"open", "adjusting"}
                       THEN qty - s ELSE reconciler
  BY DEF PositionResized
<1>6. /\ b \in 0 .. N /\ b + 1 \in Levels /\ b + 1 \in 0 .. N /\ N > 0 /\ (b + 1) - 1 = b
      /\ R[b] \in Nat /\ R[b + 1] = R[b] - Close[b + 1] /\ R[b + 1] < R[b] /\ Close[b + 1] \in Nat
  <2>1. b \in 0 .. N /\ b + 1 \in Levels /\ b + 1 \in 0 .. N /\ N > 0 /\ (b + 1) - 1 = b
    BY RestFacts
  <2> QED
    BY <2>1, RestFacts
<1>7. PICK c \in {b, b + 1} : s = R[c]
  BY <1>2, <1>4 DEF Due
<1>8. c \in 0 .. N /\ 1 .. b \subseteq 1 .. c
  BY <1>6, <1>7
<1>9. inbox' # <<>> => Due(R, c, dispatched', Head(inbox'))
  <2> SUFFICES ASSUME inbox' # <<>> PROVE Due(R, c, dispatched', Head(inbox'))
    OBVIOUS
  <2>1. /\ Follows(R, Head(inbox), Head(inbox'))
        /\ Head(inbox').type = "tp" => Head(inbox').level \in Levels
    BY <1>1, ReceiveBooks
  <2>2. CASE Empties(Head(inbox'))
    BY <2>2 DEF Due
  <2>3. CASE Head(inbox').type = "tp" /\ R[Head(inbox').level - 1] = s
    <3>1. PICK l \in Levels : l = Head(inbox').level
      BY <2>1, <2>3
    <3>2. l - 1 \in 0 .. N /\ R[l - 1] = R[c]
      BY <1>7, <2>3, <3>1, RestFacts
    <3>3. l - 1 = c
      BY <1>8, <3>2, RestFacts
    <3>4. l = c + 1
      BY <3>1, <3>3, RestFacts
    <3> QED
      BY <2>3, <3>1, <3>4 DEF Due
  <2> QED
    BY <1>2, <2>1, <2>2, <2>3 DEF Follows
<1>10. inbox' = <<>> => size' = qty'
  BY <1>1, <1>2, <1>5, ReceiveBooks
<1>11. reconciler' # 0 => \E r \in 1 .. c : r < N /\ Close[r] = reconciler' /\ r \notin dispatched
  <2>1. qty = R[b] /\ dispatched \subseteq 1 .. b
    BY <1>4 DEF Booked
  <2>2. CASE c = b
    <3>1. reconciler' = reconciler
      BY <1>5, <1>6, <1>7, <2>1, <2>2
    <3> QED
      BY <1>4, <2>2, <3>1 DEF Booked
  <2>3. CASE c = b + 1
    <3>1. machine.state = "open"
      BY <1>3, MachinesDiffer
    <3>2. reconciler' = Close[c]
      BY <1>5, <1>6, <1>7, <2>1, <2>3, <3>1
    <3>3. c # N
      BY <1>1, <1>7, RestFacts
    <3>4. c \in 1 .. c /\ c < N /\ c \notin dispatched
      BY <1>6, <2>1, <2>3, <3>3, RestFacts
    <3> QED
      BY <3>2, <3>4
  <2> QED
    BY <1>7, <2>2, <2>3
<1>12. Booked(R, c)'
  BY <1>4, <1>5, <1>7, <1>8, <1>9, <1>10, <1>11 DEF Booked
<1>13. Books(R)'
  BY <1>1, <1>5, <1>8, <1>12 DEF Books
<1> QED
  BY <1>1, <1>5, <1>13, HandledLadder
-----------------------------------------------------------------------------
(* The engine. *)

\* Behind a take profit event of level l: an echo, or the size after it.
LEMMA BehindTp ==
    ASSUME NEW R, NEW m, NEW k, NEW l, m.type = "tp", m.level = l, Follows(R, m, k)
    PROVE  (k.type = "tp" /\ k.level = l) \/ (k.type = "pos" /\ k.size = R[l])
BY DEF Follows

\* An event that the engine does not book.
LEMMA TpUnbooked ==
    ASSUME NEW R, CalmLadder(R), LadderInv(R), Receive("tp"), qty # 0,
           UNCHANGED <<machine, qty, status, dispatched, handler>>,
           reconciler' \in {0, reconciler}
    PROVE  Books(R)'
<1> DEFINE l == Head(inbox).level
<1>1. /\ machine = Opened /\ Head(inbox).type = "tp" /\ l \in Levels
      /\ inbox' # <<>> /\ Follows(R, Head(inbox), Head(inbox'))
      /\ UNCHANGED <<size, tpLive, slLive>>
      /\ \E b \in 0 .. N - 1 : Booked(R, b) /\ Due(R, b, dispatched, Head(inbox))
  BY ReceiveBooks
<1>2. PICK b \in 0 .. N - 1 : Booked(R, b) /\ Due(R, b, dispatched, Head(inbox))
  BY <1>1
<1>3. b \in 0 .. N /\ b < N
  BY RestFacts
<1>4. (l = b /\ b \in dispatched) \/ l = b + 1
  BY <1>1, <1>2 DEF Due, Empties
<1>5. \/ Head(inbox').type = "tp" /\ Head(inbox').level = l
      \/ Head(inbox').type = "pos" /\ Head(inbox').size = R[l]
  BY <1>1 DEF Follows
<1>6. Due(R, b, dispatched', Head(inbox'))
  BY <1>3, <1>4, <1>5 DEF Due
<1>7. Booked(R, b)'
  BY <1>1, <1>2, <1>6 DEF Booked
<1> QED
  BY <1>3, <1>7 DEF Books

\* An event that it books.
LEMMA TpBooked ==
    ASSUME NEW R, CalmLadder(R), LadderInv(R), Receive("tp"), qty # 0,
           EngineBook(Head(inbox).level, qty, "stream"), UNCHANGED reconciler
    PROVE  Books(R)'
<1>1. PICK l \in Levels : l = Head(inbox).level
  BY ReceiveBooks
<1>2. /\ machine = Opened /\ Head(inbox).type = "tp" /\ UNCHANGED <<size, tpLive, slLive>>
      /\ inbox' # <<>> /\ Follows(R, Head(inbox), Head(inbox'))
      /\ Flattening(Head(inbox)) => size = 0
      /\ \E b \in 0 .. N - 1 : Booked(R, b) /\ Due(R, b, dispatched, Head(inbox))
  BY ReceiveBooks
<1>3. PICK b \in 0 .. N - 1 : Booked(R, b) /\ Due(R, b, dispatched, Head(inbox))
  BY <1>2
<1>4. /\ l \notin dispatched
      /\ dispatched' = dispatched \cup {l}
      /\ qty' = Cut(qty, CloseQty(l, qty))
      /\ status' = [status EXCEPT ![l] = "triggered"]
      /\ handler'.at = "engine" /\ handler'.by = "stream"
      /\ UNCHANGED machine
  BY <1>1 DEF EngineBook, Duplicate
<1>5. l = b + 1
  BY <1>1, <1>2, <1>3, <1>4 DEF Due, Empties
<1>6. l - 1 = b /\ l \in 0 .. N /\ b \in 0 .. N /\ l \in Nat
  BY <1>5, RestFacts
<1>7. qty' = R[l]
  <2>1. qty = R[l - 1]
    BY <1>3, <1>6 DEF Booked
  <2> QED
    BY <1>4, <2>1, BookLevel
<1>8. (Head(inbox').type = "tp" /\ Head(inbox').level = l)
      \/ (Head(inbox').type = "pos" /\ Head(inbox').size = R[l])
  BY <1>1, <1>2, BehindTp
<1>9. CASE l = N
  <2>1. qty' = 0 /\ R[l] = 0
    BY <1>7, <1>9, RestFacts
  <2>2. size' = 0
    BY <1>1, <1>2, <1>9 DEF Flattening
  <2>3. l \in dispatched'
    BY <1>4
  <2>4. Ended'
    BY <1>2, <1>4, <1>8, <1>9, <2>1, <2>2, <2>3, MachinesDiffer DEF Ended, Empties
  <2> QED
    BY <2>1, <2>4 DEF Books
<1>10. CASE l # N
  <2>1. qty' # 0
    BY <1>6, <1>7, <1>10, RestFacts
  <2>2. dispatched' \subseteq 1 .. l
    BY <1>3, <1>4, <1>5, <1>6, RestFacts DEF Booked
  <2>3. \A k \in Levels : status'[k] # "cancelled" /\ (status'[k] = "triggered" => k \in dispatched')
    <3>1. status \in [Levels -> {"pending", "open", "triggered", "cancelled"}]
      BY DEF LadderInv, TypeOK, ContextOK
    <3>2. \A k \in Levels : status'[k] = IF k = l THEN "triggered" ELSE status[k]
      BY <1>4, <3>1
    <3> QED
      BY <1>3, <1>4, <3>2 DEF Booked
  <2>4. Due(R, l, dispatched', Head(inbox'))
    BY <1>4, <1>8 DEF Due
  <2>5. reconciler' # 0 => \E r \in 1 .. l : r < N /\ Close[r] = reconciler' /\ r \notin dispatched'
    <3> SUFFICES ASSUME reconciler' # 0
                 PROVE  \E r \in 1 .. l : r < N /\ Close[r] = reconciler' /\ r \notin dispatched'
      OBVIOUS
    <3>1. PICK r \in 1 .. b : r < N /\ Close[r] = reconciler /\ r \notin dispatched
      BY <1>3 DEF Booked
    <3>2. r \in 1 .. l /\ r # l
      BY <1>5, <1>6, <3>1
    <3> QED
      BY <1>4, <3>1, <3>2
  <2>6. Booked(R, l)'
    BY <1>2, <1>4, <1>7, <2>2, <2>3, <2>4, <2>5 DEF Booked
  <2> QED
    BY <1>6, <2>1, <2>6 DEF Books
<1> QED
  BY <1>9, <1>10

LEMMA TpEventLadder == ASSUME NEW R, CalmLadder(R), LadderInv(R), TpEvent PROVE LadderInv(R)'
<1> DEFINE e == Head(inbox)
<1>1. Receive("tp") /\ TypeOK' /\ e.level \in Levels
  BY TpEventTyped, ReceiveBooks DEF TpEvent, LadderInv
<1>2. CASE qty = 0
  <2>1. machine = Shut /\ e.level \in dispatched /\ size = 0
    BY <1>1, <1>2, ReceiveBooks DEF Empties, Ended
  <2>2. Duplicate(e.level)
    BY <2>1 DEF Duplicate
  <2>3. /\ UNCHANGED <<machine, qty, dispatched>>
        /\ \/ UNCHANGED <<handler, tasks>>
           \/ handler' = Cleanup /\ tasks' = Purged(tasks)
    BY <2>2 DEF TpEvent, EngineBook, Ignore, context
  <2> QED
    BY <1>1, <1>2, <2>1, <2>3, EndedStays, HandledLadder
<1>3. CASE qty # 0
  <2>1. machine.state # "closed"
    BY <1>1, <1>3, ReceiveBooks, MachinesDiffer
  <2>2. CASE /\ EngineBook(e.level, qty, "stream")
             /\ UNCHANGED <<reconciler, tasks>>
    BY <1>1, <1>3, <2>2, TpBooked, HandledLadder
  <2>3. CASE /\ UNCHANGED <<machine, qty, status, dispatched, handler, tasks>>
             /\ reconciler' \in {0, reconciler}
    BY <1>1, <1>3, <2>3, TpUnbooked, HandledLadder
  <2> QED
    BY <1>3, <2>1, <2>2, <2>3 DEF TpEvent, Ignore, context
<1> QED
  BY <1>2, <1>3

LEMMA StreamStepLadder ==
    ASSUME NEW R, CalmLadder(R), LadderInv(R), StreamStep
    PROVE  LadderInv(R)'
<1>1. N > 0 /\ warm
  BY RestFacts DEF LadderInv, CalmLink
<1>2. ~SuppressOrderUpdate
  BY <1>1 DEF SuppressOrderUpdate
<1>3. ~SingleTpEvent
  <2>1. N # 0
    BY <1>1
  <2> QED
    BY <2>1 DEF SingleTpEvent
<1> QED
  BY <1>2, <1>3, TpEventLadder, SlEventLadder, PositionFlatLadder, PositionResizedLadder DEF StreamStep

\* A step of a handler that leaves the exchange and the messages alone.
LEMMA InsideLadder ==
    ASSUME NEW R, LadderInv(R), TypeOK', Books(R)', UNCHANGED <<size, inFlight, placed, sync>>,
           UNCHANGED link, tpLive' \subseteq tpLive, size > 0 => UNCHANGED tpLive,
           tasks' \in SUBSET (tasks \cup {Task("replace_sl", 0)}),
           size > 0 => tasks \subseteq tasks'
    PROVE  LadderInv(R)'
<1>1. PICK f \in 0 .. N : Ladders(R, f)
  BY DEF LadderInv
<1>2. size \in Nat
  BY NumbersTyped DEF LadderInv, TypeOK, ExchangeOK
<1>3. \A l \in Levels : Task("tp", l) \in tasks' => Task("tp", l) \in tasks
  BY TakeProfitTasks
<1>4. Ladders(R, f)'
  BY <1>1, <1>2, <1>3, LaddersKept
<1>5. NoEmergency'
  BY EmergencyNot DEF LadderInv
<1>6. CalmLink' /\ TellsOf(R, inbox', size')
  BY DEF LadderInv, CalmLink, link
<1> QED
  BY <1>4, <1>5, <1>6 DEF LadderInv

LEMMA EngineFinishLadder ==
    ASSUME NEW R, CalmLadder(R), LadderInv(R), EngineFinish
    PROVE  LadderInv(R)'
<1>1. /\ handler.at = "engine"
      /\ UNCHANGED <<size, tpLive, slLive, inbox, qty, status, dispatched, sync, inFlight, placed>>
      /\ UNCHANGED link /\ TypeOK'
      /\ reconciler' \in {0, reconciler}
  BY EngineFinishTyped DEF EngineFinish, exchange, link, LadderInv
<1>2. PICK moved \in {FALSE, handler.shift /\ size > 0} :
         LET queued == IF moved THEN tasks \cup {Task("replace_sl", 0)} ELSE tasks
         IN  IF handler.by = "stream" /\ (machine'.state = "closed" \/ qty = 0)
             THEN handler' = Cleanup /\ tasks' = Purged(queued)
             ELSE handler' = Idle /\ tasks' = queued
  BY DEF EngineFinish
<1>3. PICK queued : /\ queued \in {tasks, tasks \cup {Task("replace_sl", 0)}}
                    /\ IF handler.by = "stream" /\ (machine'.state = "closed" \/ qty = 0)
                       THEN handler' = Cleanup /\ tasks' = Purged(queued)
                       ELSE handler' = Idle /\ tasks' = queued
  BY <1>2
<1>4. Purged(queued) \subseteq queued /\ Cleanup.at = "cleanup" /\ Idle.at = "idle"
  BY DEF Purged, Cleanup, Idle
<1>5. CASE qty = 0
  <2>1. Ended
    BY <1>5 DEF LadderInv, Books
  <2>2. machine' = Shut
    <3>1. machine' = AllClosed(machine)
      BY <1>5 DEF EngineFinish
    <3> QED
      BY <2>1, <3>1, MachineFacts DEF Ended
  <2>3. handler'.at # "cleanup" => handler.by # "stream"
    BY <1>3, <1>4, <1>5
  <2>4. handler'.at # "cleanup" => tpLive = {} /\ ~slLive
    BY <1>1, <2>1, <2>3 DEF Ended
  <2>5. Ended'
    BY <1>1, <2>1, <2>2, <2>4, MachinesDiffer DEF Ended
  <2>6. Books(R)'
    BY <2>5 DEF Books, Ended
  <2>7. tasks' \in SUBSET (tasks \cup {Task("replace_sl", 0)}) /\ size = 0
    BY <1>3, <1>4, <2>1 DEF Ended
  <2> QED
    BY <1>1, <2>6, <2>7, InsideLadder
<1>6. CASE qty # 0
  <2>1. PICK b \in 0 .. N : Booked(R, b)
    BY <1>6 DEF LadderInv, Books
  <2>2. b # N /\ N \in Levels /\ N \notin 1 .. b
    <3>1. b # N
      BY <1>6, <2>1, RestFacts DEF Booked
    <3> QED
      BY <3>1, RestFacts
  <2>3. N \in Remaining(status)
    <3>1. status[N] \in {"pending", "open", "triggered", "cancelled"}
      BY <2>2 DEF LadderInv, TypeOK, ContextOK
    <3>2. status[N] # "cancelled" /\ status[N] # "triggered"
      BY <2>1, <2>2 DEF Booked
    <3> QED
      BY <2>2, <3>1, <3>2 DEF Remaining
  <2>4. machine' = Opened
    <3>1. machine' = PartialClose(machine)
      BY <1>6, <2>3 DEF EngineFinish
    <3> QED
      BY <2>1, <3>1, MachineFacts DEF Booked
  <2>5. handler' = Idle /\ tasks' = queued
    BY <1>3, <1>6, <2>4, MachinesDiffer
  <2>6. Booked(R, b)'
    BY <1>1, <1>4, <2>1, <2>4, <2>5 DEF Booked
  <2>7. Books(R)'
    BY <1>1, <1>6, <2>6 DEF Books
  <2>8. tasks' \in SUBSET (tasks \cup {Task("replace_sl", 0)}) /\ tasks \subseteq tasks'
    BY <1>3, <2>5
  <2> QED
    BY <1>1, <2>7, <2>8, InsideLadder
<1> QED
  BY <1>5, <1>6

\* Everything is cancelled, for a position that is flat.
LEMMA CancelRemainingOrdersLadder ==
    ASSUME NEW R, CalmLadder(R), LadderInv(R), CancelRemainingOrders
    PROVE  LadderInv(R)'
<1>1. /\ handler.at = "cleanup" /\ handler' = Idle
      /\ UNCHANGED <<size, inbox, machine, qty, dispatched, sync, inFlight, placed, tasks>>
      /\ UNCHANGED link /\ TypeOK'
  BY CancelRemainingOrdersTyped DEF CancelRemainingOrders, link, queue, LadderInv
<1>2. Ended /\ qty = 0
  BY <1>1 DEF LadderInv, Books, Booked
<1>3. machine = Shut /\ size = 0
  BY <1>1, <1>2 DEF Ended
<1>4. tpLive' = {} /\ slLive' = FALSE
  <2>1. Faults = {} /\ \A c : MayFail(c) = {FALSE}
    BY DEF CalmLadder, MayFail
  <2>2. PICK noFetch \in MayFail("fetch") :
         LET known == {l \in ids : status[l] # "triggered"}
             gone  == known \cup FetchedTp(noFetch)
         IN  /\ \E kept \in IF "cancel" \in Faults THEN SUBSET gone ELSE {{}} :
                   tpLive' = tpLive \ (gone \ kept)
             /\ \E kept \in MayFail("cancel") :
                   slLive' = (slLive /\ ((noFetch /\ slId # "live") \/ kept))
    BY DEF CancelRemainingOrders
  <2>3. noFetch = FALSE /\ FetchedTp(noFetch) = tpLive
    BY <2>1, <2>2 DEF FetchedTp
  <2>4. tpLive' = {}
    BY <2>1, <2>2, <2>3
  <2>5. slLive' = FALSE
    BY <2>1, <2>2, <2>3
  <2> QED
    BY <2>4, <2>5
<1>5. Ended'
  BY <1>1, <1>2, <1>3, <1>4, MachinesDiffer DEF Ended
<1>6. Books(R)'
  BY <1>5 DEF Books, Ended
<1> QED
  BY <1>1, <1>3, <1>4, <1>6, InsideLadder

\* The reconciler finds the level that the position update left out, and books
\* it without changing the quantity.
LEMMA ReconcileLadder ==
    ASSUME NEW R, CalmLadder(R), LadderInv(R), ReconcilePartialClose
    PROVE  LadderInv(R)'
<1>1. /\ handler = Idle /\ handler.at = "idle" /\ reconciler # 0 /\ reconciler' = 0
      /\ UNCHANGED <<size, tpLive, slLive, inbox, sync, inFlight, placed, tasks>>
      /\ UNCHANGED link /\ TypeOK'
  BY ReconcilePartialCloseTyped
     DEF ReconcilePartialClose, Idle, exchange, link, queue, LadderInv
<1>2. CASE UNCHANGED <<context, handler>>
  <2>1. UNCHANGED <<machine, qty, status, dispatched, handler>>
    BY <1>2 DEF context
  <2>2. Books(R)'
    <3>1. CASE qty = 0
      BY <1>1, <2>1, <3>1 DEF LadderInv, Books, Ended
    <3>2. CASE qty # 0
      <4>1. PICK b \in 0 .. N : Booked(R, b)
        BY <3>2 DEF LadderInv, Books
      <4>2. Booked(R, b)'
        BY <1>1, <2>1, <4>1 DEF Booked
      <4> QED
        BY <2>1, <3>2, <4>2 DEF Books
    <3> QED
      BY <3>1, <3>2
  <2> QED
    BY <1>1, <2>2, InsideLadder
<1>3. ASSUME NEW l \in ClosestOpenLevel(reconciler), machine.state \in {"open", "adjusting"},
             \/ EngineBook(l, Restored(qty, reconciler), "reconciler")
             \/ Duplicate(l)
      PROVE  LadderInv(R)'
  <2>1. qty # 0 /\ machine = Opened
    <3>1. machine # Shut
      BY <1>3, MachinesDiffer
    <3> QED
      BY <1>1, <3>1 DEF LadderInv, Books, Ended, Booked
  <2>2. PICK b \in 0 .. N : Booked(R, b)
    BY <2>1 DEF LadderInv, Books
  <2>3. PICK r \in 1 .. b : r < N /\ Close[r] = reconciler /\ r \notin dispatched
    BY <1>1, <2>2 DEF Booked
  <2>4. r \in 1 .. N - 1 /\ r \in Levels /\ status[r] # "triggered" /\ b \in Nat /\ r # N
    BY <2>2, <2>3, RestFacts DEF Booked
  <2>5. l = r
    <3>1. /\ l \in Levels /\ Close[l] = reconciler
          /\ \A k \in 1 .. l - 1 : status[k] = "triggered" \/ Close[k] # reconciler
      BY <1>3 DEF ClosestOpenLevel
    <3>2. ~(r < l)
      <4> SUFFICES ASSUME r < l PROVE FALSE
        OBVIOUS
      <4>1. r \in 1 .. l - 1
        BY <2>4, <3>1, RestFacts
      <4> QED
        BY <2>3, <2>4, <3>1, <4>1
    <3>3. l \in 1 .. N - 1
      BY <2>4, <3>1, <3>2, RestFacts
    <3> QED
      BY <2>3, <2>4, <3>1, <3>3 DEF CalmLadder
  <2>6. ~Duplicate(l)
    BY <2>3, <2>4, <2>5 DEF Duplicate
  <2>7. EngineBook(r, qty + Close[r], "reconciler")
    BY <1>3, <2>3, <2>5, <2>6 DEF Restored
  <2>8. /\ dispatched' = dispatched \cup {r}
        /\ qty' = Cut(qty + Close[r], CloseQty(r, qty + Close[r]))
        /\ status' = [status EXCEPT ![r] = "triggered"]
        /\ handler'.at = "engine" /\ UNCHANGED machine
    BY <2>7 DEF EngineBook
  <2>9. qty' = qty
    <3>1. qty \in Nat /\ Close[r] \in Nat /\ qty > 0
      BY <2>1, <2>4, RestFacts DEF LadderInv, TypeOK, ContextOK
    <3>2. CloseQty(r, qty + Close[r]) = Close[r]
      BY <2>4 DEF CloseQty
    <3> QED
      BY <2>8, <3>1, <3>2 DEF Cut
  <2>10. \A k \in Levels : status'[k] # "cancelled" /\ (status'[k] = "triggered" => k \in dispatched')
    <3>1. status \in [Levels -> {"pending", "open", "triggered", "cancelled"}]
      BY DEF LadderInv, TypeOK, ContextOK
    <3>2. \A k \in Levels : status'[k] = IF k = r THEN "triggered" ELSE status[k]
      BY <2>8, <3>1
    <3> QED
      BY <2>2, <2>8, <3>2 DEF Booked
  <2>11. inbox' # <<>> => Due(R, b, dispatched', Head(inbox'))
    BY <1>1, <2>2, <2>8 DEF Booked, Due
  <2>12. inbox' = <<>> => size' = qty'
    BY <1>1, <2>2, <2>9 DEF Booked
  <2>13. Booked(R, b)'
    BY <1>1, <2>2, <2>3, <2>8, <2>9, <2>10, <2>11, <2>12 DEF Booked
  <2>14. Books(R)'
    BY <2>1, <2>9, <2>13 DEF Books
  <2> QED
    BY <1>1, <2>14, InsideLadder
<1> QED
  BY <1>2, <1>3 DEF ReconcilePartialClose
-----------------------------------------------------------------------------
(* The queue's worker, and everything together. *)

\* The worker leaves the tracker's books alone.
LEMMA StartTaskLadder ==
    ASSUME NEW R, CalmLadder(R), LadderInv(R), StartTask
    PROVE  LadderInv(R)'
<1>1. PICK t \in tasks : /\ \A u \in tasks : Rank(t) <= Rank(u)
                         /\ inFlight' = t /\ tasks' = tasks \ {t}
  BY DEF StartTask
<1>2. /\ UNCHANGED <<size, tpLive, slLive, inbox, up, warm, connected, machine, qty, status,
                     dispatched, handler, reconciler, sync>>
      /\ inFlight = NoTask /\ ~placed' /\ TypeOK'
  BY StartTaskTyped DEF StartTask, exchange, link, context, LadderInv
<1>3. PICK f \in 0 .. N : Ladders(R, f)
  BY DEF LadderInv
<1>4. \A l : Task("tp", l).level = l /\ Rank(Task("tp", l)) = 4 + l /\ Task("tp", l) # NoTask
  BY DEF Task, Rank, NoTask
<1>5. ASSUME NEW l \in Levels
      PROVE  /\ ~Placing(l)
             /\ Placing(l)' <=> t = Task("tp", l)
             /\ Task("tp", l) \in tasks' \/ Placing(l)' <=> Task("tp", l) \in tasks
  BY <1>1, <1>2, <1>4 DEF Placing
<1>6. Ladders(R, f)'
  <2>1. size' \in {0, R[f]} /\ tpLive' \subseteq f + 1 .. N
    BY <1>2, <1>3 DEF Ladders
  <2>2. \A l \in Levels : Task("tp", l) \in tasks' \/ Placing(l)' => l > f /\ \A k \in tpLive' : k < l
    BY <1>2, <1>3, <1>5 DEF Ladders
  <2>3. ASSUME NEW l \in Levels, NEW k \in Levels, Placing(l)', Task("tp", k) \in tasks'
        PROVE  l < k
    <3>1. t = Task("tp", l) /\ Task("tp", k) \in tasks /\ Task("tp", k) # t
      BY <1>1, <1>5, <2>3
    <3>2. 4 + l <= 4 + k /\ l # k
      BY <1>1, <1>4, <3>1
    <3> QED
      BY <3>2, RestFacts
  <2>4. size' > 0 => \A l \in f + 1 .. N : l \in tpLive' \/ Placing(l)' \/ Task("tp", l) \in tasks'
    <3> SUFFICES ASSUME size' > 0, NEW l \in f + 1 .. N
                 PROVE  l \in tpLive' \/ Placing(l)' \/ Task("tp", l) \in tasks'
      OBVIOUS
    <3>1. l \in Levels
      BY RestFacts
    <3> QED
      BY <1>2, <1>3, <1>5, <3>1 DEF Ladders
  <2> QED
    BY <2>1, <2>2, <2>3, <2>4 DEF Ladders
<1>7. NoEmergency'
  BY <1>1 DEF LadderInv, NoEmergency
<1>8. Books(R)'
  BY <1>2, BooksKept DEF LadderInv
<1>9. CalmLink' /\ TellsOf(R, inbox', size')
  BY <1>2 DEF LadderInv, CalmLink
<1> QED
  BY <1>2, <1>6, <1>7, <1>8, <1>9 DEF LadderInv

\* On a flat position the order is rejected; else it is live, behind the orders
\* of the lower levels.
LEMMA ExecuteTaskLadder ==
    ASSUME NEW R, CalmLadder(R), LadderInv(R), ExecuteTask
    PROVE  LadderInv(R)'
<1>1. /\ UNCHANGED <<machine, qty, status, dispatched, handler, reconciler, sync, tasks>>
      /\ inFlight # NoTask /\ ~placed /\ TypeOK' /\ TypeOK
  BY ExecuteTaskTyped DEF ExecuteTask, LadderInv
<1>2. PICK f \in 0 .. N : Ladders(R, f)
  BY DEF LadderInv
<1>3. inFlight.kind # "emergency_close" /\ NoTask.kind # "emergency_close"
  BY DEF LadderInv, NoEmergency, NoTask, Task
<1>4. size \in Nat
  BY <1>1, NumbersTyped DEF TypeOK, ExchangeOK
<1>5. CASE size = 0
  <2>1. inFlight' = NoTask /\ UNCHANGED <<exchange, link, placed>>
    BY <1>5 DEF ExecuteTask
  <2>2. \A l : ~Placing(l)'
    BY <2>1 DEF Placing, NoTask, Task
  <2>3. Ladders(R, f)'
    BY <1>1, <1>2, <1>5, <2>1, <2>2 DEF Ladders, exchange
  <2>4. NoEmergency'
    BY <1>1, <1>3, <2>1 DEF LadderInv, NoEmergency
  <2>5. Books(R)'
    BY <1>1, <2>1, BooksKept DEF LadderInv, exchange, link
  <2>6. CalmLink' /\ TellsOf(R, inbox', size')
    BY <1>1, <2>1 DEF LadderInv, CalmLink, exchange, link
  <2> QED
    BY <1>1, <2>3, <2>4, <2>5, <2>6 DEF LadderInv
<1>6. CASE size # 0
  <2>1. \A c : MayFail(c) = {FALSE}
    BY DEF CalmLadder, MayFail
  <2>2. /\ tpLive' = IF inFlight.kind = "tp" THEN tpLive \cup {inFlight.level} ELSE tpLive
        /\ UNCHANGED <<size, link, inFlight>> /\ placed' = TRUE
    BY <1>3, <1>6, <2>1 DEF ExecuteTask
  <2>3. inFlight.kind = "tp" => /\ inFlight.level \in Levels /\ inFlight = Task("tp", inFlight.level)
                                /\ Placing(inFlight.level)
    <3> SUFFICES ASSUME inFlight.kind = "tp"
                 PROVE  inFlight.level \in Levels /\ inFlight = Task("tp", inFlight.level)
      BY <1>1 DEF Placing
    <3>1. inFlight \in TaskSet
      BY <1>1 DEF TypeOK, QueueOK
    <3>2. \E l \in Levels : inFlight = Task("tp", l)
      BY <3>1, RestFacts DEF TaskSet, StopKinds, Task
    <3> QED
      BY <3>2, TakeProfitTasks
  <2>4. \A l \in Levels : Placing(l) => inFlight.kind = "tp" /\ inFlight.level = l
    BY TakeProfitTasks DEF Placing
  <2>5. \A l : ~Placing(l)'
    BY <2>2 DEF Placing
  <2>6. Ladders(R, f)'
    <3>1. size' \in {0, R[f]}
      BY <1>2, <2>2 DEF Ladders
    <3>2. tpLive' \subseteq f + 1 .. N
      <4>1. tpLive \subseteq f + 1 .. N
        BY <1>2 DEF Ladders
      <4>2. inFlight.kind = "tp" => inFlight.level \in f + 1 .. N
        <5>1. inFlight.kind = "tp" => inFlight.level \in Levels /\ inFlight.level > f
          BY <1>2, <2>3 DEF Ladders
        <5> QED
          BY <5>1, RestFacts
      <4> QED
        BY <2>2, <4>1, <4>2
    <3>3. ASSUME NEW l \in Levels, Task("tp", l) \in tasks'
          PROVE  l > f /\ \A k \in tpLive' : k < l
      BY <1>1, <1>2, <2>2, <2>3, <3>3 DEF Ladders
    <3>4. \A l \in f + 1 .. N : l \in tpLive' \/ Task("tp", l) \in tasks'
      <4> SUFFICES ASSUME NEW l \in f + 1 .. N PROVE l \in tpLive' \/ Task("tp", l) \in tasks'
        OBVIOUS
      <4>1. l \in Levels /\ size > 0
        BY <1>4, <1>6, RestFacts
      <4> QED
        BY <1>1, <1>2, <2>2, <2>4, <4>1 DEF Ladders
    <3> QED
      BY <2>5, <3>1, <3>2, <3>3, <3>4 DEF Ladders
  <2>7. NoEmergency'
    BY <1>1, <2>2 DEF LadderInv, NoEmergency
  <2>8. Books(R)'
    <3>1. qty # 0
      BY <1>6 DEF LadderInv, Books, Ended
    <3>2. PICK b \in 0 .. N : Booked(R, b)
      BY <3>1 DEF LadderInv, Books
    <3>3. Booked(R, b)'
      BY <1>1, <2>2, <3>2 DEF Booked, link
    <3> QED
      BY <1>1, <3>1, <3>3 DEF Books
  <2>9. CalmLink' /\ TellsOf(R, inbox', size')
    BY <1>1, <2>2 DEF LadderInv, CalmLink, link
  <2> QED
    BY <1>1, <2>6, <2>7, <2>8, <2>9 DEF LadderInv
<1> QED
  BY <1>5, <1>6

\* A late callback says "open" of a level; it says so of no machine.
LEMMA RunCallbackLadder ==
    ASSUME NEW R, CalmLadder(R), LadderInv(R), RunCallback
    PROVE  LadderInv(R)'
<1>1. /\ UNCHANGED <<size, tpLive, slLive, inbox, up, warm, connected, qty, dispatched, handler,
                     reconciler, sync, tasks>>
      /\ placed /\ inFlight' = NoTask /\ TypeOK' /\ TypeOK
  BY RunCallbackTyped DEF RunCallback, exchange, link, LadderInv
<1>2. PICK f \in 0 .. N : Ladders(R, f)
  BY DEF LadderInv
<1>3. (\A l : ~Placing(l)) /\ (\A l : ~Placing(l)')
  BY <1>1 DEF Placing, NoTask, Task
<1>4. Ladders(R, f)'
  BY <1>1, <1>2, <1>3 DEF Ladders
<1>5. NoEmergency'
  BY <1>1 DEF LadderInv, NoEmergency, NoTask, Task
<1>6. UNCHANGED machine
  <2>1. machine \in {Opened, Shut}
    BY DEF LadderInv, Books, Booked, Ended
  <2> QED
    BY <2>1, MachineFacts DEF RunCallback
<1>7. \A l \in Levels : status'[l] = status[l] \/ status'[l] = "open"
  <2>1. status \in [Levels -> {"pending", "open", "triggered", "cancelled"}]
    BY <1>1 DEF TypeOK, ContextOK
  <2> QED
    BY <2>1 DEF RunCallback
<1>8. Books(R)'
  <2>1. \A l \in Levels : status'[l] # "cancelled" \/ status'[l] = status[l]
    BY <1>7
  <2>2. \A l \in Levels : status'[l] = "triggered" => status[l] = "triggered"
    BY <1>7
  <2> QED
    BY <1>1, <1>6, <2>1, <2>2, BooksKept DEF LadderInv
<1>9. CalmLink' /\ TellsOf(R, inbox', size')
  BY <1>1 DEF LadderInv, CalmLink
<1> QED
  BY <1>1, <1>4, <1>5, <1>8, <1>9 DEF LadderInv

\* No stream is lost, so nothing is re-synced.
LEMMA LinkCalm ==
    ASSUME NEW R, CalmLadder(R), LadderInv(R)
    PROVE  ~(StopVanishes \/ LoseStream \/ WarmUp \/ SyncStep \/ Hydrate)
<1>1. up /\ warm /\ connected /\ sync.at = "idle"
  BY DEF LadderInv, CalmLink, NoSync
<1>2. ~(losses < MaxLosses)
  BY DEF CalmLadder, LadderInv, TypeOK, EnvOK
<1>3. ~StopVanishes /\ ~LoseStream /\ ~WarmUp /\ ~Hydrate
  BY <1>1, <1>2 DEF StopVanishes, LoseStream, WarmUp, Hydrate
<1>4. ~SyncStep
  BY <1>1 DEF SyncStep, Reconnect, SyncRead, SyncApply, SyncOrders, GiveUp
<1> QED
  BY <1>3, <1>4

LEMMA StepLadder ==
    ASSUME NEW R, CalmLadder(R)
    PROVE  LadderInv(R) /\ [Next]_vars => LadderInv(R)'
<1> SUFFICES ASSUME LadderInv(R), [Next]_vars PROVE LadderInv(R)'
  OBVIOUS
<1>1. CASE \E l \in TpOrders : FillTp(l)
  BY <1>1, FillTpLadder
<1>2. CASE FillSl \/ ManualClose
  BY <1>2, FillSlLadder, ManualCloseLadder
<1>3. CASE StreamStep
  BY <1>3, StreamStepLadder
<1>4. CASE EngineFinish \/ CancelRemainingOrders \/ ReconcilePartialClose
  BY <1>4, EngineFinishLadder, CancelRemainingOrdersLadder, ReconcileLadder
<1>5. CASE WorkerStep
  BY <1>5, StartTaskLadder, ExecuteTaskLadder, RunCallbackLadder DEF WorkerStep
<1>6. CASE StopVanishes \/ LoseStream \/ WarmUp \/ SyncStep \/ Hydrate
  BY <1>6, LinkCalm
<1>7. CASE UNCHANGED vars
  BY <1>7, StepTyped, Unchanged DEF LadderInv
<1> QED
  BY <1>1, <1>2, <1>3, <1>4, <1>5, <1>6, <1>7 DEF Next

\* What the invariant comes to between two handlers.
LadderAgrees == ClosedIsFlat /\ QuantityAgrees /\ ClosedIsClean

LEMMA LadderAgreesNow ==
    ASSUME NEW R, CalmLadder(R), LadderInv(R)
    PROVE  LadderAgrees
<1>1. CASE qty = 0
  <2>1. Ended
    BY <1>1 DEF LadderInv, Books
  <2>2. ClosedIsFlat /\ QuantityAgrees
    BY <2>1 DEF Ended, ClosedIsFlat, QuantityAgrees
  <2>3. ClosedIsClean
    <3> SUFFICES ASSUME Settled, machine.state = "closed" PROVE tpLive = {} /\ ~slLive
      BY DEF ClosedIsClean
    <3>1. handler.at = "idle"
      BY DEF Settled, Quiet, Idle
    <3>2. machine = Shut
      BY <2>1, MachinesDiffer DEF Ended
    <3> QED
      BY <2>1, <3>1, <3>2 DEF Ended
  <2> QED
    BY <2>2, <2>3 DEF LadderAgrees
<1>2. CASE qty # 0
  <2>1. PICK b \in 0 .. N : Booked(R, b)
    BY <1>2 DEF LadderInv, Books
  <2>2. machine.state = "open"
    BY <2>1, MachinesDiffer DEF Booked
  <2>3. QuantityAgrees
    BY <2>1 DEF Booked, QuantityAgrees, Quiet
  <2> QED
    BY <2>2, <2>3 DEF LadderAgrees, ClosedIsFlat, ClosedIsClean
<1> QED
  BY <1>1, <1>2

\* Every calm ladder, however many levels it has: a position is booked as closed
\* only when it is flat, the quantities agree whenever nothing is pending, and a
\* closed position leaves no order behind.
THEOREM LaddersAgree ==
    ASSUME NEW R, CalmLadder(R)
    PROVE  Spec => []LadderAgrees
<1>1. Init => LadderInv(R)
  BY InitLadder
<1>2. LadderInv(R) /\ [Next]_vars => LadderInv(R)'
  BY StepLadder
<1>3. LadderInv(R) => LadderAgrees
  BY LadderAgreesNow
<1> QED
  BY <1>1, <1>2, <1>3, PTL DEF Spec
=============================================================================
