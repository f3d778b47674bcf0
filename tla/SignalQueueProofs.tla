-------------------------- MODULE SignalQueueProofs --------------------------
(***************************************************************************)
(* Proofs about SignalQueue, for any number of workers and reports, any    *)
(* contents, any number of failing calls and lost transactions.            *)
(*                                                                         *)
(* TradesAreFresh and PauseHolds speak of the committed database while the *)
(* worker acts on its session.  They are not inductive: what makes them    *)
(* true is the config lock, so the invariant says what a loaded session    *)
(* knows while it holds it (Exclusive).  AttemptsBounded needs the bound   *)
(* on the rows a session has claimed, before and after their attempt       *)
(* (Claims).                                                               *)
(*                                                                         *)
(* NoPyramiding and NoLiveClosed relate the exchange to the committed row  *)
(* and to the rows in the sessions' hands (PositionInv): what a session    *)
(* wrote stands for the newest position, and what a worker learnt from the *)
(* exchange stays true until it acts, because the config lock keeps every  *)
(* other trader out and reports only close rows.                           *)
(***************************************************************************)
EXTENDS SignalQueue, TLAPS

USE NAssumption, LimitsAssumption, KindsAssumption, NoWorkerAssumption

\* A session that has read the config holds its lock, and what it read can
\* only be ahead of what is committed.
Exclusive ==
    \A w \in Workers :
        /\ ses[w].loaded => /\ holder = w
                            /\ ses[w].last >= db.last
                            /\ ses[w].running => db.running
        /\ wk[w].pc \in Trading => /\ ses[w].loaded /\ ses[w].running
                                   /\ wk[w].item > ses[w].last

Live == {"none", "pending", "waiting"}

\* A queue row that may still be claimed has an attempt left.
HasAttempt(r) == r.attempt <= MaxAttempts /\ (r.status \in Live => r.attempt < MaxAttempts)

\* The rows a worker claimed: not tried yet, in hand, or dealt with.
WorkerClaims(k, s) ==
    /\ k.batch \subseteq k.mine
    /\ \A h \in k.mine :
         IF k.pc \in Trading /\ h = k.item
         THEN s.q[h].attempt <= MaxAttempts
         ELSE /\ HasAttempt(s.q[h])
              /\ h \in k.batch => s.q[h].status = "pending"

Claims ==
    /\ \A h \in Reports : HasAttempt(db.q[h])
    /\ \A w \in Workers : WorkerClaims(wk[w], ses[w])

-----------------------------------------------------------------------------
(* Types of the operators on sessions.                                      *)

LEMMA Constants ==
    /\ NoRow \in Rows /\ NoCtx \in Contexts /\ Blank \in Sessions /\ Idle \in WorkerStates
    /\ 0 \in 0..N /\ 0 \in 0..MaxFaults /\ 0 \in 0..MaxCrashes
BY DEF NoRow, NoCtx, Blank, Idle, Rows, Contexts, Sessions, WorkerStates, QRow,
       Statuses, Reasons, Sides

LEMMA QueueTypes ==
    ASSUME NEW s \in Sessions, NEW h \in Reports, NEW retryable
    PROVE  /\ Attempted(s, h) \in Sessions
           /\ MarkCompleted(s, h) \in Sessions
           /\ MarkRetryOrDead(s, h, retryable) \in Sessions
           /\ Advance(s, h) \in Sessions
<1>1. /\ \A r \in QRow, n \in Nat : [r EXCEPT !.attempt = n] \in QRow
      /\ \A r \in QRow, st \in Statuses : [r EXCEPT !.status = st] \in QRow
  BY DEF QRow
<1>2. \A q \in [Reports -> QRow] : [s EXCEPT !.q = q] \in Sessions
  BY DEF Sessions
<1>3. s.q \in [Reports -> QRow] /\ s.q[h] \in QRow /\ s.q[h].attempt + 1 \in Nat
  BY DEF Sessions, QRow
<1>4. \A r \in QRow : [s.q EXCEPT ![h] = r] \in [Reports -> QRow]
  BY <1>3
<1>5. Attempted(s, h) = [s EXCEPT !.q = [s.q EXCEPT ![h] = [s.q[h] EXCEPT !.attempt = s.q[h].attempt + 1]]]
  BY DEF Attempted
<1>6. Attempted(s, h) \in Sessions
  <2>1. [s.q[h] EXCEPT !.attempt = s.q[h].attempt + 1] \in QRow
    BY <1>1, <1>3
  <2> QED BY <2>1, <1>2, <1>4, <1>5
<1>7. MarkCompleted(s, h) = [s EXCEPT !.q = [s.q EXCEPT ![h] = [s.q[h] EXCEPT !.status = "completed"]]]
  BY DEF MarkCompleted
<1>8. MarkCompleted(s, h) \in Sessions
  BY <1>1, <1>2, <1>3, <1>4, <1>7 DEF Statuses
<1>9. PICK st \in Statuses :
        MarkRetryOrDead(s, h, retryable)
          = [s EXCEPT !.q = [s.q EXCEPT ![h] = [s.q[h] EXCEPT !.status = st]]]
  BY DEF MarkRetryOrDead, Statuses
<1>10. MarkRetryOrDead(s, h, retryable) \in Sessions
  BY <1>1, <1>2, <1>3, <1>4, <1>9
<1>11. Advance(s, h) \in Sessions
  BY DEF Advance, Sessions, Reports
<1> QED BY <1>6, <1>8, <1>10, <1>11

LEMMA LoadedType ==
    ASSUME TypeOK, NEW s \in Sessions
    PROVE  Loaded(s) \in Sessions
BY DEF Loaded, Sessions, TypeOK, Databases

LEMMA SyncTypes ==
    ASSUME TypeOK, NEW s \in Sessions
    PROVE  /\ Selected(s) \in Sessions
           /\ Synced(s) \in Sessions
<1>1. Selected(s) \in Sessions
  BY DEF Selected, Sessions, TypeOK, Databases, Rows
<1>2. Adopted \in Rows
  BY DEF Adopted, Rows, TypeOK, Reasons, Sides
<1>3. Synced(s) \in Sessions
  BY <1>2 DEF Synced, Sessions, TypeOK, Rows, Sides
<1> QED BY <1>1, <1>3

LEMMA ReturnTypes ==
    ASSUME TypeOK, NEW w \in Workers, NEW h \in Reports, NEW s \in Sessions,
           Return(w, h, s)
    PROVE  ses' \in [Workers -> Sessions] /\ wk' \in [Workers -> WorkerStates]
<1>1. wk[w] \in WorkerStates
  BY DEF TypeOK
<1>2. [wk[w] EXCEPT !.pc = "loop", !.batch = wk[w].batch \ {h}] \in WorkerStates
  BY <1>1 DEF WorkerStates
<1> QED BY <1>2 DEF Return, TypeOK

LEMMA DoneTypes ==
    ASSUME TypeOK, NEW w \in Workers, NEW s \in Sessions, wk[w].item \in Reports,
           Done(w, s)
    PROVE  ses' \in [Workers -> Sessions] /\ wk' \in [Workers -> WorkerStates]
BY QueueTypes, ReturnTypes, Zenon DEF Done

LEMMA RaiseTypes ==
    ASSUME TypeOK, NEW w \in Workers, NEW s \in Sessions, wk[w].item \in Reports,
           NEW retryable, Raise(w, s, retryable)
    PROVE  ses' \in [Workers -> Sessions] /\ wk' \in [Workers -> WorkerStates]
BY QueueTypes, ReturnTypes, Zenon DEF Raise

LEMMA LeaveTypes ==
    ASSUME TypeOK, NEW w \in Workers, Leave(w)
    PROVE  /\ ses' \in [Workers -> Sessions] /\ wk' \in [Workers -> WorkerStates]
           /\ holder' \in Workers \cup {NoWorker}
BY Constants DEF Leave, TypeOK

LEMMA FieldTypes ==
    ASSUME TypeOK, NEW w \in Workers
    PROVE  /\ ses[w] \in Sessions /\ wk[w] \in WorkerStates
           /\ ses[w].row \in Rows
           /\ \A n \in Nat : [ses[w] EXCEPT !.streak = n] \in Sessions
           /\ \A r \in Rows : [ses[w] EXCEPT !.row = r, !.own = TRUE] \in Sessions
           /\ \A r \in Rows : [ses[w] EXCEPT !.row = r, !.own = TRUE, !.streak = 0] \in Sessions
           /\ 0 \in Nat /\ ses[w].streak \in Nat /\ ses[w].streak + 1 \in Nat
<1>1. ses[w] \in Sessions /\ wk[w] \in WorkerStates
  BY DEF TypeOK
<1>2. ses[w].row \in Rows /\ ses[w].streak \in Nat
  BY <1>1 DEF Sessions
<1>3. \A n \in Nat : [ses[w] EXCEPT !.streak = n] \in Sessions
  BY <1>1 DEF Sessions
<1>4. \A r \in Rows : [ses[w] EXCEPT !.row = r, !.own = TRUE] \in Sessions
  BY <1>1 DEF Sessions
<1>5. \A r \in Rows : [ses[w] EXCEPT !.row = r, !.own = TRUE, !.streak = 0] \in Sessions
  BY <1>1 DEF Sessions
<1>6. 0 \in Nat /\ ses[w].streak + 1 \in Nat
  BY <1>2
<1> QED BY <1>1, <1>2, <1>3, <1>4, <1>5, <1>6, Zenon

LEMMA ClosedTypes ==
    ASSUME TypeOK, NEW w \in Workers, NEW why \in Reasons
    PROVE  /\ Closed(ses[w], why) \in Sessions
           /\ \A b \in BOOLEAN : [Closed(ses[w], why) EXCEPT !.running = b] \in Sessions
           /\ Closed(ses[w], why).running \in BOOLEAN
<1>1. [ses[w].row EXCEPT !.open = FALSE, !.reason = why] \in Rows
  BY FieldTypes DEF Rows
<1>2. Closed(ses[w], why)
        = [ses[w] EXCEPT !.row = [ses[w].row EXCEPT !.open = FALSE, !.reason = why], !.streak = 0]
  BY FieldTypes DEF Closed, Sessions, Rows
<1>3. Closed(ses[w], why) \in Sessions
  BY <1>1, <1>2, FieldTypes, ZenonT(60) DEF Sessions
<1> QED BY <1>3 DEF Sessions

-----------------------------------------------------------------------------
(* Type correctness.                                                        *)

\* A trading worker's item is one of the rows it claimed.
ItemOK == \A w \in Workers : wk[w].pc \in Trading => wk[w].item \in Reports

LEMMA TypeInit == Init => TypeOK /\ ItemOK
<1> SUFFICES ASSUME Init PROVE TypeOK /\ ItemOK
  OBVIOUS
<1>1. [h \in Reports |-> [status |-> "none", attempt |-> 0]] \in [Reports -> QRow]
  BY DEF QRow, Statuses
<1>2. db \in Databases
  BY <1>1, Constants DEF Init, Databases
<1>3. exch \in [id : Nat, side : Sides, size : Nat, stop : BOOLEAN]
  BY DEF Init, Sides
<1>4. rep \in [Reports -> Kinds]
  BY DEF Init
<1>5. wk \in [Workers -> WorkerStates] /\ ses \in [Workers -> Sessions]
  BY Constants DEF Init
<1>6. ItemOK
  BY DEF Init, ItemOK, Idle, Trading
<1> QED BY <1>2, <1>3, <1>4, <1>5, <1>6, Constants DEF Init, TypeOK

\* Steps that end an item, in whatever way, leave the worker outside Trading.
LEMMA ReturnItem ==
    ASSUME TypeOK, ItemOK, NEW w \in Workers, NEW h \in Reports, NEW s, Return(w, h, s)
    PROVE  ItemOK'
BY DEF ItemOK, Return, TypeOK, WorkerStates, Trading

LEMMA LeaveItem ==
    ASSUME TypeOK, ItemOK, NEW w \in Workers, Leave(w)
    PROVE  ItemOK'
BY DEF ItemOK, Leave, TypeOK, Idle, Trading

LEMMA TypeWorkerQueue ==
    ASSUME TypeOK, ItemOK, NEW w \in Workers,
           Claim(w) \/ (\E h \in Reports : Blocked(w, h) \/ Skip(w, h) \/ Accept(w, h))
    PROVE  TypeOK' /\ ItemOK'
<1>1. CASE Claim(w)
  <2>1. [Idle EXCEPT !.pc = "loop", !.mine = Due, !.batch = Due] \in WorkerStates
    BY Constants DEF Due, WorkerStates
  <2>2. [Blank EXCEPT !.q = db.q] \in Sessions
    BY Constants DEF Sessions, TypeOK, Databases
  <2>3. wk' \in [Workers -> WorkerStates] /\ ses' \in [Workers -> Sessions]
    BY <1>1, <2>1, <2>2 DEF Claim, TypeOK
  <2>4. ItemOK'
    BY <1>1 DEF Claim, ItemOK, TypeOK, WorkerStates, Trading, Idle
  <2> QED BY <1>1, <2>3, <2>4 DEF Claim, TypeOK
<1>2. ASSUME NEW h \in Reports, Blocked(w, h) PROVE TypeOK' /\ ItemOK'
  <2>1. MarkRetryOrDead(Attempted(ses[w], h), h, TRUE) \in Sessions
    BY QueueTypes, FieldTypes
  <2>2. wk' \in [Workers -> WorkerStates] /\ ses' \in [Workers -> Sessions]
    BY <1>2, <2>1, ReturnTypes DEF Blocked
  <2>3. ItemOK'
    BY <1>2, ReturnItem DEF Blocked
  <2> QED BY <1>2, <2>2, <2>3 DEF Blocked, TypeOK
<1>3. ASSUME NEW h \in Reports, Skip(w, h) PROVE TypeOK' /\ ItemOK'
  <2> DEFINE s == Attempted(Loaded(ses[w]), h)
  <2>1. s \in Sessions
    BY QueueTypes, LoadedType, FieldTypes
  <2>2. PICK t \in Sessions : Return(w, h, t)
    BY <1>3, <2>1, QueueTypes DEF Skip
  <2>3. wk' \in [Workers -> WorkerStates] /\ ses' \in [Workers -> Sessions]
    BY <2>2, ReturnTypes
  <2>4. ItemOK'
    BY <2>2, ReturnItem
  <2> QED BY <1>3, <2>3, <2>4 DEF Skip, TypeOK
<1>4. ASSUME NEW h \in Reports, Accept(w, h) PROVE TypeOK' /\ ItemOK'
  <2>1. Attempted(Loaded(ses[w]), h) \in Sessions
    BY QueueTypes, LoadedType, FieldTypes
  <2>2. ses' \in [Workers -> Sessions]
    BY <1>4, <2>1 DEF Accept, TypeOK
  <2>3. wk' = [wk EXCEPT ![w] = [wk[w] EXCEPT !.pc = "sync", !.item = h]]
    BY <1>4 DEF Accept, TypeOK
  <2>4. [wk[w] EXCEPT !.pc = "sync", !.item = h] \in WorkerStates
    <3>1. h \in 0..N
      BY DEF Reports
    <3> QED BY <3>1, FieldTypes DEF WorkerStates, Trading
  <2>5. wk' \in [Workers -> WorkerStates]
    BY <2>3, <2>4 DEF TypeOK
  <2>6. ItemOK'
    BY <2>3, FieldTypes DEF ItemOK, WorkerStates, TypeOK
  <2> QED BY <1>4, <2>2, <2>5, <2>6 DEF Accept, TypeOK
<1> QED BY <1>1, <1>2, <1>3, <1>4

LEMMA SamePc ==
    ASSUME TypeOK, ItemOK, NEW w \in Workers, wk[w].pc \in Trading,
           NEW k \in WorkerStates, k.item = wk[w].item,
           wk' = [wk EXCEPT ![w] = k]
    PROVE  ItemOK' /\ wk' \in [Workers -> WorkerStates]
BY DEF ItemOK, TypeOK

LEMMA TypeSync ==
    ASSUME TypeOK, ItemOK, NEW w \in Workers, SyncOpenPosition(w) \/ SyncFails(w)
    PROVE  TypeOK' /\ ItemOK'
<1>1. CASE SyncOpenPosition(w)
  <2> DEFINE s == Synced(Selected(ses[w]))
             k == [wk[w] EXCEPT !.pc = "decide", !.flat = (exch.size = 0), !.found = s.own]
  <2>1. s \in Sessions
    BY SyncTypes, FieldTypes
  <2>2. ses' \in [Workers -> Sessions]
    BY <1>1, <2>1 DEF SyncOpenPosition, TypeOK
  <2>3. s.own \in BOOLEAN
    BY <2>1 DEF Sessions
  <2>4. k \in WorkerStates /\ k.item = wk[w].item
    BY <2>3, FieldTypes DEF WorkerStates, Trading
  <2>5. wk' = [wk EXCEPT ![w] = k]
    BY <1>1 DEF SyncOpenPosition, TypeOK
  <2>6. ItemOK' /\ wk' \in [Workers -> WorkerStates]
    BY <1>1, <2>4, <2>5, SamePc DEF SyncOpenPosition, Trading
  <2> QED BY <1>1, <2>2, <2>6 DEF SyncOpenPosition, TypeOK
<1>2. CASE SyncFails(w)
  <2>1. wk[w].item \in Reports
    BY <1>2 DEF SyncFails, ItemOK, Trading
  <2>2. ses' \in [Workers -> Sessions] /\ wk' \in [Workers -> WorkerStates]
    BY <1>2, <2>1, SyncTypes, FieldTypes, RaiseTypes DEF SyncFails
  <2>3. ItemOK'
    BY <1>2, <2>1, ReturnItem DEF SyncFails, Raise
  <2>4. faults' \in 0..MaxFaults
    BY <1>2 DEF SyncFails, TypeOK
  <2> QED BY <1>2, <2>2, <2>3, <2>4 DEF SyncFails, TypeOK
<1> QED BY <1>1, <1>2

LEMMA OpenedType ==
    ASSUME TypeOK, NEW side \in Sides, NEW stop \in BOOLEAN
    PROVE  Opened(side, stop) \in [id : Nat, side : Sides, size : Nat, stop : BOOLEAN]
BY DEF Opened, TypeOK

LEMMA SignalSide ==
    ASSUME TypeOK, NEW w \in Workers, wk[w].item \in Reports, Signal(w).trend # "neutral"
    PROVE  Signal(w).trend \in Sides
BY DEF Signal, TypeOK, AllKinds, Sides

LEMMA TypeEntry ==
    ASSUME TypeOK, ItemOK, NEW w \in Workers,
           \/ Decline(w)
           \/ \E stop \in BOOLEAN : EnterPosition(w, stop)
           \/ \E executed, retryable \in BOOLEAN : EntryFails(w, executed, retryable)
    PROVE  TypeOK' /\ ItemOK'
<1> wk[w].pc = "decide" /\ wk[w].item \in Reports
  BY DEF Decline, EnterPosition, EntryFails, Flat, ItemOK, Trading
<1>1. CASE Decline(w)
  <2>1. PICK n \in Nat : Done(w, [ses[w] EXCEPT !.streak = n])
    BY <1>1, FieldTypes DEF Decline
  <2>2. ses' \in [Workers -> Sessions] /\ wk' \in [Workers -> WorkerStates]
    BY <2>1, FieldTypes, DoneTypes
  <2>3. ItemOK'
    BY <2>1, ReturnItem DEF Done
  <2> QED BY <1>1, <2>2, <2>3 DEF Decline, TypeOK
<1>2. ASSUME NEW stop \in BOOLEAN, EnterPosition(w, stop) PROVE TypeOK' /\ ItemOK'
  <2>1. exch' \in [id : Nat, side : Sides, size : Nat, stop : BOOLEAN]
    BY <1>2, SignalSide, OpenedType DEF EnterPosition, MayEnter
  <2>2. [wk[w] EXCEPT !.pc = "entered"] \in WorkerStates
    BY FieldTypes DEF WorkerStates, Trading
  <2>3. wk' = [wk EXCEPT ![w] = [wk[w] EXCEPT !.pc = "entered"]]
    BY <1>2 DEF EnterPosition, TypeOK
  <2>4. [wk[w] EXCEPT !.pc = "entered"].item = wk[w].item
    BY FieldTypes DEF WorkerStates
  <2>5. ItemOK' /\ wk' \in [Workers -> WorkerStates]
    BY <2>2, <2>3, <2>4, SamePc DEF Trading
  <2> QED BY <1>2, <2>1, <2>5 DEF EnterPosition, TypeOK
<1>3. ASSUME NEW executed \in BOOLEAN, NEW retryable \in BOOLEAN,
             EntryFails(w, executed, retryable)
      PROVE  TypeOK' /\ ItemOK'
  <2>1. exch' \in [id : Nat, side : Sides, size : Nat, stop : BOOLEAN]
    <3>1. Signal(w).trend \in Sides
      BY <1>3, SignalSide DEF EntryFails, MayEnter
    <3>2. exch' = exch \/ \E stop \in BOOLEAN : exch' = Opened(Signal(w).trend, stop)
      BY <1>3 DEF EntryFails
    <3> QED BY <3>1, <3>2, OpenedType DEF TypeOK
  <2>2. ses' \in [Workers -> Sessions] /\ wk' \in [Workers -> WorkerStates]
    BY <1>3, FieldTypes, RaiseTypes DEF EntryFails
  <2>3. ItemOK'
    BY <1>3, ReturnItem DEF EntryFails, Raise
  <2>4. faults' \in 0..MaxFaults /\ votes' \subseteq Reports
    BY <1>3 DEF EntryFails, TypeOK
  <2> QED BY <1>3, <2>1, <2>2, <2>3, <2>4 DEF EntryFails, TypeOK
<1> QED BY <1>1, <1>2, <1>3

LEMMA TypeRecord ==
    ASSUME TypeOK, ItemOK, NEW w \in Workers,
           RecordEntry(w) \/ RecordEntryRuntimeFailed(w)
    PROVE  TypeOK' /\ ItemOK'
<1>1. wk[w].item \in Reports
  BY DEF RecordEntry, RecordEntryRuntimeFailed, ItemOK, Trading
<1>2. EntryRow \in Rows /\ [EntryRow EXCEPT !.open = FALSE, !.reason = "emergency"] \in Rows
  BY DEF EntryRow, Rows, TypeOK, Reasons, Sides
<1>3. PICK s \in Sessions : Done(w, s)
  <2> DEFINE r == [EntryRow EXCEPT !.open = FALSE, !.reason = "emergency"]
  <2>1. [ses[w] EXCEPT !.row = EntryRow, !.own = TRUE, !.streak = 0] \in Sessions
    BY <1>2, FieldTypes, Zenon
  <2>2. [ses[w] EXCEPT !.own = TRUE, !.row = r] \in Sessions
    <3>1. ses[w] \in Sessions /\ r \in Rows
      BY <1>2, FieldTypes
    <3> QED BY <3>1 DEF Sessions
  <2>3. \/ Done(w, [ses[w] EXCEPT !.row = EntryRow, !.own = TRUE, !.streak = 0])
        \/ Done(w, [ses[w] EXCEPT !.own = TRUE, !.row = r])
    BY Zenon DEF RecordEntry, RecordEntryRuntimeFailed
  <2> QED BY <2>1, <2>2, <2>3, Zenon
<1>4. ses' \in [Workers -> Sessions] /\ wk' \in [Workers -> WorkerStates]
  BY <1>1, <1>3, DoneTypes
<1>5. ItemOK'
  BY <1>1, <1>3, ReturnItem DEF Done
<1>6. CASE RecordEntry(w)
  <2>1. ctx' \in Contexts
    BY <1>6 DEF RecordEntry, Contexts, TypeOK
  <2> QED BY <1>6, <1>4, <1>5, <2>1 DEF RecordEntry, TypeOK
<1>7. CASE RecordEntryRuntimeFailed(w)
  <2>1. exch' \in [id : Nat, side : Sides, size : Nat, stop : BOOLEAN]
    BY <1>7 DEF RecordEntryRuntimeFailed, TypeOK
  <2> QED BY <1>7, <1>4, <1>5, <2>1 DEF RecordEntryRuntimeFailed, TypeOK
<1> QED BY <1>6, <1>7

LEMMA TypeHold ==
    ASSUME TypeOK, ItemOK, NEW w \in Workers,
           MarkClosedOnExchange(w) \/ Hold(w) \/ AwaitConfirmation(w)
    PROVE  TypeOK' /\ ItemOK'
<1>1. wk[w].item \in Reports
  BY DEF MarkClosedOnExchange, Hold, AwaitConfirmation, Holding, ItemOK, Trading
<1>2. Counted(w) \in Sessions
  <2>1. [ses[w] EXCEPT !.streak = ses[w].streak + 1] \in Sessions
    BY FieldTypes
  <2> QED BY <2>1, FieldTypes DEF Counted
<1>3. Closed(ses[w], "already_closed") \in Sessions
  BY ClosedTypes DEF Reasons
<1>4. PICK s \in Sessions : Done(w, s)
  BY <1>2, <1>3, FieldTypes DEF MarkClosedOnExchange, Hold, AwaitConfirmation
<1>5. ses' \in [Workers -> Sessions] /\ wk' \in [Workers -> WorkerStates]
  BY <1>1, <1>4, DoneTypes
<1>6. ItemOK'
  BY <1>1, <1>4, ReturnItem DEF Done
<1>7. votes' \subseteq Reports
  BY <1>1 DEF MarkClosedOnExchange, Hold, AwaitConfirmation, TypeOK
<1> QED BY <1>5, <1>6, <1>7 DEF MarkClosedOnExchange, Hold, AwaitConfirmation, TypeOK

LEMMA TypeClose ==
    ASSUME TypeOK, ItemOK, NEW w \in Workers,
           \/ SendClose(w)
           \/ \E executed \in BOOLEAN : CloseFails(w, executed)
           \/ \E pause \in BOOLEAN : ConfirmClose(w, pause)
           \/ ConfirmFails(w)
    PROVE  TypeOK' /\ ItemOK'
<1>1. wk[w].item \in Reports
  BY DEF SendClose, CloseFails, ConfirmClose, ConfirmFails, Holding, ItemOK, Trading
<1>2. Counted(w) \in Sessions
  <2>1. [ses[w] EXCEPT !.streak = ses[w].streak + 1] \in Sessions
    BY FieldTypes
  <2> QED BY <2>1, FieldTypes DEF Counted
<1>3. CASE SendClose(w)
  <2> DEFINE k == [wk[w] EXCEPT !.pc = "closing", !.fast = Fast(w)]
  <2>1. k \in WorkerStates /\ k.item = wk[w].item
    BY FieldTypes DEF WorkerStates, Trading, Fast
  <2>2. wk' = [wk EXCEPT ![w] = k]
    BY <1>3 DEF SendClose, TypeOK
  <2>3. ItemOK' /\ wk' \in [Workers -> WorkerStates]
    BY <1>3, <2>1, <2>2, SamePc DEF SendClose, Holding, Trading
  <2>4. ses' \in [Workers -> Sessions]
    BY <1>3, <1>2 DEF SendClose, TypeOK
  <2>5. /\ exch' \in [id : Nat, side : Sides, size : Nat, stop : BOOLEAN]
        /\ votes' \subseteq Reports
    BY <1>1, <1>3 DEF SendClose, TypeOK
  <2> QED BY <1>3, <2>3, <2>4, <2>5 DEF SendClose, TypeOK
<1>4. ASSUME NEW executed \in BOOLEAN, CloseFails(w, executed) PROVE TypeOK' /\ ItemOK'
  <2>1. ses' \in [Workers -> Sessions] /\ wk' \in [Workers -> WorkerStates]
    BY <1>4, <1>1, <1>2, RaiseTypes DEF CloseFails
  <2>2. ItemOK'
    BY <1>4, <1>1, ReturnItem DEF CloseFails, Raise
  <2>3. exch' \in [id : Nat, side : Sides, size : Nat, stop : BOOLEAN]
    <3>1. exch' = exch \/ exch' = [exch EXCEPT !.size = 0, !.stop = FALSE]
      BY <1>4 DEF CloseFails
    <3>2. [exch EXCEPT !.size = 0, !.stop = FALSE]
            \in [id : Nat, side : Sides, size : Nat, stop : BOOLEAN]
      BY DEF TypeOK
    <3> QED BY <3>1, <3>2, Zenon DEF TypeOK
  <2>4. votes' \subseteq Reports
    BY <1>1, <1>4 DEF CloseFails, TypeOK
  <2>5. faults' \in 0..MaxFaults
    <3>1. faults' = faults \/ (faults < MaxFaults /\ faults' = faults + 1)
      BY <1>4 DEF CloseFails
    <3>2. faults \in 0..MaxFaults
      BY DEF TypeOK
    <3> QED BY <3>1, <3>2
  <2> QED BY <1>4, <2>1, <2>2, <2>3, <2>4, <2>5 DEF CloseFails, TypeOK
<1>5. ASSUME NEW pause \in BOOLEAN, ConfirmClose(w, pause) PROVE TypeOK' /\ ItemOK'
  <2> DEFINE c == Closed(ses[w], "opposite")
  <2>1. c.running \in BOOLEAN /\ \A b \in BOOLEAN : [c EXCEPT !.running = b] \in Sessions
    BY ClosedTypes DEF Reasons
  <2>2. (c.running /\ ~pause) \in BOOLEAN
    OBVIOUS
  <2>3. [c EXCEPT !.running = c.running /\ ~pause] \in Sessions
    BY <2>1, <2>2, Zenon
  <2>4. Done(w, [c EXCEPT !.running = c.running /\ ~pause])
    BY <1>5 DEF ConfirmClose
  <2>5. ses' \in [Workers -> Sessions] /\ wk' \in [Workers -> WorkerStates]
    BY <1>1, <2>3, <2>4, DoneTypes
  <2>6. ItemOK'
    BY <1>1, <2>4, ReturnItem DEF Done
  <2> QED BY <1>5, <2>5, <2>6 DEF ConfirmClose, TypeOK
<1>6. CASE ConfirmFails(w)
  <2>1. ses' \in [Workers -> Sessions] /\ wk' \in [Workers -> WorkerStates]
    BY <1>6, <1>1, FieldTypes, RaiseTypes DEF ConfirmFails
  <2>2. ItemOK'
    BY <1>6, <1>1, ReturnItem DEF ConfirmFails, Raise
  <2>3. faults' \in 0..MaxFaults
    BY <1>6 DEF ConfirmFails, TypeOK
  <2> QED BY <1>6, <2>1, <2>2, <2>3 DEF ConfirmFails, TypeOK
<1> QED BY <1>3, <1>4, <1>5, <1>6

LEMMA TypeLeave ==
    ASSUME TypeOK, ItemOK, NEW w \in Workers, Commit(w) \/ Crash(w) \/ InsertConflict(w)
    PROVE  TypeOK' /\ ItemOK'
<1>1. Leave(w)
  BY DEF Commit, Crash, InsertConflict
<1>2. /\ ses' \in [Workers -> Sessions] /\ wk' \in [Workers -> WorkerStates]
      /\ holder' \in Workers \cup {NoWorker} /\ ItemOK'
  BY <1>1, LeaveTypes, LeaveItem
<1>3. Committed(w) \in Databases
  <2>1. ses[w] \in Sessions /\ db \in Databases
    BY FieldTypes DEF TypeOK
  <2>2. [h \in Reports |-> IF h \in wk[w].mine THEN ses[w].q[h] ELSE db.q[h]]
          \in [Reports -> QRow]
    BY <2>1 DEF Sessions, Databases
  <2> QED BY <2>1, <2>2 DEF Committed, Sessions, Databases
<1>4. CASE Commit(w)
  BY <1>2, <1>3, <1>4 DEF Commit, TypeOK
<1>5. CASE Crash(w)
  <2>1. ctx' \in Contexts
    BY <1>5, Constants DEF Crash, TypeOK
  <2>2. crashes' \in 0..MaxCrashes
    BY <1>5 DEF Crash, TypeOK
  <2> QED BY <1>2, <1>5, <2>1, <2>2 DEF Crash, TypeOK
<1>6. CASE InsertConflict(w)
  BY <1>2, <1>6 DEF InsertConflict, TypeOK
<1> QED BY <1>4, <1>5, <1>6

\* The steps that touch neither a worker nor its session.
Outside ==
    \/ \E h \in Reports : RetryDue(h)
    \/ World

LEMMA RowTypes ==
    ASSUME TypeOK
    PROVE  /\ db.row \in Rows
           /\ \A r \in Rows : [db EXCEPT !.row = r] \in Databases
           /\ \A q \in [Reports -> QRow] : [db EXCEPT !.q = q] \in Databases
           /\ \A b \in BOOLEAN : [db EXCEPT !.running = b] \in Databases
<1>1. db \in Databases
  BY DEF TypeOK
<1> QED BY <1>1 DEF Databases

LEMMA PersistType ==
    ASSUME TypeOK, NEW c \in Contexts
    PROVE  PersistContext(c) \in Databases
<1>1. [db.row EXCEPT !.open = TRUE, !.sl = c.sl, !.ladder = c.ladder] \in Rows
  BY RowTypes DEF Rows, Contexts
<1>2. PersistContext(c) \in {db, [db EXCEPT !.row = [db.row EXCEPT !.open = TRUE, !.sl = c.sl, !.ladder = c.ladder]]}
  BY RowTypes DEF PersistContext, TypeOK, Databases, Rows
<1> QED BY <1>1, <1>2, RowTypes DEF TypeOK

LEMMA TypeOutside ==
    ASSUME TypeOK, ItemOK, Outside
    PROVE  TypeOK' /\ ItemOK'
<1>1. wk' = wk /\ ses' = ses /\ holder' = holder
  BY DEF Outside, World, RetryDue, EnqueueHistorySignal, ExchangeCloses, Reconcile,
         StreamCloses, StopPlaced, TakeProfitFills, TickPersists, SetRunning
<1>2. ItemOK'
  BY <1>1 DEF ItemOK
<1>3. ASSUME NEW h \in Reports, RetryDue(h) PROVE TypeOK'
  <2>1. [db.q[h] EXCEPT !.status = "pending"] \in QRow
    BY DEF TypeOK, Databases, QRow, Statuses
  <2>2. [db.q EXCEPT ![h] = [db.q[h] EXCEPT !.status = "pending"]] \in [Reports -> QRow]
    BY <2>1 DEF TypeOK, Databases
  <2>3. db' = [db EXCEPT !.q = [db.q EXCEPT ![h] = [db.q[h] EXCEPT !.status = "pending"]]]
    BY <1>3 DEF RetryDue
  <2>4. db' \in Databases
    BY <2>2, <2>3, RowTypes
  <2> QED BY <1>3, <2>4 DEF RetryDue, TypeOK
<1>4. ASSUME NEW k \in Kinds, EnqueueHistorySignal(k) PROVE TypeOK'
  <2>1. made + 1 \in Reports /\ made' \in 0..N
    BY <1>4 DEF EnqueueHistorySignal, TypeOK, Reports
  <2>2. rep' \in [Reports -> Kinds]
    BY <1>4, <2>1 DEF EnqueueHistorySignal, TypeOK
  <2>3. [db.q EXCEPT ![made + 1] = [status |-> "pending", attempt |-> 0]] \in [Reports -> QRow]
    BY <2>1 DEF TypeOK, Databases, QRow, Statuses
  <2>4. db' \in Databases
    <3>1. db' \in {db, [db EXCEPT !.q = [db.q EXCEPT ![made + 1] = [status |-> "pending", attempt |-> 0]]]}
      BY <1>4 DEF EnqueueHistorySignal
    <3> QED BY <3>1, <2>3, RowTypes DEF TypeOK
  <2> QED BY <1>4, <2>1, <2>2, <2>4 DEF EnqueueHistorySignal, TypeOK
<1>5. CASE ExchangeCloses
  <2>1. exch' \in [id : Nat, side : Sides, size : Nat, stop : BOOLEAN]
    BY <1>5 DEF ExchangeCloses, TypeOK
  <2> QED BY <1>2, <1>5, <2>1 DEF ExchangeCloses, TypeOK
<1>6. CASE Reconcile
  <2>1. [db.row EXCEPT !.open = FALSE, !.reason = "reconciled"] \in Rows
    BY RowTypes DEF Rows, Reasons
  <2>2. db' = [db EXCEPT !.row = [db.row EXCEPT !.open = FALSE, !.reason = "reconciled"]]
    BY <1>6, RowTypes DEF Reconcile, TypeOK, Databases, Rows
  <2>3. db' \in Databases
    BY <2>1, <2>2, RowTypes
  <2> QED BY <1>2, <1>6, <2>3, Constants DEF Reconcile, TypeOK
<1>7. CASE StreamCloses
  <2> DEFINE r == [db.row EXCEPT !.open = FALSE, !.reason = "stream", !.sl = ctx.sl]
  <2>1. r \in Rows
    BY RowTypes DEF Rows, Reasons, TypeOK, Contexts
  <2>2. db' \in {db, [db EXCEPT !.row = r]}
    <3>1. [db EXCEPT !.row.open = FALSE, !.row.reason = "stream", !.row.sl = ctx.sl]
            = [db EXCEPT !.row = r]
      BY RowTypes DEF TypeOK, Databases, Rows
    <3> QED BY <1>7, <3>1 DEF StreamCloses
  <2>3. db' \in Databases
    BY <2>1, <2>2, RowTypes DEF TypeOK
  <2> QED BY <1>2, <1>7, <2>3, Constants DEF StreamCloses, TypeOK
<1>8. CASE StopPlaced
  <2>1. [ctx EXCEPT !.sl = TRUE] \in Contexts
    BY DEF TypeOK, Contexts
  <2>2. db' \in Databases /\ ctx' \in Contexts
    BY <1>8, <2>1, PersistType DEF StopPlaced
  <2>3. exch' \in [id : Nat, side : Sides, size : Nat, stop : BOOLEAN]
    BY <1>8 DEF StopPlaced, TypeOK
  <2> QED BY <1>2, <1>8, <2>2, <2>3 DEF StopPlaced, TypeOK
<1>9. CASE TakeProfitFills
  <2>1. [ctx EXCEPT !.ladder = TRUE] \in Contexts
    BY DEF TypeOK, Contexts
  <2>2. db' \in Databases /\ ctx' \in Contexts
    BY <1>9, <2>1, PersistType DEF TakeProfitFills
  <2> QED BY <1>2, <1>9, <2>2 DEF TakeProfitFills, TypeOK
<1>10. CASE TickPersists
  <2>1. db' \in Databases
    BY <1>10, PersistType DEF TickPersists, TypeOK
  <2> QED BY <1>2, <1>10, <2>1 DEF TickPersists, TypeOK
<1>11. ASSUME NEW b \in BOOLEAN, SetRunning(b) PROVE TypeOK'
  <2>1. db' \in Databases
    BY <1>11, RowTypes, Zenon DEF SetRunning
  <2> QED BY <1>11, <2>1 DEF SetRunning, TypeOK
<1> QED BY <1>2, <1>3, <1>4, <1>5, <1>6, <1>7, <1>8, <1>9, <1>10, <1>11 DEF Outside, World

LEMMA TypeNext == TypeOK /\ ItemOK /\ [Next]_vars => TypeOK' /\ ItemOK'
<1> SUFFICES ASSUME TypeOK, ItemOK, [Next]_vars PROVE TypeOK' /\ ItemOK'
  OBVIOUS
<1>1. ASSUME NEW w \in Workers, Step(w) \/ Crash(w) PROVE TypeOK' /\ ItemOK'
  BY <1>1, TypeWorkerQueue, TypeSync, TypeEntry, TypeRecord, TypeHold, TypeClose, TypeLeave,
     Zenon DEF Step
<1>2. CASE UNCHANGED vars
  BY <1>2 DEF vars, TypeOK, ItemOK
<1> QED BY <1>1, <1>2, TypeOutside DEF Next, Outside

\* Every variable keeps its type, and a worker that trades has a row of its own
\* in hand: process_signal_queue never acts without a claimed report.
THEOREM TypeCorrect == Spec => []TypeOK
<1>1. Spec => [](TypeOK /\ ItemOK)
  BY TypeInit, TypeNext, PTL DEF Spec
<1> QED BY <1>1, PTL
-----------------------------------------------------------------------------
(* The config lock.                                                          *)

\* What a step of an item may do to the config and the signal state its session
\* read: last_processed_history_id advances, running is at most cleared.
Ahead(s, t) == s.loaded = t.loaded /\ s.last >= t.last /\ (s.running => t.running)

LEMMA AheadOps ==
    ASSUME NEW s \in Sessions, NEW h \in Reports, NEW retryable
    PROVE  /\ Ahead(Attempted(s, h), s) /\ Attempted(s, h).last = s.last
           /\ Ahead(MarkCompleted(s, h), s)
           /\ Ahead(MarkRetryOrDead(s, h, retryable), s)
           /\ Ahead(Advance(s, h), s)
           /\ Attempted(s, h).running = s.running
BY DEF Ahead, Attempted, MarkCompleted, MarkRetryOrDead, Advance, Sessions, Reports

LEMMA AheadTrans ==
    ASSUME NEW s \in Sessions, NEW t \in Sessions, NEW u \in Sessions, Ahead(s, t), Ahead(t, u)
    PROVE  Ahead(s, u)
BY DEF Ahead, Sessions

\* A worker's step that keeps or ends its item.
LEMMA ExclusiveStep ==
    ASSUME TypeOK, Exclusive, NEW w \in Workers, NEW k \in WorkerStates, NEW s \in Sessions,
           wk' = [wk EXCEPT ![w] = k], ses' = [ses EXCEPT ![w] = s],
           Ahead(s, ses[w]),
           k.pc \in Trading => /\ wk[w].pc \in Trading /\ k.item = wk[w].item
                              /\ s.last = ses[w].last /\ s.running = ses[w].running,
           holder' = holder, db' = db
    PROVE  Exclusive'
<1> SUFFICES ASSUME NEW v \in Workers
             PROVE  /\ ses'[v].loaded => /\ holder = v
                                         /\ ses'[v].last >= db.last
                                         /\ ses'[v].running => db.running
                    /\ wk'[v].pc \in Trading => /\ ses'[v].loaded /\ ses'[v].running
                                                /\ wk'[v].item > ses'[v].last
  BY Zenon DEF Exclusive
<1>1. CASE v = w
  <2>1. ses'[v] = s /\ wk'[v] = k
    BY <1>1 DEF TypeOK
  <2>2. ses[w] \in Sessions /\ db.last \in Nat
    BY DEF TypeOK, Databases
  <2> QED BY <1>1, <2>1, <2>2 DEF Ahead, Exclusive, Sessions
<1>2. CASE v # w
  BY <1>2 DEF Exclusive, TypeOK
<1> QED BY <1>1, <1>2

LEMMA ExclusiveReturn ==
    ASSUME TypeOK, Exclusive, NEW w \in Workers, NEW h \in Reports, NEW s \in Sessions,
           Return(w, h, s), Ahead(s, ses[w]), holder' = holder, db' = db
    PROVE  Exclusive'
<1>1. [wk[w] EXCEPT !.pc = "loop", !.batch = wk[w].batch \ {h}] \in WorkerStates
  BY FieldTypes DEF WorkerStates
<1>2. [wk[w] EXCEPT !.pc = "loop", !.batch = wk[w].batch \ {h}].pc \notin Trading
  BY FieldTypes DEF Trading, WorkerStates
<1> QED BY <1>1, <1>2, ExclusiveStep DEF Return

LEMMA ExclusiveDone ==
    ASSUME TypeOK, Exclusive, NEW w \in Workers, NEW s \in Sessions, wk[w].item \in Reports,
           Done(w, s), Ahead(s, ses[w]), holder' = holder, db' = db
    PROVE  Exclusive'
<1> DEFINE a == Advance(s, wk[w].item)
           m == MarkCompleted(a, wk[w].item)
<1>1. a \in Sessions /\ m \in Sessions /\ ses[w] \in Sessions
  BY QueueTypes, FieldTypes
<1>2. Ahead(a, s) /\ Ahead(m, a)
  BY <1>1, AheadOps
<1>3. Ahead(m, ses[w])
  <2>1. Ahead(m, s)
    BY <1>1, <1>2, AheadTrans
  <2> QED BY <1>1, <2>1, AheadTrans
<1> QED BY <1>1, <1>3, ExclusiveReturn DEF Done

LEMMA ExclusiveRaise ==
    ASSUME TypeOK, Exclusive, NEW w \in Workers, NEW s \in Sessions, wk[w].item \in Reports,
           NEW retryable, Raise(w, s, retryable), Ahead(s, ses[w]), holder' = holder, db' = db
    PROVE  Exclusive'
<1> DEFINE m == MarkRetryOrDead(s, wk[w].item, retryable)
<1>1. m \in Sessions /\ ses[w] \in Sessions
  BY QueueTypes, FieldTypes
<1>2. Ahead(m, s)
  BY AheadOps
<1>3. Ahead(m, ses[w])
  BY <1>1, <1>2, AheadTrans
<1> QED BY <1>1, <1>3, ExclusiveReturn DEF Raise

\* Taking the lock: nobody else holds it, so nobody else has read the config.
LEMMA ExclusiveLock ==
    ASSUME TypeOK, Exclusive, NEW w \in Workers, NEW h \in Reports, Skip(w, h) \/ Accept(w, h)
    PROVE  Exclusive'
<1> DEFINE s == Attempted(Loaded(ses[w]), h)
<1>1. ses[w] \in Sessions /\ Loaded(ses[w]) \in Sessions /\ s \in Sessions
  BY QueueTypes, LoadedType, FieldTypes
<1>2. Loaded(ses[w]).loaded /\ Loaded(ses[w]).last >= db.last /\ (Loaded(ses[w]).running => db.running)
  <2>1. db.last \in Nat /\ db.running \in BOOLEAN
    BY DEF TypeOK, Databases
  <2>2. CASE ses[w].loaded
    BY <2>2, <1>1, <2>1 DEF Loaded, Exclusive
  <2>3. CASE ~ses[w].loaded
    BY <2>3, <1>1, <2>1 DEF Loaded, Sessions
  <2> QED BY <2>2, <2>3
<1>3. s.loaded /\ s.last >= db.last /\ (s.running => db.running)
  BY <1>1, <1>2, AheadOps DEF Ahead
<1>4. \A v \in Workers \ {w} : ~ses[v].loaded /\ wk[v].pc \notin Trading
  BY DEF Skip, Accept, LockFree, Exclusive
<1>5. holder' = w /\ db' = db
  BY DEF Skip, Accept
<1>6. CASE Skip(w, h)
  <2>1. PICK t \in Sessions : Return(w, h, t) /\ Ahead(t, s)
    <3>1. /\ MarkCompleted(s, h) \in Sessions /\ Ahead(MarkCompleted(s, h), s)
          /\ MarkRetryOrDead(s, h, FALSE) \in Sessions /\ Ahead(MarkRetryOrDead(s, h, FALSE), s)
      BY <1>1, QueueTypes, AheadOps
    <3>2. Advance(s, h) \in Sessions /\ Ahead(Advance(s, h), s)
      BY <1>1, QueueTypes, AheadOps
    <3>3. MarkCompleted(Advance(s, h), h) \in Sessions /\ Ahead(MarkCompleted(Advance(s, h), h), Advance(s, h))
      BY <3>2, QueueTypes, AheadOps
    <3>4. Ahead(MarkCompleted(Advance(s, h), h), s)
      BY <1>1, <3>2, <3>3, AheadTrans
    <3> QED BY <1>6, <3>1, <3>3, <3>4 DEF Skip
  <2>2. t.loaded /\ t.last >= db.last /\ (t.running => db.running)
    <3>1. t.last \in Nat /\ s.last \in Nat /\ db.last \in Nat
      BY <1>1 DEF Sessions, TypeOK, Databases
    <3> QED BY <1>3, <2>1, <3>1 DEF Ahead
  <2>3. ses' = [ses EXCEPT ![w] = t] /\ wk'[w].pc = "loop" /\ \A v \in Workers \ {w} : wk'[v] = wk[v]
    BY <2>1, FieldTypes DEF Return, TypeOK, WorkerStates
  <2> QED BY <1>4, <1>5, <2>2, <2>3 DEF Exclusive, TypeOK, Trading
<1>7. CASE Accept(w, h)
  <2>1. ses' = [ses EXCEPT ![w] = s] /\ wk'[w].item = h /\ \A v \in Workers \ {w} : wk'[v] = wk[v]
    BY <1>7, FieldTypes DEF Accept, TypeOK, WorkerStates
  <2>2. s.running /\ h > s.last
    <3>1. s.last \in Nat /\ h \in Nat
      BY <1>1 DEF Sessions, Reports
    <3> QED BY <1>7, <3>1 DEF Accept, Tradable, IsDuplicate
  <2> QED BY <1>3, <1>4, <1>5, <2>1, <2>2 DEF Exclusive, TypeOK
<1> QED BY <1>6, <1>7

\* The end of a transaction releases the lock and publishes what it protected.
LEMMA ExclusiveLeave ==
    ASSUME TypeOK, Exclusive, NEW w \in Workers, Commit(w) \/ Crash(w) \/ InsertConflict(w)
    PROVE  Exclusive'
<1> SUFFICES ASSUME NEW v \in Workers
             PROVE  /\ ses'[v].loaded => /\ holder' = v
                                         /\ ses'[v].last >= db'.last
                                         /\ ses'[v].running => db'.running
                    /\ wk'[v].pc \in Trading => /\ ses'[v].loaded /\ ses'[v].running
                                                /\ wk'[v].item > ses'[v].last
  BY Zenon DEF Exclusive
<1>1. Leave(w)
  BY DEF Commit, Crash, InsertConflict
<1>2. CASE v = w
  BY <1>1, <1>2 DEF Leave, TypeOK, Idle, Blank, Trading
<1>3. CASE v # w
  <2>1. ses'[v] = ses[v] /\ wk'[v] = wk[v]
    BY <1>1, <1>3 DEF Leave, TypeOK
  <2>2. CASE ses[v].loaded
    <3>1. holder = v /\ holder' = v
      BY <1>1, <1>3, <2>2 DEF Leave, Exclusive
    <3>2. ~ses[w].loaded
      BY <1>3, <3>1 DEF Exclusive
    <3>3. db'.last = db.last /\ db'.running = db.running
      BY <3>2 DEF Commit, Crash, InsertConflict, Committed
    <3> QED BY <2>1, <2>2, <3>1, <3>3 DEF Exclusive
  <2>3. CASE ~ses[v].loaded
    BY <2>1, <2>3 DEF Exclusive
  <2> QED BY <2>2, <2>3
<1> QED BY <1>2, <1>3

\* The sessions the steps of an item leave behind.
LEMMA AheadFields ==
    ASSUME TypeOK, NEW w \in Workers
    PROVE  /\ \A n \in Nat : Ahead([ses[w] EXCEPT !.streak = n], ses[w])
           /\ Ahead(Counted(w), ses[w]) /\ Counted(w).last = ses[w].last
           /\ Counted(w).running = ses[w].running
           /\ \A r : Ahead([ses[w] EXCEPT !.row = r, !.own = TRUE, !.streak = 0], ses[w])
           /\ \A r : Ahead([ses[w] EXCEPT !.own = TRUE, !.row = r], ses[w])
           /\ \A why : Ahead(Closed(ses[w], why), ses[w])
           /\ \A why : \A b \in BOOLEAN :
                Ahead([Closed(ses[w], why) EXCEPT !.running = @ /\ ~b], ses[w])
           /\ Ahead(Selected(ses[w]), ses[w])
           /\ Ahead(Synced(Selected(ses[w])), ses[w])
           /\ Synced(Selected(ses[w])).last = ses[w].last
           /\ Synced(Selected(ses[w])).running = ses[w].running
<1>1. ses[w] \in Sessions
  BY FieldTypes
<1>2. /\ \A n \in Nat : Ahead([ses[w] EXCEPT !.streak = n], ses[w])
      /\ Ahead(Counted(w), ses[w]) /\ Counted(w).last = ses[w].last
      /\ Counted(w).running = ses[w].running
  BY <1>1 DEF Ahead, Sessions, Counted
<1>3. /\ \A r : Ahead([ses[w] EXCEPT !.row = r, !.own = TRUE, !.streak = 0], ses[w])
      /\ \A r : Ahead([ses[w] EXCEPT !.own = TRUE, !.row = r], ses[w])
  BY <1>1 DEF Ahead, Sessions
<1>4. /\ \A why : Ahead(Closed(ses[w], why), ses[w])
      /\ \A why : \A b \in BOOLEAN :
           Ahead([Closed(ses[w], why) EXCEPT !.running = @ /\ ~b], ses[w])
  BY <1>1 DEF Ahead, Sessions, Closed
<1>5. /\ Ahead(Selected(ses[w]), ses[w])
      /\ Selected(ses[w]).last = ses[w].last /\ Selected(ses[w]).running = ses[w].running
  BY <1>1 DEF Ahead, Sessions, Selected
<1>6. /\ Ahead(Synced(Selected(ses[w])), Selected(ses[w]))
      /\ Synced(Selected(ses[w])).last = Selected(ses[w]).last
      /\ Synced(Selected(ses[w])).running = Selected(ses[w]).running
  <2>1. \A s \in Sessions : Ahead(Synced(s), s) /\ Synced(s).last = s.last /\ Synced(s).running = s.running
    BY DEF Ahead, Sessions, Synced
  <2> QED BY <2>1, <1>1, SyncTypes
<1>7. Ahead(Synced(Selected(ses[w])), ses[w])
  BY <1>1, <1>5, <1>6 DEF Ahead
<1> QED BY <1>2, <1>3, <1>4, <1>5, <1>6, <1>7, Zenon

LEMMA ExclusiveItem ==
    ASSUME TypeOK, ItemOK, Exclusive, NEW w \in Workers,
           \/ SyncOpenPosition(w) \/ SyncFails(w) \/ Decline(w)
           \/ \E stop \in BOOLEAN : EnterPosition(w, stop)
           \/ \E executed, retryable \in BOOLEAN : EntryFails(w, executed, retryable)
           \/ RecordEntry(w) \/ RecordEntryRuntimeFailed(w)
    PROVE  Exclusive'
<1>1. wk[w].pc \in Trading /\ wk[w].item \in Reports
  BY DEF SyncOpenPosition, SyncFails, Decline, EnterPosition, EntryFails, RecordEntry,
         RecordEntryRuntimeFailed, Flat, ItemOK, Trading
<1>2. holder' = holder /\ db' = db
  BY DEF SyncOpenPosition, SyncFails, Decline, EnterPosition, EntryFails, RecordEntry,
         RecordEntryRuntimeFailed
<1>3. CASE SyncOpenPosition(w)
  <2> DEFINE s == Synced(Selected(ses[w]))
             k == [wk[w] EXCEPT !.pc = "decide", !.flat = (exch.size = 0), !.found = s.own]
  <2>1. s \in Sessions /\ s.own \in BOOLEAN
    BY SyncTypes, FieldTypes DEF Sessions
  <2>2. k \in WorkerStates /\ k.item = wk[w].item
    BY <2>1, FieldTypes DEF WorkerStates, Trading
  <2>3. wk' = [wk EXCEPT ![w] = k] /\ ses' = [ses EXCEPT ![w] = s]
    BY <1>3 DEF SyncOpenPosition, TypeOK
  <2> QED BY <1>1, <1>2, <2>1, <2>2, <2>3, AheadFields, ExclusiveStep
<1>4. CASE SyncFails(w)
  BY <1>1, <1>2, <1>4, SyncTypes, FieldTypes, AheadFields, ExclusiveRaise DEF SyncFails
<1>5. CASE Decline(w)
  <2>1. PICK n \in Nat : Done(w, [ses[w] EXCEPT !.streak = n])
    BY <1>5, FieldTypes DEF Decline
  <2> QED BY <1>1, <1>2, <2>1, FieldTypes, AheadFields, ExclusiveDone
<1>6. ASSUME NEW stop \in BOOLEAN, EnterPosition(w, stop) PROVE Exclusive'
  <2> DEFINE k == [wk[w] EXCEPT !.pc = "entered"]
  <2>1. k \in WorkerStates /\ k.item = wk[w].item /\ ses[w] \in Sessions
    BY FieldTypes DEF WorkerStates, Trading
  <2>2. wk' = [wk EXCEPT ![w] = k] /\ ses' = [ses EXCEPT ![w] = ses[w]]
    BY <1>6 DEF EnterPosition, TypeOK
  <2>3. Ahead(ses[w], ses[w])
    BY <2>1 DEF Ahead, Sessions
  <2> QED BY <1>1, <1>2, <2>1, <2>2, <2>3, ExclusiveStep
<1>7. ASSUME NEW executed \in BOOLEAN, NEW retryable \in BOOLEAN,
             EntryFails(w, executed, retryable)
      PROVE  Exclusive'
  <2>1. ses[w] \in Sessions /\ Ahead(ses[w], ses[w])
    <3>1. ses[w] \in Sessions
      BY FieldTypes
    <3> QED BY <3>1 DEF Ahead, Sessions
  <2> QED BY <1>1, <1>2, <1>7, <2>1, ExclusiveRaise DEF EntryFails
<1>8. CASE RecordEntry(w) \/ RecordEntryRuntimeFailed(w)
  <2> DEFINE r == [EntryRow EXCEPT !.open = FALSE, !.reason = "emergency"]
  <2>1. EntryRow \in Rows /\ r \in Rows
    BY DEF EntryRow, Rows, TypeOK, Reasons, Sides
  <2>2. [ses[w] EXCEPT !.row = EntryRow, !.own = TRUE, !.streak = 0] \in Sessions
    BY <2>1, FieldTypes, Zenon
  <2>3. [ses[w] EXCEPT !.own = TRUE, !.row = r] \in Sessions
    <3>1. ses[w] \in Sessions
      BY FieldTypes
    <3> QED BY <2>1, <3>1 DEF Sessions
  <2>4. \/ Done(w, [ses[w] EXCEPT !.row = EntryRow, !.own = TRUE, !.streak = 0])
        \/ Done(w, [ses[w] EXCEPT !.own = TRUE, !.row = r])
    BY <1>8, Zenon DEF RecordEntry, RecordEntryRuntimeFailed
  <2>5. PICK s \in Sessions : Done(w, s) /\ Ahead(s, ses[w])
    BY <2>2, <2>3, <2>4, AheadFields, Zenon
  <2> QED BY <1>1, <1>2, <2>5, ExclusiveDone
<1> QED BY <1>3, <1>4, <1>5, <1>6, <1>7, <1>8

LEMMA ExclusiveClose ==
    ASSUME TypeOK, ItemOK, Exclusive, NEW w \in Workers,
           \/ MarkClosedOnExchange(w) \/ Hold(w) \/ AwaitConfirmation(w) \/ SendClose(w)
           \/ \E executed \in BOOLEAN : CloseFails(w, executed)
           \/ \E pause \in BOOLEAN : ConfirmClose(w, pause)
           \/ ConfirmFails(w)
    PROVE  Exclusive'
<1>1. wk[w].pc \in Trading /\ wk[w].item \in Reports
  BY DEF MarkClosedOnExchange, Hold, AwaitConfirmation, SendClose, CloseFails, ConfirmClose,
         ConfirmFails, Holding, ItemOK, Trading
<1>2. holder' = holder /\ db' = db
  BY DEF MarkClosedOnExchange, Hold, AwaitConfirmation, SendClose, CloseFails, ConfirmClose,
         ConfirmFails
<1>3. Counted(w) \in Sessions
  <2>1. [ses[w] EXCEPT !.streak = ses[w].streak + 1] \in Sessions
    BY FieldTypes
  <2> QED BY <2>1, FieldTypes DEF Counted
<1>4. CASE MarkClosedOnExchange(w)
  <2>1. Closed(ses[w], "already_closed") \in Sessions
    BY ClosedTypes DEF Reasons
  <2> QED BY <1>1, <1>2, <1>4, <2>1, AheadFields, ExclusiveDone DEF MarkClosedOnExchange
<1>5. CASE Hold(w)
  BY <1>1, <1>2, <1>5, FieldTypes, AheadFields, ExclusiveDone DEF Hold
<1>6. CASE AwaitConfirmation(w)
  BY <1>1, <1>2, <1>3, <1>6, AheadFields, ExclusiveDone DEF AwaitConfirmation
<1>7. CASE SendClose(w)
  <2> DEFINE k == [wk[w] EXCEPT !.pc = "closing", !.fast = Fast(w)]
  <2>1. k \in WorkerStates /\ k.item = wk[w].item
    BY FieldTypes DEF WorkerStates, Trading, Fast
  <2>2. wk' = [wk EXCEPT ![w] = k] /\ ses' = [ses EXCEPT ![w] = Counted(w)]
    BY <1>7 DEF SendClose, TypeOK
  <2> QED BY <1>1, <1>2, <1>3, <2>1, <2>2, AheadFields, ExclusiveStep
<1>8. ASSUME NEW executed \in BOOLEAN, CloseFails(w, executed) PROVE Exclusive'
  BY <1>1, <1>2, <1>3, <1>8, AheadFields, ExclusiveRaise DEF CloseFails
<1>9. ASSUME NEW pause \in BOOLEAN, ConfirmClose(w, pause) PROVE Exclusive'
  <2> DEFINE c == Closed(ses[w], "opposite")
             s == [c EXCEPT !.running = c.running /\ ~pause]
  <2>1. c.running \in BOOLEAN /\ \A b \in BOOLEAN : [c EXCEPT !.running = b] \in Sessions
    BY ClosedTypes DEF Reasons
  <2>2. (c.running /\ ~pause) \in BOOLEAN
    OBVIOUS
  <2>3. s \in Sessions
    BY <2>1, <2>2, Zenon
  <2>4. Done(w, s)
    BY <1>9 DEF ConfirmClose
  <2>5. Ahead(s, ses[w])
    BY AheadFields
  <2> QED BY <1>1, <1>2, <2>3, <2>4, <2>5, ExclusiveDone
<1>10. CASE ConfirmFails(w)
  <2>1. ses[w] \in Sessions /\ Ahead(ses[w], ses[w])
    <3>1. ses[w] \in Sessions
      BY FieldTypes
    <3> QED BY <3>1 DEF Ahead, Sessions
  <2> QED BY <1>1, <1>2, <1>10, <2>1, ExclusiveRaise DEF ConfirmFails
<1> QED BY <1>4, <1>5, <1>6, <1>7, <1>8, <1>9, <1>10

LEMMA ExclusiveClaim ==
    ASSUME TypeOK, Exclusive, NEW w \in Workers,
           Claim(w) \/ \E h \in Reports : Blocked(w, h)
    PROVE  Exclusive'
<1>1. CASE Claim(w)
  <2>1. /\ ses'[w].loaded = FALSE /\ wk'[w].pc = "loop"
        /\ \A v \in Workers \ {w} : ses'[v] = ses[v] /\ wk'[v] = wk[v]
    BY <1>1 DEF Claim, TypeOK, Blank, Idle
  <2> QED BY <1>1, <2>1 DEF Claim, Exclusive, Trading
<1>2. ASSUME NEW h \in Reports, Blocked(w, h) PROVE Exclusive'
  <2> DEFINE a == Attempted(ses[w], h)
             m == MarkRetryOrDead(a, h, TRUE)
  <2>1. ses[w] \in Sessions /\ a \in Sessions /\ m \in Sessions
    BY QueueTypes, FieldTypes
  <2>2. Ahead(a, ses[w]) /\ Ahead(m, a)
    BY <2>1, AheadOps
  <2>3. Ahead(m, ses[w])
    BY <2>1, <2>2, AheadTrans
  <2> QED BY <1>2, <2>1, <2>3, ExclusiveReturn DEF Blocked
<1> QED BY <1>1, <1>2

LEMMA ExclusiveOutside ==
    ASSUME TypeOK, Exclusive, Outside
    PROVE  Exclusive'
<1>1. wk' = wk /\ ses' = ses /\ holder' = holder
  BY DEF Outside, World, RetryDue, EnqueueHistorySignal, ExchangeCloses, Reconcile,
         StreamCloses, StopPlaced, TakeProfitFills, TickPersists, SetRunning
<1>2. ASSUME NEW b \in BOOLEAN, SetRunning(b) PROVE Exclusive'
  BY <1>1, <1>2 DEF SetRunning, Exclusive
<1>3. \/ \E b \in BOOLEAN : SetRunning(b)
      \/ db'.last = db.last /\ db'.running = db.running
  <2>1. db \in Databases
    BY DEF TypeOK
  <2> QED BY <2>1 DEF Outside, World, RetryDue, EnqueueHistorySignal, ExchangeCloses, Reconcile,
            StreamCloses, StopPlaced, TakeProfitFills, TickPersists, PersistContext, Databases
<1> QED BY <1>1, <1>2, <1>3 DEF Exclusive

LEMMA ExclusiveNext == TypeOK /\ ItemOK /\ Exclusive /\ [Next]_vars => Exclusive'
<1> SUFFICES ASSUME TypeOK, ItemOK, Exclusive, [Next]_vars PROVE Exclusive'
  OBVIOUS
<1>1. ASSUME NEW w \in Workers, Step(w) \/ Crash(w) PROVE Exclusive'
  BY <1>1, ExclusiveClaim, ExclusiveLock, ExclusiveItem, ExclusiveClose, ExclusiveLeave,
     Zenon DEF Step
<1>2. CASE UNCHANGED vars
  BY <1>2 DEF vars, Exclusive
<1> QED BY <1>1, <1>2, ExclusiveOutside DEF Next, Outside

LEMMA ExclusiveInit == Init => Exclusive
BY DEF Init, Exclusive, Idle, Blank, Trading

LEMMA LockHolds == Spec => [](TypeOK /\ ItemOK /\ Exclusive)
BY TypeInit, TypeNext, ExclusiveInit, ExclusiveNext, PTL DEF Spec

\* Whatever the interleaving of workers, retries, crashes and lost transactions,
\* a worker that is about to send an order holds a report newer than every one
\* the committed state counts as processed (TradesAreFresh).
THEOREM FreshTrades == Spec => []TradesAreFresh
<1>1. TypeOK /\ Exclusive => TradesAreFresh
  <2> SUFFICES ASSUME TypeOK, Exclusive, NEW w \in Workers, wk[w].pc \in Trading
               PROVE  wk[w].item > db.last
    BY DEF TradesAreFresh
  <2>1. wk[w].item \in 0..N /\ ses[w].last \in Nat /\ db.last \in Nat
    BY DEF TypeOK, WorkerStates, Sessions, Databases
  <2>2. wk[w].item > ses[w].last /\ ses[w].last >= db.last
    BY DEF Exclusive
  <2> QED BY <2>1, <2>2
<1> QED BY <1>1, LockHolds, PTL

\* A committed pause is obeyed: no worker is between reading the config and its
\* order while the database says the strategy is paused (PauseHolds).
THEOREM PauseObeyed == Spec => []PauseHolds
<1>1. Exclusive => PauseHolds
  BY DEF Exclusive, PauseHolds
<1> QED BY <1>1, LockHolds, PTL

-----------------------------------------------------------------------------
(* The attempts of a report.                                                 *)

LEMMA ClaimsInit == Init => Claims
BY DEF Init, Claims, WorkerClaims, HasAttempt, Idle, Live

LEMMA ClaimsStep ==
    ASSUME TypeOK, Claims, NEW w \in Workers, NEW k, NEW s, WorkerClaims(k, s),
           wk' = [wk EXCEPT ![w] = k], ses' = [ses EXCEPT ![w] = s], db' = db
    PROVE  Claims'
<1>1. \A v \in Workers : WorkerClaims(wk'[v], ses'[v])
  BY DEF TypeOK, Claims
<1> QED BY <1>1 DEF Claims

\* A step that keeps the item in hand.
LEMMA ClaimsStay ==
    ASSUME TypeOK, Claims, NEW w \in Workers, NEW k, NEW s,
           k.pc \in Trading, wk[w].pc \in Trading, k.item = wk[w].item,
           k.mine = wk[w].mine, k.batch = wk[w].batch, s.q = ses[w].q,
           wk' = [wk EXCEPT ![w] = k], ses' = [ses EXCEPT ![w] = s], db' = db
    PROVE  Claims'
<1>1. WorkerClaims(k, s)
  BY DEF Claims, WorkerClaims
<1> QED BY <1>1, ClaimsStep

\* A row that leaves the batch: completed, or put back while attempts are left.
Settled(s, t, h) ==
    \E st \in Statuses : /\ s.q = [t.q EXCEPT ![h].status = st]
                         /\ st \in Live => t.q[h].attempt < MaxAttempts

LEMMA SettledOps ==
    ASSUME NEW s \in Sessions, NEW h \in Reports, NEW retryable
    PROVE  /\ Settled(MarkCompleted(s, h), s, h)
           /\ Settled(MarkRetryOrDead(s, h, retryable), s, h)
           /\ Advance(s, h).q = s.q
<1>1. Settled(MarkCompleted(s, h), s, h)
  <2>1. MarkCompleted(s, h).q = [s.q EXCEPT ![h].status = "completed"]
    BY DEF MarkCompleted, Sessions
  <2>2. "completed" \in Statuses /\ "completed" \notin Live
    BY DEF Statuses, Live
  <2> QED BY <2>1, <2>2, Zenon DEF Settled
<1>2. Settled(MarkRetryOrDead(s, h, retryable), s, h)
  <2> DEFINE st == IF retryable /\ s.q[h].attempt < MaxAttempts THEN "waiting" ELSE "dead"
  <2>1. MarkRetryOrDead(s, h, retryable).q = [s.q EXCEPT ![h].status = st]
    BY DEF MarkRetryOrDead, Sessions
  <2>2. st \in Statuses /\ (st \in Live => s.q[h].attempt < MaxAttempts)
    BY DEF Statuses, Live
  <2> HIDE DEF st
  <2> QED BY <2>1, <2>2 DEF Settled
<1>3. Advance(s, h).q = s.q
  BY DEF Advance, Sessions
<1> QED BY <1>1, <1>2, <1>3

\* The end of an item whose attempt was counted in session t.
LEMMA ClaimsReturn ==
    ASSUME TypeOK, Claims, NEW w \in Workers, NEW h \in Reports, NEW s \in Sessions,
           NEW t \in Sessions, Return(w, h, s), Settled(s, t, h), db' = db,
           h \in wk[w].mine => t.q[h].attempt <= MaxAttempts,
           \A g \in wk[w].mine \ {h} : t.q[g] = ses[w].q[g],
           wk[w].pc \in Trading => h = wk[w].item
    PROVE  Claims'
<1> DEFINE k == [wk[w] EXCEPT !.pc = "loop", !.batch = wk[w].batch \ {h}]
<1>1. k.pc = "loop" /\ k.mine = wk[w].mine /\ k.batch = wk[w].batch \ {h}
  BY FieldTypes DEF WorkerStates
<1>2. PICK st \in Statuses : /\ s.q = [t.q EXCEPT ![h].status = st]
                             /\ st \in Live => t.q[h].attempt < MaxAttempts
  BY DEF Settled
<1>3. WorkerClaims(wk[w], ses[w])
  BY DEF Claims
<1>4. wk[w].mine \subseteq Reports /\ t.q \in [Reports -> QRow]
  BY FieldTypes DEF WorkerStates, Sessions
<1>5. WorkerClaims(k, s)
  <2>1. k.batch \subseteq k.mine
    BY <1>1, <1>3 DEF WorkerClaims
  <2>2. ASSUME NEW g \in wk[w].mine
        PROVE  HasAttempt(s.q[g]) /\ (g \in k.batch => s.q[g].status = "pending")
    <3>1. CASE g = h
      <4>1. s.q[g].attempt = t.q[h].attempt /\ s.q[g].status = st
        BY <1>2, <1>4, <3>1 DEF QRow
      <4> QED BY <1>1, <1>2, <2>2, <3>1, <4>1 DEF HasAttempt
    <3>2. CASE g # h
      <4>1. s.q[g] = ses[w].q[g]
        BY <1>2, <1>4, <2>2, <3>2
      <4> QED BY <1>1, <1>3, <2>2, <3>2, <4>1 DEF WorkerClaims
    <3> QED BY <3>1, <3>2
  <2> QED BY <1>1, <2>1, <2>2 DEF WorkerClaims, Trading
<1> QED BY <1>5, ClaimsStep DEF Return

LEMMA ClaimsEnd ==
    ASSUME TypeOK, ItemOK, Claims, NEW w \in Workers, NEW s \in Sessions, wk[w].pc \in Trading,
           s.q = ses[w].q, db' = db, NEW retryable,
           Done(w, s) \/ Raise(w, s, retryable)
    PROVE  Claims'
<1> DEFINE h == wk[w].item
           a == Advance(s, h)
<1>1. h \in Reports /\ a \in Sessions /\ a.q = s.q
  BY QueueTypes, SettledOps DEF ItemOK
<1>2. h \in wk[w].mine => s.q[h].attempt <= MaxAttempts
  BY DEF Claims, WorkerClaims
<1>3. CASE Done(w, s)
  <2>1. Settled(MarkCompleted(a, h), a, h) /\ MarkCompleted(a, h) \in Sessions
    BY <1>1, SettledOps, QueueTypes
  <2> QED BY <1>1, <1>2, <1>3, <2>1, ClaimsReturn DEF Done
<1>4. CASE Raise(w, s, retryable)
  <2>1. Settled(MarkRetryOrDead(s, h, retryable), s, h) /\ MarkRetryOrDead(s, h, retryable) \in Sessions
    BY <1>1, SettledOps, QueueTypes
  <2> QED BY <1>1, <1>2, <1>4, <2>1, ClaimsReturn DEF Raise
<1> QED BY <1>3, <1>4

LEMMA AttemptCounted ==
    ASSUME NEW s \in Sessions, NEW h \in Reports
    PROVE  /\ Attempted(s, h).q[h].attempt = s.q[h].attempt + 1
           /\ \A g \in Reports \ {h} : Attempted(s, h).q[g] = s.q[g]
BY DEF Attempted, Sessions, QRow

LEMMA LoadedQueue ==
    ASSUME NEW s \in Sessions
    PROVE  Loaded(s).q = s.q
BY DEF Loaded, Sessions

LEMMA ClaimsQueue ==
    ASSUME TypeOK, Claims, NEW w \in Workers,
           Claim(w) \/ (\E h \in Reports : Blocked(w, h) \/ Skip(w, h) \/ Accept(w, h))
    PROVE  Claims'
<1>1. CASE Claim(w)
  <2> DEFINE k == [Idle EXCEPT !.pc = "loop", !.mine = Due, !.batch = Due]
             s == [Blank EXCEPT !.q = db.q]
  <2>1. k.pc = "loop" /\ k.mine = Due /\ k.batch = Due /\ s.q = db.q
    BY DEF Idle, Blank
  <2>2. \A h \in Due : HasAttempt(db.q[h]) /\ db.q[h].status = "pending"
    BY DEF Due, Claims
  <2>3. WorkerClaims(k, s)
    BY <2>1, <2>2 DEF WorkerClaims, Trading
  <2> QED BY <1>1, <2>3, ClaimsStep DEF Claim
<1>2. ASSUME NEW h \in wk[w].batch, wk[w].pc = "loop"
      PROVE  /\ h \in wk[w].mine /\ ses[w].q[h].attempt + 1 <= MaxAttempts
             /\ ses[w].q[h].attempt \in Nat
  <2>1. WorkerClaims(wk[w], ses[w]) /\ h \in wk[w].mine
    BY <1>2 DEF Claims, WorkerClaims
  <2>2. h \in Reports /\ ses[w].q[h] \in QRow
    <3>1. wk[w].batch \subseteq Reports /\ ses[w].q \in [Reports -> QRow]
      BY FieldTypes DEF WorkerStates, Sessions
    <3> QED BY <1>2, <3>1
  <2>3. HasAttempt(ses[w].q[h]) /\ ses[w].q[h].status = "pending"
    BY <1>2, <2>1 DEF WorkerClaims, Trading
  <2>4. ses[w].q[h].attempt < MaxAttempts /\ ses[w].q[h].attempt \in Nat
    BY <2>2, <2>3 DEF HasAttempt, Live, QRow
  <2> QED BY <2>1, <2>4
<1>3. wk[w].mine \subseteq Reports /\ ses[w] \in Sessions /\ Loaded(ses[w]) \in Sessions
  BY FieldTypes, LoadedType DEF WorkerStates
<1>4. ASSUME NEW h \in Reports, Blocked(w, h) PROVE Claims'
  <2> DEFINE t == Attempted(ses[w], h)
  <2>1. t \in Sessions /\ MarkRetryOrDead(t, h, TRUE) \in Sessions
    BY <1>3, QueueTypes
  <2>2. t.q[h].attempt <= MaxAttempts /\ \A g \in wk[w].mine \ {h} : t.q[g] = ses[w].q[g]
    BY <1>2, <1>3, <1>4, AttemptCounted DEF Blocked
  <2>3. Settled(MarkRetryOrDead(t, h, TRUE), t, h)
    BY <2>1, SettledOps
  <2>4. wk[w].pc \notin Trading
    BY <1>4 DEF Blocked, Trading
  <2> QED BY <1>4, <2>1, <2>2, <2>3, <2>4, ClaimsReturn DEF Blocked
<1>5. ASSUME NEW h \in Reports, Skip(w, h) \/ Accept(w, h)
      PROVE  LET t == Attempted(Loaded(ses[w]), h)
             IN  /\ t \in Sessions /\ t.q[h].attempt <= MaxAttempts
                 /\ \A g \in wk[w].mine \ {h} : t.q[g] = ses[w].q[g]
  <2> DEFINE t == Attempted(Loaded(ses[w]), h)
  <2>1. t \in Sessions
    BY <1>3, QueueTypes
  <2>2. Loaded(ses[w]).q = ses[w].q
    BY <1>3, LoadedQueue
  <2>3. h \in wk[w].batch /\ wk[w].pc = "loop"
    BY <1>5 DEF Skip, Accept
  <2> QED BY <1>2, <1>3, <2>1, <2>2, <2>3, AttemptCounted
<1>6. ASSUME NEW h \in Reports, Skip(w, h) PROVE Claims'
  <2> DEFINE t == Attempted(Loaded(ses[w]), h)
             u == Advance(t, h)
  <2>1. /\ t \in Sessions /\ t.q[h].attempt <= MaxAttempts
        /\ \A g \in wk[w].mine \ {h} : t.q[g] = ses[w].q[g]
    BY <1>5, <1>6
  <2>2. u \in Sessions /\ u.q = t.q
    BY <2>1, QueueTypes, SettledOps
  <2>3. PICK r \in {t, u}, s \in Sessions : Return(w, h, s) /\ Settled(s, r, h)
    <3>1. /\ MarkRetryOrDead(t, h, FALSE) \in Sessions /\ Settled(MarkRetryOrDead(t, h, FALSE), t, h)
          /\ MarkCompleted(t, h) \in Sessions /\ Settled(MarkCompleted(t, h), t, h)
          /\ MarkCompleted(u, h) \in Sessions /\ Settled(MarkCompleted(u, h), u, h)
      BY <2>1, <2>2, QueueTypes, SettledOps
    <3>2. \/ Return(w, h, MarkRetryOrDead(t, h, FALSE))
          \/ Return(w, h, MarkCompleted(u, h))
          \/ Return(w, h, MarkCompleted(t, h))
      BY <1>6 DEF Skip
    <3> QED BY <3>1, <3>2, Zenon
  <2>4. wk[w].pc \notin Trading /\ db' = db
    BY <1>6 DEF Skip, Trading
  <2> QED BY <2>1, <2>2, <2>3, <2>4, ClaimsReturn
<1>7. ASSUME NEW h \in Reports, Accept(w, h) PROVE Claims'
  <2> DEFINE t == Attempted(Loaded(ses[w]), h)
             k == [wk[w] EXCEPT !.pc = "sync", !.item = h]
  <2>1. /\ t \in Sessions /\ t.q[h].attempt <= MaxAttempts
        /\ \A g \in wk[w].mine \ {h} : t.q[g] = ses[w].q[g]
    BY <1>5, <1>7
  <2>2. k.pc = "sync" /\ k.item = h /\ k.mine = wk[w].mine /\ k.batch = wk[w].batch
    BY FieldTypes DEF WorkerStates
  <2>3. WorkerClaims(wk[w], ses[w]) /\ wk[w].pc = "loop"
    BY <1>7 DEF Claims, Accept
  <2>4. WorkerClaims(k, t)
    BY <2>1, <2>2, <2>3 DEF WorkerClaims, Trading
  <2>5. wk' = [wk EXCEPT ![w] = k] /\ ses' = [ses EXCEPT ![w] = t] /\ db' = db
    BY <1>7 DEF Accept, TypeOK
  <2> QED BY <2>4, <2>5, ClaimsStep
<1> QED BY <1>1, <1>4, <1>6, <1>7

\* No step of an item but the attempt itself touches the queue rows.
LEMMA QueueKept ==
    ASSUME TypeOK, NEW w \in Workers
    PROVE  /\ \A n : [ses[w] EXCEPT !.streak = n].q = ses[w].q
           /\ Counted(w).q = ses[w].q
           /\ \A r : [ses[w] EXCEPT !.row = r, !.own = TRUE, !.streak = 0].q = ses[w].q
           /\ \A r : [ses[w] EXCEPT !.own = TRUE, !.row = r].q = ses[w].q
           /\ \A why : Closed(ses[w], why).q = ses[w].q
           /\ \A why, b : [Closed(ses[w], why) EXCEPT !.running = b].q = ses[w].q
           /\ Selected(ses[w]).q = ses[w].q
           /\ Synced(Selected(ses[w])).q = ses[w].q
<1>1. ses[w] \in Sessions
  BY FieldTypes
<1>2. \A s \in Sessions : Selected(s).q = s.q /\ Synced(s).q = s.q
  BY DEF Selected, Synced, Sessions
<1>3. Selected(ses[w]).q = ses[w].q /\ Synced(Selected(ses[w])).q = ses[w].q
  BY <1>1, <1>2, SyncTypes
<1> QED BY <1>1, <1>3 DEF Sessions, Counted, Closed

LEMMA ClaimsItem ==
    ASSUME TypeOK, ItemOK, Claims, NEW w \in Workers,
           \/ SyncOpenPosition(w) \/ SyncFails(w) \/ Decline(w)
           \/ \E stop \in BOOLEAN : EnterPosition(w, stop)
           \/ \E executed, retryable \in BOOLEAN : EntryFails(w, executed, retryable)
           \/ RecordEntry(w) \/ RecordEntryRuntimeFailed(w)
    PROVE  Claims'
<1>1. wk[w].pc \in Trading
  BY DEF SyncOpenPosition, SyncFails, Decline, EnterPosition, EntryFails, RecordEntry,
         RecordEntryRuntimeFailed, Flat, Trading
<1>2. db' = db
  BY DEF SyncOpenPosition, SyncFails, Decline, EnterPosition, EntryFails, RecordEntry,
         RecordEntryRuntimeFailed
<1>3. CASE SyncOpenPosition(w)
  <2> DEFINE s == Synced(Selected(ses[w]))
             k == [wk[w] EXCEPT !.pc = "decide", !.flat = (exch.size = 0), !.found = s.own]
  <2>1. /\ k.pc \in Trading /\ k.item = wk[w].item
        /\ k.mine = wk[w].mine /\ k.batch = wk[w].batch
    BY FieldTypes DEF WorkerStates, Trading
  <2>2. wk' = [wk EXCEPT ![w] = k] /\ ses' = [ses EXCEPT ![w] = s]
    BY <1>3 DEF SyncOpenPosition, TypeOK
  <2>3. s.q = ses[w].q
    BY QueueKept
  <2> QED BY <1>1, <1>2, <2>1, <2>2, <2>3, ClaimsStay
<1>4. CASE SyncFails(w)
  BY <1>1, <1>2, <1>4, SyncTypes, FieldTypes, QueueKept, ClaimsEnd DEF SyncFails
<1>5. CASE Decline(w)
  <2>1. PICK n \in Nat : Done(w, [ses[w] EXCEPT !.streak = n])
    BY <1>5, FieldTypes DEF Decline
  <2> QED BY <1>1, <1>2, <2>1, FieldTypes, QueueKept, ClaimsEnd
<1>6. ASSUME NEW stop \in BOOLEAN, EnterPosition(w, stop) PROVE Claims'
  <2> DEFINE k == [wk[w] EXCEPT !.pc = "entered"]
  <2>1. /\ k.pc \in Trading /\ k.item = wk[w].item
        /\ k.mine = wk[w].mine /\ k.batch = wk[w].batch
    BY FieldTypes DEF WorkerStates, Trading
  <2>2. wk' = [wk EXCEPT ![w] = k] /\ ses' = [ses EXCEPT ![w] = ses[w]]
    BY <1>6 DEF EnterPosition, TypeOK
  <2> QED BY <1>1, <1>2, <2>1, <2>2, ClaimsStay
<1>7. ASSUME NEW executed \in BOOLEAN, NEW retryable \in BOOLEAN,
             EntryFails(w, executed, retryable)
      PROVE  Claims'
  BY <1>1, <1>2, <1>7, FieldTypes, ClaimsEnd DEF EntryFails
<1>8. CASE RecordEntry(w) \/ RecordEntryRuntimeFailed(w)
  <2> DEFINE r == [EntryRow EXCEPT !.open = FALSE, !.reason = "emergency"]
             s == [ses[w] EXCEPT !.row = EntryRow, !.own = TRUE, !.streak = 0]
             u == [ses[w] EXCEPT !.own = TRUE, !.row = r]
  <2>1. EntryRow \in Rows /\ r \in Rows
    BY DEF EntryRow, Rows, TypeOK, Reasons, Sides
  <2>2. s \in Sessions
    BY <2>1, FieldTypes, Zenon
  <2>3. u \in Sessions
    <3>1. ses[w] \in Sessions
      BY FieldTypes
    <3> QED BY <2>1, <3>1 DEF Sessions
  <2>4. s.q = ses[w].q /\ u.q = ses[w].q
    BY QueueKept, Zenon
  <2>5. Done(w, s) \/ Done(w, u)
    BY <1>8, Zenon DEF RecordEntry, RecordEntryRuntimeFailed
  <2> HIDE DEF s, u
  <2> QED BY <1>1, <1>2, <2>2, <2>3, <2>4, <2>5, ClaimsEnd
<1> QED BY <1>3, <1>4, <1>5, <1>6, <1>7, <1>8

LEMMA ClaimsClose ==
    ASSUME TypeOK, ItemOK, Claims, NEW w \in Workers,
           \/ MarkClosedOnExchange(w) \/ Hold(w) \/ AwaitConfirmation(w) \/ SendClose(w)
           \/ \E executed \in BOOLEAN : CloseFails(w, executed)
           \/ \E pause \in BOOLEAN : ConfirmClose(w, pause)
           \/ ConfirmFails(w)
    PROVE  Claims'
<1>1. wk[w].pc \in Trading
  BY DEF MarkClosedOnExchange, Hold, AwaitConfirmation, SendClose, CloseFails, ConfirmClose,
         ConfirmFails, Holding, Trading
<1>2. db' = db
  BY DEF MarkClosedOnExchange, Hold, AwaitConfirmation, SendClose, CloseFails, ConfirmClose,
         ConfirmFails
<1>3. Counted(w) \in Sessions /\ Counted(w).q = ses[w].q
  <2>1. [ses[w] EXCEPT !.streak = ses[w].streak + 1] \in Sessions
    BY FieldTypes
  <2> QED BY <2>1, FieldTypes, QueueKept DEF Counted
<1>4. CASE MarkClosedOnExchange(w)
  <2>1. Closed(ses[w], "already_closed") \in Sessions
    BY ClosedTypes DEF Reasons
  <2> QED BY <1>1, <1>2, <1>4, <2>1, QueueKept, ClaimsEnd DEF MarkClosedOnExchange
<1>5. CASE Hold(w)
  BY <1>1, <1>2, <1>5, FieldTypes, QueueKept, ClaimsEnd DEF Hold
<1>6. CASE AwaitConfirmation(w)
  BY <1>1, <1>2, <1>3, <1>6, ClaimsEnd DEF AwaitConfirmation
<1>7. CASE SendClose(w)
  <2> DEFINE k == [wk[w] EXCEPT !.pc = "closing", !.fast = Fast(w)]
  <2>1. /\ k.pc \in Trading /\ k.item = wk[w].item
        /\ k.mine = wk[w].mine /\ k.batch = wk[w].batch
    BY FieldTypes DEF WorkerStates, Trading
  <2>2. wk' = [wk EXCEPT ![w] = k] /\ ses' = [ses EXCEPT ![w] = Counted(w)]
    BY <1>7 DEF SendClose, TypeOK
  <2> QED BY <1>1, <1>2, <1>3, <2>1, <2>2, ClaimsStay
<1>8. ASSUME NEW executed \in BOOLEAN, CloseFails(w, executed) PROVE Claims'
  BY <1>1, <1>2, <1>3, <1>8, ClaimsEnd DEF CloseFails
<1>9. ASSUME NEW pause \in BOOLEAN, ConfirmClose(w, pause) PROVE Claims'
  <2> DEFINE c == Closed(ses[w], "opposite")
             s == [c EXCEPT !.running = c.running /\ ~pause]
  <2>1. c.running \in BOOLEAN /\ \A b \in BOOLEAN : [c EXCEPT !.running = b] \in Sessions
    BY ClosedTypes DEF Reasons
  <2>2. (c.running /\ ~pause) \in BOOLEAN
    OBVIOUS
  <2>3. s \in Sessions
    BY <2>1, <2>2, Zenon
  <2>4. Done(w, s)
    BY <1>9 DEF ConfirmClose
  <2>5. s.q = ses[w].q
    <3>1. \A b : [c EXCEPT !.running = b].q = ses[w].q
      BY QueueKept, Zenon
    <3>2. [c EXCEPT !.running = c.running /\ ~pause].q = ses[w].q
      BY <3>1, Zenon
    <3> QED BY <3>2
  <2> HIDE DEF s
  <2> QED BY <1>1, <1>2, <2>3, <2>4, <2>5, ClaimsEnd
<1>10. CASE ConfirmFails(w)
  BY <1>1, <1>2, <1>10, FieldTypes, ClaimsEnd DEF ConfirmFails
<1> QED BY <1>4, <1>5, <1>6, <1>7, <1>8, <1>9, <1>10

LEMMA ClaimsLeave ==
    ASSUME TypeOK, Claims, NEW w \in Workers, Commit(w) \/ Crash(w) \/ InsertConflict(w)
    PROVE  Claims'
<1>1. \A v \in Workers : WorkerClaims(wk'[v], ses'[v])
  <2>1. Leave(w)
    BY DEF Commit, Crash, InsertConflict
  <2>2. WorkerClaims(Idle, Blank)
    BY DEF WorkerClaims, Idle
  <2> QED BY <2>1, <2>2 DEF Leave, TypeOK, Claims
<1>2. ASSUME Commit(w), NEW h \in Reports PROVE HasAttempt(db'.q[h])
  <2>1. db'.q[h] = IF h \in wk[w].mine THEN ses[w].q[h] ELSE db.q[h]
    BY <1>2 DEF Commit, Committed
  <2>2. h \in wk[w].mine => HasAttempt(ses[w].q[h])
    BY <1>2 DEF Commit, Claims, WorkerClaims, Trading
  <2> QED BY <2>1, <2>2 DEF Claims
<1>3. \A h \in Reports : HasAttempt(db'.q[h])
  BY <1>2 DEF Crash, InsertConflict, Claims
<1> QED BY <1>1, <1>3 DEF Claims

LEMMA ClaimsOutside ==
    ASSUME TypeOK, Claims, Outside
    PROVE  Claims'
<1>1. wk' = wk /\ ses' = ses
  BY DEF Outside, World, RetryDue, EnqueueHistorySignal, ExchangeCloses, Reconcile,
         StreamCloses, StopPlaced, TakeProfitFills, TickPersists, SetRunning
<1>2. \A h \in Reports : HasAttempt(db'.q[h])
  <2>1. db \in Databases /\ db.q \in [Reports -> QRow]
    BY DEF TypeOK, Databases
  <2>2. ASSUME NEW g \in Reports, RetryDue(g), NEW h \in Reports PROVE HasAttempt(db'.q[h])
    <3>1. db.q[g].status = "waiting" /\ HasAttempt(db.q[g]) /\ HasAttempt(db.q[h])
      BY <2>2 DEF RetryDue, Claims
    <3>2. db'.q = [db.q EXCEPT ![g].status = "pending"]
      BY <2>1, <2>2 DEF RetryDue, Databases
    <3>3. CASE h = g
      <4>1. db'.q[h].attempt = db.q[g].attempt
        BY <2>1, <3>2, <3>3 DEF QRow
      <4> QED BY <3>1, <4>1 DEF HasAttempt, Live
    <3>4. CASE h # g
      BY <2>1, <3>1, <3>2, <3>4
    <3> QED BY <3>3, <3>4
  <2>3. ASSUME NEW k \in Kinds, EnqueueHistorySignal(k), NEW h \in Reports
        PROVE  HasAttempt(db'.q[h])
    <3>1. \/ db'.q[h] = db.q[h]
          \/ db'.q[h] = [status |-> "pending", attempt |-> 0]
      BY <2>1, <2>3 DEF EnqueueHistorySignal, Databases
    <3> QED BY <3>1 DEF HasAttempt, Claims
  <2>4. \/ \E g \in Reports : RetryDue(g)
        \/ \E k \in Kinds : EnqueueHistorySignal(k)
        \/ db'.q = db.q
    BY <2>1 DEF Outside, World, ExchangeCloses, Reconcile, StreamCloses, StopPlaced,
                TakeProfitFills, TickPersists, SetRunning, PersistContext, Databases
  <2> QED BY <2>2, <2>3, <2>4 DEF Claims
<1> QED BY <1>1, <1>2 DEF Claims

LEMMA ClaimsNext == TypeOK /\ ItemOK /\ Claims /\ [Next]_vars => Claims'
<1> SUFFICES ASSUME TypeOK, ItemOK, Claims, [Next]_vars PROVE Claims'
  OBVIOUS
<1>1. ASSUME NEW w \in Workers, Step(w) \/ Crash(w) PROVE Claims'
  BY <1>1, ClaimsQueue, ClaimsItem, ClaimsClose, ClaimsLeave, Zenon DEF Step
<1>2. CASE UNCHANGED vars
  BY <1>2 DEF vars, Claims
<1> QED BY <1>1, <1>2, ClaimsOutside DEF Next, Outside

\* However often a report is claimed, blocked by the config lock, failed or
\* rolled back, its row never records more than max_attempts attempts
\* (AttemptsBounded).
THEOREM AttemptsLimited == Spec => []AttemptsBounded
<1>1. Spec => [](TypeOK /\ ItemOK /\ Claims)
  BY TypeInit, TypeNext, ClaimsInit, ClaimsNext, PTL DEF Spec
<1>2. Claims => AttemptsBounded
  BY DEF Claims, HasAttempt, AttemptsBounded
<1> QED BY <1>1, <1>2, PTL
-----------------------------------------------------------------------------
(* The position on the exchange and the rows that stand for it.             *)

\* The rollback close of this row's position is the one that may have failed.
Excused(row) == EmergencyMayFail /\ row.reason = "emergency"

\* What the row of a session may say while the exchange shows e and the
\* committed row is r: it stands for the newest position, it is closed only
\* when the exchange is flat, and either its session has the committed row
\* locked open or it is the row of a position newer than that one.
Stands(s, e, r) ==
    /\ s.own => /\ s.loaded /\ 0 < s.row.id /\ s.row.id <= e.id
                /\ s.row.open \/ e.size = 0 \/ Excused(s.row)
    /\ ~s.own => s.lock = 0
    /\ ~EmergencyMayFail /\ s.own =>
          \/ s.lock # 0 /\ s.lock = r.id /\ r.open
          \/ s.lock = 0 /\ r.id < s.row.id

\* What a worker that is about to act has learnt from the synchronisation.
Knows(k, s, e, r) ==
    /\ Stands(s, e, r)
    /\ k.pc = "decide" => k.found = s.own /\ (~k.found \/ k.flat => e.size = 0)
    /\ k.pc = "entered" => ~s.own /\ r.id < e.id
    /\ k.pc = "closing" => s.own

\* The committed row of a live position is open.
RowStands(e, r) ==
    /\ e.size <= 1 /\ (e.size > 0 => e.id > 0)
    /\ r.id <= e.id /\ (r.open => r.id > 0)
    /\ r.open \/ e.size = 0 \/ r.id # e.id \/ Excused(r)

PositionInv ==
    /\ RowStands(exch, db.row)
    /\ \A w \in Workers : Knows(wk[w], ses[w], exch, db.row)

Exchanges == [id : Nat, side : Sides, size : Nat, stop : BOOLEAN]

\* Only the holder of the config lock trades or has a row in its session.
LEMMA Alone ==
    ASSUME TypeOK, Exclusive, PositionInv, NEW w \in Workers, ses[w].loaded,
           NEW v \in Workers, v # w
    PROVE  ~ses[v].own /\ wk[v].pc \notin Trading
BY DEF Exclusive, PositionInv, Knows, Stands

\* A session without a row, of a worker that does not trade, claims nothing.
LEMMA Bystander ==
    ASSUME NEW k, NEW s, NEW e, NEW r, ~s.own, s.lock = 0, k.pc \notin Trading
    PROVE  Knows(k, s, e, r)
BY DEF Knows, Stands, Trading

LEMMA PositionInit == Init => PositionInv
<1> SUFFICES ASSUME Init PROVE PositionInv
  OBVIOUS
<1>1. RowStands(exch, db.row)
  <2>1. exch.size = 0 /\ exch.id = 0 /\ db.row.id = 0 /\ db.row.open = FALSE
    BY DEF Init, NoRow
  <2> QED BY <2>1 DEF RowStands
<1>2. ASSUME NEW w \in Workers PROVE Knows(wk[w], ses[w], exch, db.row)
  <2>1. ~ses[w].own /\ ses[w].lock = 0 /\ wk[w].pc \notin Trading
    BY DEF Init, Idle, Blank, Trading
  <2> QED BY <2>1, Bystander
<1> QED BY <1>1, <1>2 DEF PositionInv

\* A step of the holder of the config lock.
LEMMA HolderStep ==
    ASSUME TypeOK, Exclusive, PositionInv, NEW w \in Workers, ses[w].loaded,
           NEW k, NEW s, wk' = [wk EXCEPT ![w] = k], ses' = [ses EXCEPT ![w] = s],
           RowStands(exch', db'.row), Knows(k, s, exch', db'.row)
    PROVE  PositionInv'
<1>1. ASSUME NEW v \in Workers PROVE Knows(wk'[v], ses'[v], exch', db'.row)
  <2>1. CASE v = w
    BY <2>1 DEF TypeOK
  <2>2. CASE v # w
    <3>1. ~ses[v].own /\ wk[v].pc \notin Trading
      BY <2>2, Alone
    <3>2. ses[v].lock = 0
      BY <3>1 DEF PositionInv, Knows, Stands
    <3>3. wk'[v] = wk[v] /\ ses'[v] = ses[v]
      BY <2>2 DEF TypeOK
    <3> QED BY <3>1, <3>2, <3>3, Bystander
  <2> QED BY <2>1, <2>2
<1> QED BY <1>1 DEF PositionInv

\* A step of any worker that leaves the exchange and the committed row alone.
LEMMA AsideStep ==
    ASSUME TypeOK, PositionInv, NEW w \in Workers,
           NEW k, NEW s, wk' = [wk EXCEPT ![w] = k], ses' = [ses EXCEPT ![w] = s],
           exch' = exch, db'.row = db.row, Knows(k, s, exch, db.row)
    PROVE  PositionInv'
BY DEF TypeOK, PositionInv

\* Only entries and closes change the position, one contract at a time.
LEMMA ExchangeMoves ==
    ASSUME TypeOK, PositionInv, exch' \in Exchanges,
           \/ exch' = exch
           \/ exch'.id = exch.id /\ exch'.size = 0
           \/ exch.size = 0 /\ exch'.id = exch.id + 1 /\ exch'.size = 1
    PROVE  RowStands(exch', db.row)
<1>1. exch \in Exchanges /\ db.row.id \in Nat /\ db.row.open \in BOOLEAN
  BY RowTypes DEF TypeOK, Exchanges, Rows
<1> QED BY <1>1 DEF PositionInv, RowStands, Exchanges

LEMMA OpenedMoves ==
    ASSUME TypeOK, exch.size = 0, NEW side \in Sides, NEW stop \in BOOLEAN
    PROVE  /\ Opened(side, stop) \in Exchanges
           /\ Opened(side, stop).id = exch.id + 1 /\ Opened(side, stop).size = 1
BY DEF TypeOK, Opened, Exchanges

-----------------------------------------------------------------------------
(* What the operators on sessions do to the row.                             *)

SameRow(s, t) == /\ s.own = t.own /\ s.row = t.row /\ s.lock = t.lock
                 /\ t.loaded => s.loaded

LEMMA SameRowStands ==
    ASSUME NEW s, NEW t, SameRow(s, t), NEW e, NEW r, Stands(t, e, r)
    PROVE  Stands(s, e, r)
BY DEF SameRow, Stands

LEMMA SameRowOps ==
    ASSUME TypeOK, NEW s \in Sessions, NEW h \in Reports, NEW retryable
    PROVE  /\ SameRow(Attempted(s, h), s)
           /\ SameRow(MarkCompleted(s, h), s)
           /\ SameRow(MarkRetryOrDead(s, h, retryable), s)
           /\ SameRow(Advance(s, h), s)
           /\ SameRow(Loaded(s), s)
BY DEF SameRow, Attempted, MarkCompleted, MarkRetryOrDead, Advance, Loaded, Sessions

LEMMA SameRowTrans ==
    ASSUME NEW s, NEW t, NEW u, SameRow(s, t), SameRow(t, u)
    PROVE  SameRow(s, u)
BY DEF SameRow

\* The worker is back in the loop with a session whose row still stands.
LEMMA ReturnPosition ==
    ASSUME TypeOK, NEW w \in Workers, NEW h, NEW s, Return(w, h, s),
           NEW e, NEW r, Stands(s, e, r)
    PROVE  \E k : /\ wk' = [wk EXCEPT ![w] = k] /\ ses' = [ses EXCEPT ![w] = s]
                  /\ Knows(k, s, e, r)
<1> DEFINE k == [wk[w] EXCEPT !.pc = "loop", !.batch = wk[w].batch \ {h}]
<1>1. k.pc = "loop"
  BY FieldTypes DEF WorkerStates
<1>2. Knows(k, s, e, r)
  BY <1>1 DEF Knows
<1>3. wk' = [wk EXCEPT ![w] = k] /\ ses' = [ses EXCEPT ![w] = s]
  BY DEF Return
<1> HIDE DEF k
<1> QED BY <1>2, <1>3

\* The end of an item whose session s still stands, whatever it did to the
\* exchange.
LEMMA ItemEnds ==
    ASSUME TypeOK, ItemOK, Exclusive, PositionInv, NEW w \in Workers, wk[w].pc \in Trading,
           NEW s \in Sessions, NEW retryable, Done(w, s) \/ Raise(w, s, retryable),
           db' = db, RowStands(exch', db.row), Stands(s, exch', db.row)
    PROVE  PositionInv'
<1> DEFINE h == wk[w].item
<1>1. h \in Reports /\ ses[w].loaded
  BY DEF ItemOK, Exclusive
<1>2. PICK t : Return(w, h, t) /\ Stands(t, exch', db.row)
  <2>1. CASE Done(w, s)
    <3>1. SameRow(MarkCompleted(Advance(s, h), h), s)
      BY <1>1, QueueTypes, SameRowOps, SameRowTrans
    <3> QED BY <2>1, <3>1, SameRowStands DEF Done
  <2>2. CASE Raise(w, s, retryable)
    <3>1. SameRow(MarkRetryOrDead(s, h, retryable), s)
      BY <1>1, SameRowOps
    <3> QED BY <2>2, <3>1, SameRowStands DEF Raise
  <2> QED BY <2>1, <2>2
<1>3. PICK k : /\ wk' = [wk EXCEPT ![w] = k] /\ ses' = [ses EXCEPT ![w] = t]
               /\ Knows(k, t, exch', db.row)
  BY <1>2, ReturnPosition
<1> QED BY <1>1, <1>3, HolderStep

\* A worker in the middle of an item: what holds of its session.
LEMMA InHand ==
    ASSUME TypeOK, Exclusive, PositionInv, NEW w \in Workers, wk[w].pc \in Trading
    PROVE  /\ ses[w] \in Sessions /\ ses[w].loaded
           /\ ses[w].row \in Rows /\ db.row \in Rows /\ exch \in Exchanges
           /\ Knows(wk[w], ses[w], exch, db.row) /\ Stands(ses[w], exch, db.row)
           /\ RowStands(exch, db.row)
BY FieldTypes, RowTypes DEF Exclusive, PositionInv, Knows, TypeOK, Exchanges

-----------------------------------------------------------------------------
(* The steps of the workers.                                                 *)

LEMMA SyncStands ==
    ASSUME TypeOK, Exclusive, PositionInv, NEW w \in Workers, wk[w].pc \in Trading
    PROVE  /\ Stands(Selected(ses[w]), exch, db.row)
           /\ Stands(Synced(Selected(ses[w])), exch, db.row)
           /\ Synced(Selected(ses[w])).own \in BOOLEAN
           /\ ~Synced(Selected(ses[w])).own => exch.size = 0
<1> DEFINE t == Selected(ses[w])
           u == Synced(t)
<1>1. /\ ses[w] \in Sessions /\ ses[w].loaded /\ db.row \in Rows /\ exch \in Exchanges
      /\ Stands(ses[w], exch, db.row) /\ RowStands(exch, db.row)
  BY InHand
<1>2. t \in Sessions /\ u \in Sessions
  BY <1>1, SyncTypes
<1>3. Stands(t, exch, db.row) /\ t.loaded /\ (~t.own => ~db.row.open)
  <2>1. CASE ses[w].own \/ ~db.row.open
    BY <1>1, <2>1 DEF Selected
  <2>2. CASE ~(ses[w].own \/ ~db.row.open)
    <3>1. t.own /\ t.row = db.row /\ t.lock = db.row.id /\ t.loaded
      BY <1>1, <2>2 DEF Selected, Sessions
    <3>2. db.row.open /\ db.row.id > 0 /\ db.row.id <= exch.id
      BY <1>1, <2>2 DEF RowStands
    <3> QED BY <3>1, <3>2 DEF Stands
  <2> QED BY <2>1, <2>2
<1>4. Stands(u, exch, db.row) /\ (~u.own => exch.size = 0)
  <2>1. CASE exch.size = 0
    BY <1>3, <2>1 DEF Synced
  <2>2. CASE exch.size # 0 /\ t.own
    <3>1. /\ u.own = t.own /\ u.lock = t.lock /\ u.loaded = t.loaded
          /\ u.row.id = exch.id /\ u.row.open = t.row.open /\ u.row.reason = t.row.reason
      BY <1>2, <2>2 DEF Synced, Sessions, Rows
    <3>2. exch.id \in Nat /\ t.row.id \in Nat /\ db.row.id \in Nat
      BY <1>1, <1>2 DEF Exchanges, Sessions, Rows
    <3> QED BY <1>3, <2>2, <3>1, <3>2 DEF Stands, Excused
  <2>3. CASE exch.size # 0 /\ ~t.own
    <3>1. /\ u.own /\ u.lock = t.lock /\ u.loaded = t.loaded
          /\ u.row.id = exch.id /\ u.row.open
      BY <1>2, <2>3 DEF Synced, Sessions, Adopted
    <3>2. exch.id \in Nat /\ exch.size \in Nat /\ db.row.id \in Nat
      BY <1>1 DEF Exchanges, Rows
    <3>3. exch.id > 0 /\ (~EmergencyMayFail => db.row.id < exch.id)
      BY <1>1, <1>3, <2>3, <3>2 DEF RowStands, Excused
    <3> QED BY <1>3, <2>3, <3>1, <3>2, <3>3 DEF Stands
  <2> QED BY <2>1, <2>2, <2>3
<1>5. u.own \in BOOLEAN
  BY <1>2 DEF Sessions
<1> QED BY <1>3, <1>4, <1>5

LEMMA PositionSync ==
    ASSUME TypeOK, ItemOK, Exclusive, PositionInv, NEW w \in Workers,
           SyncOpenPosition(w) \/ SyncFails(w)
    PROVE  PositionInv'
<1>1. wk[w].pc \in Trading
  BY DEF SyncOpenPosition, SyncFails, Trading
<1>2. /\ ses[w] \in Sessions /\ ses[w].loaded /\ wk[w] \in WorkerStates
      /\ RowStands(exch, db.row)
  BY <1>1, InHand, FieldTypes
<1>3. CASE SyncOpenPosition(w)
  <2> DEFINE s == Synced(Selected(ses[w]))
             k == [wk[w] EXCEPT !.pc = "decide", !.flat = (exch.size = 0), !.found = s.own]
  <2>1. k.pc = "decide" /\ k.found = s.own /\ k.flat = (exch.size = 0)
    BY <1>2 DEF WorkerStates
  <2>2. Knows(k, s, exch, db.row)
    BY <1>1, <2>1, SyncStands DEF Knows
  <2>3. /\ wk' = [wk EXCEPT ![w] = k] /\ ses' = [ses EXCEPT ![w] = s]
        /\ exch' = exch /\ db' = db
    BY <1>3 DEF SyncOpenPosition, TypeOK
  <2> HIDE DEF k, s
  <2> QED BY <1>2, <2>2, <2>3, HolderStep
<1>4. CASE SyncFails(w)
  <2>1. Selected(ses[w]) \in Sessions /\ Stands(Selected(ses[w]), exch, db.row)
    BY <1>1, <1>2, SyncTypes, SyncStands
  <2> QED BY <1>1, <1>2, <1>4, <2>1, ItemEnds DEF SyncFails
<1> QED BY <1>3, <1>4

\* The steps of a worker that found no position: the exchange is flat.
LEMMA PositionEntry ==
    ASSUME TypeOK, ItemOK, Exclusive, PositionInv, NEW w \in Workers,
           \/ Decline(w)
           \/ \E stop \in BOOLEAN : EnterPosition(w, stop)
           \/ \E executed, retryable \in BOOLEAN : EntryFails(w, executed, retryable)
    PROVE  PositionInv'
<1>1. wk[w].pc = "decide" /\ wk[w].pc \in Trading /\ ~wk[w].found /\ wk[w].item \in Reports
  BY DEF Decline, EnterPosition, EntryFails, Flat, Trading, ItemOK
<1>2. /\ ses[w] \in Sessions /\ ses[w].loaded /\ wk[w] \in WorkerStates
      /\ Stands(ses[w], exch, db.row) /\ RowStands(exch, db.row) /\ exch \in Exchanges
  BY <1>1, InHand, FieldTypes
<1>3. ~ses[w].own /\ exch.size = 0
  BY <1>1, InHand DEF Knows
<1>4. CASE Decline(w)
  <2>1. PICK n \in Nat : Done(w, [ses[w] EXCEPT !.streak = n])
    BY <1>4, FieldTypes DEF Decline
  <2>2. [ses[w] EXCEPT !.streak = n] \in Sessions /\ SameRow([ses[w] EXCEPT !.streak = n], ses[w])
    BY <1>2, FieldTypes DEF SameRow, Sessions
  <2>3. Stands([ses[w] EXCEPT !.streak = n], exch, db.row)
    BY <1>2, <2>2, SameRowStands
  <2> QED BY <1>1, <1>2, <1>4, <2>1, <2>2, <2>3, ItemEnds DEF Decline
<1>5. ASSUME NEW stop \in BOOLEAN, EnterPosition(w, stop) PROVE PositionInv'
  <2> DEFINE k == [wk[w] EXCEPT !.pc = "entered"]
  <2>1. Signal(w).trend \in Sides
    BY <1>1, <1>5, SignalSide DEF EnterPosition, MayEnter
  <2>2. exch' \in Exchanges /\ exch'.id = exch.id + 1 /\ exch'.size = 1
    BY <1>3, <1>5, <2>1, OpenedMoves DEF EnterPosition
  <2>3. RowStands(exch', db.row)
    BY <1>3, <2>2, ExchangeMoves
  <2>4. k.pc = "entered"
    BY <1>2 DEF WorkerStates
  <2>5. db.row.id < exch'.id
    BY <1>2, <2>2, RowTypes DEF RowStands, Exchanges, Rows
  <2>6. Knows(k, ses[w], exch', db.row)
    BY <1>2, <1>3, <2>4, <2>5 DEF Knows, Stands
  <2>7. wk' = [wk EXCEPT ![w] = k] /\ ses' = [ses EXCEPT ![w] = ses[w]] /\ db' = db
    BY <1>5 DEF EnterPosition, TypeOK
  <2> HIDE DEF k
  <2> QED BY <1>2, <2>3, <2>6, <2>7, HolderStep
<1>6. ASSUME NEW executed \in BOOLEAN, NEW retryable \in BOOLEAN,
             EntryFails(w, executed, retryable)
      PROVE  PositionInv'
  <2>1. Signal(w).trend \in Sides
    BY <1>1, <1>6, SignalSide DEF EntryFails, MayEnter
  <2>2. exch' = exch \/ \E stop \in BOOLEAN : exch' = Opened(Signal(w).trend, stop)
    BY <1>6 DEF EntryFails
  <2>3. RowStands(exch', db.row)
    BY <1>2, <1>3, <2>1, <2>2, OpenedMoves, ExchangeMoves
  <2>4. Stands(ses[w], exch', db.row)
    BY <1>2, <1>3 DEF Stands
  <2> QED BY <1>1, <1>2, <1>6, <2>3, <2>4, ItemEnds DEF EntryFails
<1> QED BY <1>4, <1>5, <1>6

\* The row an entry inserts is that of the newest position.
LEMMA PositionRecord ==
    ASSUME TypeOK, ItemOK, Exclusive, PositionInv, NEW w \in Workers,
           RecordEntry(w) \/ RecordEntryRuntimeFailed(w)
    PROVE  PositionInv'
<1>1. wk[w].pc = "entered" /\ wk[w].pc \in Trading
  BY DEF RecordEntry, RecordEntryRuntimeFailed, Trading
<1>2. /\ ses[w] \in Sessions /\ ses[w].loaded /\ RowStands(exch, db.row)
      /\ exch \in Exchanges /\ db.row \in Rows
  BY <1>1, InHand
<1>3. ~ses[w].own /\ ses[w].lock = 0 /\ db.row.id < exch.id
  BY <1>1, InHand DEF Knows, Stands
<1> DEFINE r == [EntryRow EXCEPT !.open = FALSE, !.reason = "emergency"]
           s == [ses[w] EXCEPT !.row = EntryRow, !.own = TRUE, !.streak = 0]
           u == [ses[w] EXCEPT !.own = TRUE, !.row = r]
<1>4. /\ EntryRow \in Rows /\ EntryRow.id = exch.id /\ EntryRow.open
      /\ r \in Rows /\ r.id = exch.id /\ r.reason = "emergency"
  BY DEF EntryRow, Rows, TypeOK, Reasons, Sides
<1>5. /\ s \in Sessions /\ s.row = EntryRow /\ s.own /\ s.loaded /\ s.lock = 0
      /\ u \in Sessions /\ u.row = r /\ u.own /\ u.loaded /\ u.lock = 0
  <2>1. ses[w] \in Sessions /\ EntryRow \in Rows /\ r \in Rows
    BY <1>2, <1>4
  <2> HIDE DEF r
  <2> QED BY <1>2, <1>3, <2>1 DEF Sessions
<1> HIDE DEF r, s, u
<1>6. 0 < exch.id
  BY <1>2, <1>3 DEF Exchanges, Rows
<1>7. Stands(s, exch', db.row) \/ exch' # exch
  BY <1>3, <1>4, <1>5, <1>6, <1>2 DEF Stands, Exchanges
<1>8. exch'.id = exch.id /\ (exch'.size = 0 \/ EmergencyMayFail) => Stands(u, exch', db.row)
  BY <1>3, <1>4, <1>5, <1>6, <1>2 DEF Stands, Exchanges, Excused
<1>9. CASE Done(w, s) /\ exch' = exch /\ db' = db
  BY <1>1, <1>2, <1>5, <1>7, <1>9, ItemEnds
<1>10. CASE /\ Done(w, u) /\ db' = db
            /\ exch' = [exch EXCEPT !.size = 0] \/ (exch' = exch /\ EmergencyMayFail)
  <2>1. /\ exch' \in Exchanges /\ exch'.id = exch.id
        /\ exch'.size = 0 \/ (exch' = exch /\ EmergencyMayFail)
    <3>1. exch' = [exch EXCEPT !.size = 0] \/ (exch' = exch /\ EmergencyMayFail)
      BY <1>10
    <3> QED BY <1>2, <3>1 DEF Exchanges
  <2>2. RowStands(exch', db.row)
    BY <2>1, ExchangeMoves
  <2> QED BY <1>1, <1>5, <1>8, <1>10, <2>1, <2>2, ItemEnds
<1>11. \/ Done(w, s) /\ exch' = exch /\ db' = db
       \/ /\ Done(w, u) /\ db' = db
          /\ exch' = [exch EXCEPT !.size = 0] \/ (exch' = exch /\ EmergencyMayFail)
  <2>1. ASSUME NEW x, x \in {[exch EXCEPT !.size = 0]}
                           \cup (IF EmergencyMayFail THEN {exch} ELSE {})
        PROVE  x = [exch EXCEPT !.size = 0] \/ (x = exch /\ EmergencyMayFail)
    <3> DEFINE z == [exch EXCEPT !.size = 0]
    <3> HIDE DEF z
    <3>1. x \in {z} \cup (IF EmergencyMayFail THEN {exch} ELSE {})
      BY <2>1 DEF z
    <3>2. x = z \/ (x = exch /\ EmergencyMayFail)
      BY <3>1
    <3> QED BY <3>2 DEF z
  <2> QED BY <2>1 DEF RecordEntry, RecordEntryRuntimeFailed, s, u, r
<1> QED BY <1>9, <1>10, <1>11

LEMMA PositionHold ==
    ASSUME TypeOK, ItemOK, Exclusive, PositionInv, NEW w \in Workers,
           \/ MarkClosedOnExchange(w) \/ Hold(w) \/ AwaitConfirmation(w) \/ SendClose(w)
           \/ \E executed \in BOOLEAN : CloseFails(w, executed)
    PROVE  PositionInv'
<1>1. wk[w].pc = "decide" /\ wk[w].pc \in Trading /\ wk[w].found
  BY DEF MarkClosedOnExchange, Hold, AwaitConfirmation, SendClose, CloseFails, Holding, Trading
<1>2. /\ ses[w] \in Sessions /\ ses[w].loaded /\ wk[w] \in WorkerStates
      /\ Stands(ses[w], exch, db.row) /\ RowStands(exch, db.row) /\ exch \in Exchanges
      /\ db.row \in Rows
  BY <1>1, InHand, FieldTypes
<1>3. ses[w].own /\ (wk[w].flat => exch.size = 0)
  BY <1>1, InHand DEF Knows
<1>4. Counted(w) \in Sessions /\ SameRow(Counted(w), ses[w])
  <2>1. [ses[w] EXCEPT !.streak = ses[w].streak + 1] \in Sessions
    BY FieldTypes
  <2> QED BY <1>2, <2>1 DEF Counted, SameRow, Sessions
<1>5. CASE MarkClosedOnExchange(w)
  <2>1. Closed(ses[w], "already_closed") \in Sessions
    BY ClosedTypes DEF Reasons
  <2>2. /\ Closed(ses[w], "already_closed").own = ses[w].own
        /\ Closed(ses[w], "already_closed").loaded = ses[w].loaded
        /\ Closed(ses[w], "already_closed").lock = ses[w].lock
        /\ Closed(ses[w], "already_closed").row.id = ses[w].row.id
    BY <1>2 DEF Closed, Sessions, Rows
  <2>3. Stands(Closed(ses[w], "already_closed"), exch, db.row)
    BY <1>2, <1>3, <1>5, <2>2 DEF Stands, MarkClosedOnExchange
  <2> QED BY <1>1, <1>2, <1>5, <2>1, <2>3, ItemEnds DEF MarkClosedOnExchange
<1>6. CASE Hold(w)
  <2>1. [ses[w] EXCEPT !.streak = 0] \in Sessions /\ SameRow([ses[w] EXCEPT !.streak = 0], ses[w])
    BY <1>2, FieldTypes DEF SameRow, Sessions
  <2>2. Stands([ses[w] EXCEPT !.streak = 0], exch, db.row)
    BY <1>2, <2>1, SameRowStands
  <2> QED BY <1>1, <1>2, <1>6, <2>1, <2>2, ItemEnds DEF Hold
<1>7. CASE AwaitConfirmation(w)
  <2>1. Stands(Counted(w), exch, db.row)
    BY <1>2, <1>4, SameRowStands
  <2> QED BY <1>1, <1>2, <1>4, <1>7, <2>1, ItemEnds DEF AwaitConfirmation
\* Closing the position keeps every row standing.
<1>8. ASSUME exch' = [exch EXCEPT !.size = 0, !.stop = FALSE]
      PROVE  RowStands(exch', db.row) /\ Stands(Counted(w), exch', db.row)
  <2>1. exch' \in Exchanges /\ exch'.id = exch.id /\ exch'.size = 0
    BY <1>2, <1>8 DEF Exchanges
  <2>2. Stands(ses[w], exch', db.row)
    BY <1>2, <2>1 DEF Stands
  <2> QED BY <1>4, <2>1, <2>2, ExchangeMoves, SameRowStands
<1>9. CASE SendClose(w)
  <2> DEFINE k == [wk[w] EXCEPT !.pc = "closing", !.fast = Fast(w)]
  <2>1. k.pc = "closing"
    BY <1>2 DEF WorkerStates
  <2>2. Knows(k, Counted(w), exch', db.row) /\ RowStands(exch', db.row)
    BY <1>3, <1>4, <1>8, <1>9, <2>1 DEF SendClose, Knows, SameRow
  <2>3. wk' = [wk EXCEPT ![w] = k] /\ ses' = [ses EXCEPT ![w] = Counted(w)] /\ db' = db
    BY <1>9 DEF SendClose, TypeOK
  <2> HIDE DEF k
  <2> QED BY <1>2, <2>2, <2>3, HolderStep
<1>10. ASSUME NEW executed \in BOOLEAN, CloseFails(w, executed) PROVE PositionInv'
  <2>1. exch' = exch \/ exch' = [exch EXCEPT !.size = 0, !.stop = FALSE]
    BY <1>10 DEF CloseFails
  <2>2. RowStands(exch', db.row) /\ Stands(Counted(w), exch', db.row)
    BY <1>2, <1>4, <1>8, <2>1, SameRowStands
  <2> QED BY <1>1, <1>4, <1>10, <2>2, ItemEnds DEF CloseFails
<1> QED BY <1>5, <1>6, <1>7, <1>9, <1>10

LEMMA PositionConfirm ==
    ASSUME TypeOK, ItemOK, Exclusive, PositionInv, NEW w \in Workers,
           (\E pause \in BOOLEAN : ConfirmClose(w, pause)) \/ ConfirmFails(w)
    PROVE  PositionInv'
<1>1. wk[w].pc = "closing" /\ wk[w].pc \in Trading
  BY DEF ConfirmClose, ConfirmFails, Trading
<1>2. /\ ses[w] \in Sessions /\ ses[w].loaded
      /\ Stands(ses[w], exch, db.row) /\ RowStands(exch, db.row)
  BY <1>1, InHand
<1>3. ASSUME NEW pause \in BOOLEAN, ConfirmClose(w, pause) PROVE PositionInv'
  <2> DEFINE c == Closed(ses[w], "opposite")
             s == [c EXCEPT !.running = c.running /\ ~pause]
  <2>1. c \in Sessions /\ (c.running /\ ~pause) \in BOOLEAN
    BY ClosedTypes DEF Reasons
  <2>2. s \in Sessions /\ SameRow(s, c)
    <3> HIDE DEF c
    <3> QED BY <2>1 DEF Sessions, SameRow
  <2>3. /\ c.own = ses[w].own /\ c.loaded = ses[w].loaded
        /\ c.lock = ses[w].lock /\ c.row.id = ses[w].row.id
    BY <1>2 DEF Closed, Sessions, Rows
  <2>4. Stands(c, exch, db.row)
    BY <1>2, <1>3, <2>3 DEF Stands, ConfirmClose
  <2>5. Stands(s, exch, db.row)
    BY <2>2, <2>4, SameRowStands
  <2>6. Done(w, s) /\ exch' = exch /\ db' = db
    BY <1>3 DEF ConfirmClose
  <2> HIDE DEF s
  <2> QED BY <1>1, <1>2, <2>2, <2>5, <2>6, ItemEnds
<1>4. CASE ConfirmFails(w)
  BY <1>1, <1>2, <1>4, ItemEnds DEF ConfirmFails
<1> QED BY <1>3, <1>4

LEMMA PositionQueue ==
    ASSUME TypeOK, PositionInv, NEW w \in Workers,
           Claim(w) \/ (\E h \in Reports : Blocked(w, h) \/ Skip(w, h) \/ Accept(w, h))
    PROVE  PositionInv'
<1>1. ses[w] \in Sessions /\ wk[w] \in WorkerStates /\ Stands(ses[w], exch, db.row)
  BY FieldTypes DEF PositionInv, Knows
<1>2. CASE Claim(w)
  <2> DEFINE k == [Idle EXCEPT !.pc = "loop", !.mine = Due, !.batch = Due]
             s == [Blank EXCEPT !.q = db.q]
  <2>1. Knows(k, s, exch, db.row)
    <3>1. k.pc = "loop" /\ ~s.own /\ s.lock = 0
      BY DEF Idle, Blank
    <3> QED BY <3>1, Bystander DEF Trading
  <2>2. /\ wk' = [wk EXCEPT ![w] = k] /\ ses' = [ses EXCEPT ![w] = s]
        /\ exch' = exch /\ db'.row = db.row
    BY <1>2 DEF Claim
  <2> HIDE DEF k, s
  <2> QED BY <2>1, <2>2, AsideStep
<1>3. ASSUME NEW h \in Reports, NEW s, SameRow(s, ses[w]), Return(w, h, s),
             exch' = exch, db' = db
      PROVE  PositionInv'
  <2>1. Stands(s, exch, db.row)
    BY <1>1, <1>3, SameRowStands
  <2>2. PICK k : /\ wk' = [wk EXCEPT ![w] = k] /\ ses' = [ses EXCEPT ![w] = s]
                 /\ Knows(k, s, exch, db.row)
    BY <1>3, <2>1, ReturnPosition
  <2> QED BY <1>3, <2>2, AsideStep
<1>4. ASSUME NEW h \in Reports, Blocked(w, h) PROVE PositionInv'
  <2>1. SameRow(MarkRetryOrDead(Attempted(ses[w], h), h, TRUE), ses[w])
    BY <1>1, QueueTypes, SameRowOps, SameRowTrans
  <2> QED BY <1>3, <1>4, <2>1 DEF Blocked
<1>5. ASSUME NEW h \in Reports
      PROVE  /\ Attempted(Loaded(ses[w]), h) \in Sessions
             /\ SameRow(Attempted(Loaded(ses[w]), h), ses[w])
  BY <1>1, LoadedType, QueueTypes, SameRowOps, SameRowTrans
<1>6. ASSUME NEW h \in Reports, Skip(w, h) PROVE PositionInv'
  <2> DEFINE t == Attempted(Loaded(ses[w]), h)
  <2>1. t \in Sessions /\ SameRow(t, ses[w]) /\ Advance(t, h) \in Sessions
    BY <1>5, QueueTypes
  <2> HIDE DEF t
  <2>2. /\ SameRow(MarkRetryOrDead(t, h, FALSE), ses[w])
        /\ SameRow(MarkCompleted(Advance(t, h), h), ses[w])
        /\ SameRow(MarkCompleted(t, h), ses[w])
    <3>1. /\ SameRow(MarkRetryOrDead(t, h, FALSE), t)
          /\ SameRow(Advance(t, h), t)
          /\ SameRow(MarkCompleted(t, h), t)
          /\ SameRow(MarkCompleted(Advance(t, h), h), Advance(t, h))
      BY <2>1, SameRowOps
    <3> QED BY <2>1, <3>1, SameRowTrans
  <2> USE DEF t
  <2>3. \/ Return(w, h, MarkRetryOrDead(t, h, FALSE))
        \/ Return(w, h, MarkCompleted(Advance(t, h), h))
        \/ Return(w, h, MarkCompleted(t, h))
    BY <1>6 DEF Skip
  <2>4. exch' = exch /\ db' = db
    BY <1>6 DEF Skip
  <2> QED BY <1>3, <2>2, <2>3, <2>4
<1>7. ASSUME NEW h \in Reports, Accept(w, h) PROVE PositionInv'
  <2> DEFINE t == Attempted(Loaded(ses[w]), h)
             k == [wk[w] EXCEPT !.pc = "sync", !.item = h]
  <2>1. Stands(t, exch, db.row)
    BY <1>1, <1>5, SameRowStands
  <2>2. k.pc = "sync"
    BY <1>1 DEF WorkerStates
  <2>3. Knows(k, t, exch, db.row)
    BY <2>1, <2>2 DEF Knows
  <2>4. wk' = [wk EXCEPT ![w] = k] /\ ses' = [ses EXCEPT ![w] = t] /\ exch' = exch /\ db' = db
    BY <1>7 DEF Accept, TypeOK
  <2> HIDE DEF k, t
  <2> QED BY <2>3, <2>4, AsideStep
<1> QED BY <1>2, <1>4, <1>6, <1>7

LEMMA PositionLeave ==
    ASSUME TypeOK, Exclusive, PositionInv, NEW w \in Workers,
           Commit(w) \/ Crash(w) \/ InsertConflict(w)
    PROVE  PositionInv'
<1>1. wk' = [wk EXCEPT ![w] = Idle] /\ ses' = [ses EXCEPT ![w] = Blank] /\ exch' = exch
  BY DEF Commit, Crash, InsertConflict, Leave
<1>2. \A e, r : Knows(Idle, Blank, e, r)
  <2>1. Idle.pc = "idle" /\ ~Blank.own /\ Blank.lock = 0
    BY DEF Idle, Blank
  <2> QED BY <2>1, Bystander DEF Trading
<1>3. CASE db'.row = db.row
  BY <1>1, <1>2, <1>3, AsideStep
<1>4. CASE ses[w].own /\ db'.row = ses[w].row
  <2>1. /\ ses[w].loaded /\ Stands(ses[w], exch, db.row) /\ RowStands(exch, db.row)
        /\ ses[w].row \in Rows /\ exch \in Exchanges
    BY <1>4, FieldTypes DEF PositionInv, Knows, Stands, TypeOK, Exchanges
  <2>2. RowStands(exch', db'.row)
    BY <1>1, <1>4, <2>1 DEF RowStands, Stands, Excused
  <2> QED BY <1>1, <1>2, <2>1, <2>2, HolderStep
<1>5. db'.row = db.row \/ (ses[w].own /\ db'.row = ses[w].row)
  <2>1. Commit(w) => db'.row = IF ses[w].own THEN ses[w].row ELSE db.row
    BY DEF Commit, Committed
  <2>2. CASE Commit(w)
    BY <2>1, <2>2
  <2>3. CASE Crash(w) \/ InsertConflict(w)
    BY <2>3 DEF Crash, InsertConflict
  <2> QED BY <2>2, <2>3
<1> QED BY <1>3, <1>4, <1>5

\* The row is closed, or persisted as open, by someone who is not a worker.
LEMMA PositionRow ==
    ASSUME TypeOK, PositionInv, wk' = wk, ses' = ses, exch' \in Exchanges,
           exch'.id = exch.id, exch'.size \in {0, exch.size},
           db'.row.id = db.row.id,
           \/ db'.row.open /\ (db.row.open \/ db.row.id > 0)
           \/ ~RowLocked /\ ~db'.row.open /\ (exch'.size = 0 \/ db.row.id # exch.id)
           \/ db'.row = db.row
    PROVE  PositionInv'
<1>1. exch \in Exchanges /\ db.row \in Rows
  BY RowTypes DEF TypeOK, Exchanges
<1>2. RowStands(exch', db'.row)
  BY <1>1 DEF PositionInv, RowStands, Exchanges, Excused
<1>3. ASSUME NEW w \in Workers PROVE Knows(wk'[w], ses'[w], exch', db'.row)
  <2>1. Knows(wk[w], ses[w], exch, db.row)
    BY DEF PositionInv
  <2>2. RowLocked \/ ses[w].lock = 0 \/ ses[w].lock # db.row.id
    BY DEF RowLocked
  <2>3. Stands(ses[w], exch', db'.row)
    BY <1>1, <2>1, <2>2 DEF Knows, Stands
  <2> QED BY <2>1, <2>3 DEF Knows
<1> QED BY <1>2, <1>3 DEF PositionInv

LEMMA PositionOutside ==
    ASSUME TypeOK, PositionInv, Outside
    PROVE  PositionInv'
<1>1. wk' = wk /\ ses' = ses
  BY DEF Outside, World, RetryDue, EnqueueHistorySignal, ExchangeCloses, Reconcile,
         StreamCloses, StopPlaced, TakeProfitFills, TickPersists, SetRunning
<1>2. exch \in Exchanges /\ db.row \in Rows /\ db \in Databases /\ ctx \in Contexts
  BY RowTypes DEF TypeOK, Exchanges
<1>3. CASE \/ \E h \in Reports : RetryDue(h)
           \/ \E k \in Kinds : EnqueueHistorySignal(k)
           \/ \E b \in BOOLEAN : SetRunning(b)
  <2>1. exch' = exch /\ db'.row = db.row
    BY <1>2, <1>3 DEF RetryDue, EnqueueHistorySignal, SetRunning, Databases
  <2> QED BY <1>1, <1>2, <2>1, PositionRow
<1>4. CASE ExchangeCloses
  <2>1. exch' \in Exchanges /\ exch'.id = exch.id /\ exch'.size = 0 /\ db' = db
    BY <1>2, <1>4 DEF ExchangeCloses, Exchanges
  <2> QED BY <1>1, <2>1, PositionRow
<1>5. CASE Reconcile
  <2>1. db'.row.id = db.row.id /\ ~db'.row.open /\ ~RowLocked /\ exch' = exch /\ exch.size = 0
    BY <1>2, <1>5 DEF Reconcile, Databases, Rows
  <2> QED BY <1>1, <1>2, <2>1, PositionRow
<1>6. CASE StreamCloses
  <2>1. CASE db.row.id = ctx.id /\ db.row.open
    <3>1. /\ db'.row.id = db.row.id /\ ~db'.row.open /\ ~RowLocked /\ exch' = exch
          /\ exch.size = 0 \/ exch.id # db.row.id
      BY <1>2, <1>6, <2>1 DEF StreamCloses, Databases, Rows
    <3> QED BY <1>1, <1>2, <3>1, PositionRow
  <2>2. CASE ~(db.row.id = ctx.id /\ db.row.open)
    <3>1. db' = db /\ exch' = exch
      BY <1>6, <2>2 DEF StreamCloses
    <3> QED BY <1>1, <1>2, <3>1, PositionRow
  <2> QED BY <2>1, <2>2
<1>7. ASSUME NEW c \in Contexts, c.id = ctx.id, ctx.id # 0, db' = PersistContext(c),
             exch' \in Exchanges, exch'.id = exch.id, exch'.size = exch.size
      PROVE  PositionInv'
  <2>1. CASE db.row.id = c.id
    <3> DEFINE r == [db.row EXCEPT !.open = TRUE, !.sl = c.sl, !.ladder = c.ladder]
    <3>1. r.id = db.row.id /\ r.open
      BY <1>2 DEF Rows
    <3>2. db'.row = r
      BY <1>2, <1>7, <2>1 DEF PersistContext, Databases
    <3>3. db.row.id > 0
      BY <1>7, <2>1 DEF Contexts
    <3> QED BY <1>1, <1>7, <3>1, <3>2, <3>3, PositionRow
  <2>2. CASE db.row.id # c.id
    <3>1. db' = db
      BY <1>7, <2>2 DEF PersistContext
    <3> QED BY <1>1, <1>7, <3>1, PositionRow
  <2> QED BY <2>1, <2>2
<1>8. CASE StopPlaced \/ TakeProfitFills \/ TickPersists
  <2>1. /\ exch' \in Exchanges /\ exch'.id = exch.id /\ exch'.size = exch.size
        /\ ctx.id # 0
    BY <1>2, <1>8 DEF StopPlaced, TakeProfitFills, TickPersists, Exchanges
  <2>2. PICK c \in Contexts : c.id = ctx.id /\ db' = PersistContext(c)
    BY <1>2, <1>8 DEF StopPlaced, TakeProfitFills, TickPersists, Contexts
  <2> QED BY <1>7, <2>1, <2>2
<1> QED BY <1>3, <1>4, <1>5, <1>6, <1>8 DEF Outside, World

LEMMA PositionNext ==
    TypeOK /\ ItemOK /\ Exclusive /\ PositionInv /\ [Next]_vars => PositionInv'
<1> SUFFICES ASSUME TypeOK, ItemOK, Exclusive, PositionInv, [Next]_vars PROVE PositionInv'
  OBVIOUS
<1>1. ASSUME NEW w \in Workers, Step(w) \/ Crash(w) PROVE PositionInv'
  BY <1>1, PositionQueue, PositionSync, PositionEntry, PositionRecord, PositionHold,
     PositionConfirm, PositionLeave, Zenon DEF Step
<1>2. CASE UNCHANGED vars
  BY <1>2 DEF vars, PositionInv
<1> QED BY <1>1, <1>2, PositionOutside DEF Next, Outside

LEMMA PositionHolds == Spec => [](TypeOK /\ ItemOK /\ Exclusive /\ PositionInv)
BY TypeInit, TypeNext, ExclusiveInit, ExclusiveNext, PositionInit, PositionNext, PTL DEF Spec

\* Retries, lost batches whose orders had filled, and any number of workers: no
\* entry order is ever sent while the exchange shows a position (NoPyramiding).
THEOREM NeverPyramids == Spec => []NoPyramiding
<1>1. PositionInv => NoPyramiding
  BY DEF PositionInv, RowStands, NoPyramiding
<1> QED BY <1>1, PositionHolds, PTL

\* As long as the rollback close of an unprotected entry goes through, the
\* database never holds a closed row for the position that is alive on the
\* exchange (NoLiveClosed).
THEOREM LiveRowsAreOpen ==
    ASSUME ~EmergencyMayFail
    PROVE  Spec => []NoLiveClosed
<1>1. TypeOK /\ PositionInv => NoLiveClosed
  <2> SUFFICES ASSUME TypeOK, PositionInv, exch.size > 0, db.row.id = exch.id
               PROVE  db.row.open
    BY DEF NoLiveClosed
  <2> QED BY DEF PositionInv, RowStands, Excused
<1> QED BY <1>1, PositionHolds, PTL

\* Whatever may fail: the only closed rows of live positions are those that the
\* rollback of an entry wrote.
THEOREM OnlyRollbackClosesLive ==
    Spec => [](exch.size > 0 /\ db.row.id = exch.id /\ ~db.row.open
                  => db.row.reason = "emergency")
<1>1. TypeOK /\ PositionInv => (exch.size > 0 /\ db.row.id = exch.id /\ ~db.row.open
                                  => db.row.reason = "emergency")
  BY DEF PositionInv, RowStands, Excused
<1> QED BY <1>1, PositionHolds, PTL

\* What writes the committed row: a commit of the row's session, the closing
\* side, or the context of the manager.
LEMMA Reopens ==
    ASSUME TypeOK, PositionInv, ~EmergencyMayFail, [Next]_vars,
           db.row.id # 0, ~db.row.open, db'.row.id = db.row.id, db'.row.open
    PROVE  ctx.id = db.row.id
<1>1. db \in Databases /\ db.row \in Rows /\ ctx \in Contexts
  BY RowTypes DEF TypeOK
<1>2. ASSUME NEW w \in Workers, Commit(w) PROVE FALSE
  <2>1. db'.row = IF ses[w].own THEN ses[w].row ELSE db.row
    BY <1>2 DEF Commit, Committed
  <2>2. ses[w].own /\ ses[w].row.id = db.row.id
    BY <2>1
  <2>3. Stands(ses[w], exch, db.row)
    BY DEF PositionInv, Knows
  <2> QED BY <1>1, <2>2, <2>3 DEF Stands, Rows
<1>3. ASSUME NEW c \in Contexts, c.id = ctx.id, db' = PersistContext(c)
      PROVE  ctx.id = db.row.id
  BY <1>3 DEF PersistContext
<1>4. CASE StopPlaced \/ TakeProfitFills \/ TickPersists
  <2>1. PICK c \in Contexts : c.id = ctx.id /\ db' = PersistContext(c)
    BY <1>1, <1>4 DEF StopPlaced, TakeProfitFills, TickPersists, Contexts
  <2> QED BY <1>3, <2>1
<1>5. CASE Reconcile \/ StreamCloses
  BY <1>1, <1>5 DEF Reconcile, StreamCloses, Databases, Rows
<1>6. CASE db'.row = db.row
  BY <1>6
<1>7. ASSUME NEW w \in Workers, Step(w) \/ Crash(w), ~Commit(w) PROVE db' = db
  BY <1>7 DEF Step, Crash, Claim, Blocked, Skip, Accept, SyncOpenPosition, SyncFails, Decline,
     EnterPosition, EntryFails, RecordEntry, RecordEntryRuntimeFailed, InsertConflict,
     MarkClosedOnExchange, Hold, AwaitConfirmation, SendClose, CloseFails, ConfirmClose,
     ConfirmFails
<1>8. CASE \/ \E h \in Reports : RetryDue(h)
           \/ \E k \in Kinds : EnqueueHistorySignal(k)
           \/ \E b \in BOOLEAN : SetRunning(b)
           \/ ExchangeCloses \/ UNCHANGED vars
  <2>1. db'.row = db.row
    BY <1>1, <1>8 DEF RetryDue, EnqueueHistorySignal, SetRunning, ExchangeCloses, vars, Databases
  <2> QED BY <1>6, <2>1
<1> QED BY <1>2, <1>4, <1>5, <1>6, <1>7, <1>8 DEF Next, World

\* While rollback closes go through, a row committed as closed is reopened only
\* for a position that the websocket manager still tracks
\* (ReopenedOnlyIfTracked): no worker commits an outdated copy over a close.
THEOREM NoStaleReopen ==
    ASSUME ~EmergencyMayFail
    PROVE  Spec => ReopenedOnlyIfTracked
<1>1. TypeOK /\ PositionInv /\ [Next]_vars
        => [db.row.id # 0 /\ ~db.row.open /\ db'.row.id = db.row.id /\ db'.row.open
              => ctx.id = db.row.id]_vars
  BY Reopens
<1> QED BY <1>1, PositionHolds, PTL DEF Spec, ReopenedOnlyIfTracked

=============================================================================
