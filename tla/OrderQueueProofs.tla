-------------------------- MODULE OrderQueueProofs --------------------------
(***************************************************************************)
(* Proofs about OrderQueue, for every set of callers, targets and bounds,  *)
(* and about the array of its priority queue, for every size.              *)
(***************************************************************************)
EXTENDS OrderQueueHeap, FiniteSetTheorems, WellFoundedInduction, TLAPS

\* A task's key is a key; it shows the task's position and action.
LEMMA KeyFacts ==
    ASSUME NEW r \in Request
    PROVE  /\ Key(r) \in Keys
           /\ Key(r)[1] = r.position
           /\ Key(r)[2] = r.action
           /\ r.action \notin KeyedActions => Key(r)[3] = NoTarget
  BY DEF Key, Keys, Request

LEMMA BlankFacts == Blank \in Request /\ NoKey \in Keys
  <1>1. Blank \in Request
    BY QueueAssumption DEF Blank, Request, Actions
  <1>2. QED
    BY <1>1, KeyFacts DEF NoKey

\* Coalescing keeps the task's type, position and action.
LEMMA MergedFacts ==
    ASSUME NEW old \in Task, NEW r \in Request, clock \in Nat
    PROVE  /\ Merged(old, r) \in Task
           /\ Merged(old, r).req.position = r.position
           /\ Merged(old, r).req.action = r.action
           /\ Merged(old, r).retry_count = old.retry_count
  BY DEF Merged, Task, Request, IsSl

LEMMA EmergencyFacts ==
    ASSUME NEW r \in Request
    PROVE  /\ EmergencyOf(r) \in Request
           /\ EmergencyOf(r).position = r.position
           /\ EmergencyOf(r).action = "emergency_market_close"
  BY DEF EmergencyOf, Request, Actions, EMERGENCY_CLOSE

-----------------------------------------------------------------------------
(* Type correctness. *)

LEMMA InitType == Init => TypeOK
  <1> SUFFICES ASSUME Init PROVE TypeOK
    OBVIOUS
  <1>1. [req |-> Blank, created_at |-> 0, retry_count |-> 0] \in Task
    BY BlankFacts DEF Task
  <1>2. task \in [TaskIds -> Task] /\ fresh \in 1 .. (2 * MaxTasks + 1) /\ clock \in 0 .. MaxClock
    BY <1>1, QueueAssumption DEF Init
  <1>3. dirty \in BOOLEAN /\ processing \in BOOLEAN
    BY Zenon DEF Init
  <1>4. QED
    BY <1>2, <1>3, BlankFacts DEF Init, TypeOK

LEMMA CoalesceType ==
    ASSUME TypeOK, NEW r \in Request, NEW e \in TaskIds, CoalesceInto(e, r)
    PROVE  /\ task' \in [TaskIds -> Task]
           /\ dirty' \in BOOLEAN
  <1>1. task[e] \in Task /\ clock \in Nat
    BY QueueAssumption DEF TypeOK
  <1>2. Merged(task[e], r) \in Task
    BY <1>1, MergedFacts
  <1>3. task' \in [TaskIds -> Task]
    BY <1>2 DEF CoalesceInto, TypeOK
  <1>4. dirty' \in BOOLEAN
    BY Zenon DEF CoalesceInto, TypeOK
  <1>5. QED
    BY <1>3, <1>4

LEMMA SubmitType ==
    ASSUME TypeOK, NEW r \in Requests, Submit(r)
    PROVE  TypeOK'
  <1>0. r \in Request /\ Key(r) \in Keys
    BY QueueAssumption, KeyFacts
  <1>r. UNCHANGED <<tombstones, worker, processing, clock, cleanup, history>>
    BY DEF Submit
  <1>1. ASSUME NEW k \in Quickfire(r), CoalesceQuickfire(r, k) PROVE TypeOK'
    <2>1. k \in Keys /\ pending[k] \in TaskIds
      BY <1>1 DEF Quickfire, TypeOK
    <2>2. CoalesceInto(pending[k], r)
      BY <1>1 DEF CoalesceQuickfire
    <2>3. pending' \in [Keys -> TaskIds \cup {NoTask}]
      BY <1>0, <1>1, <2>1 DEF CoalesceQuickfire, TypeOK
    <2>4. task' \in [TaskIds -> Task] /\ dirty' \in BOOLEAN /\ UNCHANGED <<fresh, queue>>
      BY <1>0, <2>1, <2>2, CoalesceType DEF CoalesceInto
    <2>5. QED
      BY <1>r, <2>3, <2>4 DEF TypeOK, worker, history
  <1>2. CASE pending[Key(r)] # NoTask /\ CoalesceSameKey(r)
    <2>1. pending[Key(r)] \in TaskIds
      BY <1>0, <1>2 DEF TypeOK
    <2>2. task' \in [TaskIds -> Task] /\ dirty' \in BOOLEAN /\ UNCHANGED <<fresh, queue, pending>>
      BY <1>0, <1>2, <2>1, CoalesceType DEF CoalesceSameKey, CoalesceInto
    <2>3. QED
      BY <1>r, <2>2 DEF TypeOK, worker, history
  <1>3. CASE Insert(r)
    <2>1. [req |-> r, created_at |-> clock, retry_count |-> 0] \in Task
      BY <1>0, QueueAssumption DEF TypeOK, Task
    <2>2. task' \in [TaskIds -> Task] /\ fresh' \in 1 .. (2 * MaxTasks + 1)
          /\ queue' \subseteq TaskIds /\ UNCHANGED dirty
      BY <1>3, <2>1, QueueAssumption DEF Insert, TypeOK, TaskIds
    <2>3. pending' \in [Keys -> TaskIds \cup {NoTask}]
      BY <1>0, <1>3 DEF Insert, TypeOK
    <2>4. QED
      BY <1>r, <2>2, <2>3 DEF TypeOK, worker, history
  <1>4. QED
    BY <1>1, <1>2, <1>3 DEF Submit, Enqueue

LEMMA PopType ==
    ASSUME TypeOK, NEW t \in TaskIds, Pop(t)
    PROVE  TypeOK'
  <1>1. Key(task[t].req) \in Keys
    BY KeyFacts DEF TypeOK, Task
  <1>2. dirty' \in BOOLEAN
    BY Zenon DEF Pop, TypeOK
  <1>3. curKey' \in Keys /\ cur' \in TaskIds /\ queue' \subseteq TaskIds /\ pc' = "popped"
    BY <1>1 DEF Pop, TypeOK
  <1>4. UNCHANGED <<task, fresh, pending, tombstones, sent, outcome, processing,
                    clock, cleanup, history>>
    BY DEF Pop
  <1>5. QED
    BY <1>2, <1>3, <1>4 DEF TypeOK, history

LEMMA SettleEscalateType ==
    ASSUME TypeOK, cur \in TaskIds, SettleEscalate
    PROVE  TypeOK'
  <1> DEFINE e == EmergencyOf(task[cur].req)
             k == Key(e)
  <1>0. e \in Request /\ k \in Keys /\ task[cur].req.position \in Positions
    BY EmergencyFacts, KeyFacts DEF TypeOK, Task, Request
  <1>r. /\ owed' = owed \cup {task[cur].req.position}
        /\ NextIteration
        /\ UNCHANGED <<dirty, tombstones, processing, clock, cleanup, attempts>>
    BY DEF SettleEscalate
  <1>1. CASE pending[k] # NoTask
    <2>1. pending[k] \in TaskIds /\ clock \in Nat
      BY <1>0, <1>1, QueueAssumption DEF TypeOK
    <2>2. Merged(task[pending[k]], e) \in Task
      BY <1>0, <2>1, MergedFacts DEF TypeOK
    <2>3. task' = [task EXCEPT ![pending[k]] = Merged(task[pending[k]], e)]
          /\ pending' = [pending EXCEPT ![curKey] = NoTask] /\ UNCHANGED <<fresh, queue>>
      BY <1>1 DEF SettleEscalate
    <2>4. task' \in [TaskIds -> Task] /\ pending' \in [Keys -> TaskIds \cup {NoTask}]
      BY <2>2, <2>3 DEF TypeOK
    <2>5. QED
      BY <1>0, <1>r, <2>3, <2>4, BlankFacts DEF TypeOK, NextIteration
  <1>2. CASE pending[k] = NoTask
    <2>1. /\ fresh \in TaskIds
          /\ task' = [task EXCEPT ![fresh] = [req |-> e, created_at |-> clock, retry_count |-> 0]]
          /\ fresh' = fresh + 1
          /\ queue' = queue \cup {fresh}
          /\ pending' = [pending EXCEPT ![k] = fresh, ![curKey] = NoTask]
      BY <1>2 DEF SettleEscalate
    <2>2. [req |-> e, created_at |-> clock, retry_count |-> 0] \in Task
      BY <1>0, QueueAssumption DEF TypeOK, Task
    <2>3. task' \in [TaskIds -> Task] /\ pending' \in [Keys -> TaskIds \cup {NoTask}]
      BY <1>0, <2>1, <2>2 DEF TypeOK
    <2>4. fresh' \in 1 .. (2 * MaxTasks + 1) /\ queue' \subseteq TaskIds
      BY <2>1, QueueAssumption DEF TypeOK, TaskIds
    <2>5. QED
      BY <1>0, <1>r, <2>3, <2>4, BlankFacts DEF TypeOK, NextIteration
  <1>3. QED
    BY <1>1, <1>2

\* The worker's other steps need that a busy worker holds a task.
Busy == pc # "idle" => cur \in TaskIds

LEMMA WorkerType ==
    ASSUME TypeOK, Busy, WorkerStep
    PROVE  TypeOK'
  <1>1. CASE DropTombstoned
    BY <1>1, BlankFacts DEF DropTombstoned, TypeOK, NextIteration, history
  <1>2. CASE KeepPopped
    BY <1>2 DEF KeepPopped, TypeOK, history
  <1>3. CASE PutBack
    BY <1>3, BlankFacts DEF PutBack, TypeOK, NextIteration, history, Busy
  <1>4. CASE StartExecution
    <2>1. cur \in TaskIds /\ task[cur].req \in Request
      BY <1>4 DEF StartExecution, Busy, TypeOK, Task
    <2>2. QED
      BY <1>4, <2>1 DEF StartExecution, TypeOK
  <1>5. CASE FinishOk
    BY <1>5, BlankFacts DEF FinishOk, TypeOK, NextIteration, history
  <1>6. CASE FinishTransient
    <2>1. cur \in TaskIds /\ task[cur] \in Task
      BY <1>6 DEF FinishTransient, Busy, TypeOK
    <2>2. [task[cur] EXCEPT !.retry_count = @ + 1] \in Task
      BY <2>1 DEF Task
    <2>3. task' \in [TaskIds -> Task]
      BY <1>6, <2>1, <2>2 DEF FinishTransient, TypeOK
    <2>4. QED
      BY <1>6, <2>3 DEF FinishTransient, TypeOK, history
  <1>7. CASE Requeue
    BY <1>7, BlankFacts DEF Requeue, TypeOK, NextIteration, history, Busy
  <1>8. ASSUME NEW o \in {"exhausted", "would_trigger", "flat", "fatal", "callback"},
               FinishFailed(o)
        PROVE  TypeOK'
    BY <1>8 DEF FinishFailed, TypeOK, history
  <1>9. CASE SettleEscalate
    BY <1>9, SettleEscalateType DEF SettleEscalate, Busy
  <1>10. CASE SettleDrop
    BY <1>10, BlankFacts DEF SettleDrop, TypeOK, NextIteration, history
  <1>11. QED
    BY <1>1, <1>2, <1>3, <1>4, <1>5, <1>6, <1>7, <1>8, <1>9, <1>10 DEF WorkerStep

LEMMA CleanupType ==
    ASSUME TypeOK, NEW p \in Positions, CleanupStep(p)
    PROVE  TypeOK'
  <1>1. CASE PurgePending(p)
    BY <1>1 DEF PurgePending, PurgeKeys, TypeOK, worker, history
  <1>2. CASE AwaitQuiescent(p)
    BY <1>2 DEF AwaitQuiescent, TypeOK, worker, history
  <1>3. CASE QuiesceDone(p)
    BY <1>3 DEF QuiesceDone, TypeOK, worker, history
  <1>4. CASE QuiesceTimeout(p)
    BY <1>4 DEF QuiesceTimeout, TypeOK, worker, history
  <1>5. QED
    BY <1>1, <1>2, <1>3, <1>4 DEF CleanupStep

LEMMA OtherType ==
    ASSUME TypeOK, Stop \/ Tick
    PROVE  TypeOK'
  <1>1. CASE Stop
    <2>1. processing' \in BOOLEAN
      BY <1>1, Zenon DEF Stop
    <2>2. QED
      BY <1>1, <2>1 DEF Stop, TypeOK, worker, history
  <1>2. CASE Tick
    BY <1>2, QueueAssumption DEF Tick, TypeOK, worker, history
  <1>3. QED
    BY <1>1, <1>2

LEMMA BusyStep ==
    ASSUME TypeOK, Busy, Next
    PROVE  Busy'
  BY QueueAssumption DEF Busy, Next, Submit, Pop, WorkerStep, CleanupStep, DropTombstoned,
     KeepPopped, PutBack, StartExecution, FinishOk, FinishTransient, Requeue, FinishFailed,
     SettleEscalate, SettleDrop, PurgePending, AwaitQuiescent, QuiesceDone, QuiesceTimeout,
     Stop, Tick, NextIteration, worker, history, TypeOK

LEMMA TypeStep ==
    ASSUME TypeOK, Busy, [Next]_vars
    PROVE  TypeOK' /\ Busy'
  <1>1. CASE Next
    <2>1. TypeOK'
      BY <1>1, SubmitType, PopType, WorkerType, CleanupType, OtherType DEF Next
    <2>2. QED
      BY <1>1, <2>1, BusyStep
  <1>2. CASE UNCHANGED vars
    BY <1>2 DEF vars, worker, history, TypeOK, Busy
  <1>3. QED
    BY <1>1, <1>2

\* Type correctness, for every run of the queue: in particular the pending map
\* and the queue only ever hold tasks, and a busy worker holds one.
THEOREM TypeCorrect == Spec => []TypeOK
  <1>1. Init => TypeOK /\ Busy
    BY InitType DEF Init, Busy
  <1>2. TypeOK /\ Busy /\ [Next]_vars => (TypeOK /\ Busy)'
    BY TypeStep
  <1>3. QED
    BY <1>1, <1>2, PTL DEF Spec
-----------------------------------------------------------------------------
(* The inductive invariant. *)

LEMMA EmergencyKeyFacts ==
    ASSUME NEW p \in Positions
    PROVE  /\ EmergencyKey(p) \in Keys
           /\ EmergencyKey(p)[1] = p
           /\ EmergencyKey(p)[2] = "emergency_market_close"
  BY DEF EmergencyKey, Keys, Actions

\* Clearing the pending entry of the task in hand touches no other live
\* emergency close.
LEMMA ClearKeepsEmergency ==
    ASSUME TypeOK, Busy, QueueInv, pc # "idle",
           NEW t \in queue, task[t].req.action = "emergency_market_close"
    PROVE  /\ EmergencyKey(task[t].req.position) \in Keys
           /\ EmergencyKey(task[t].req.position) # curKey
           /\ pending[EmergencyKey(task[t].req.position)] = t
  <1>1. task[t].req.position \in Positions /\ t \in TaskIds /\ cur \in TaskIds
    BY DEF TypeOK, Task, Request, Busy
  <1>2. pending[EmergencyKey(task[t].req.position)] = t
    BY <1>1 DEF QueueInv, EmergencyPending, Live
  <1>3. ASSUME EmergencyKey(task[t].req.position) = curKey PROVE FALSE
    <2>1. task[cur].req.action = "emergency_market_close"
          /\ task[cur].req.position = task[t].req.position
      BY <1>1, <1>3, EmergencyKeyFacts DEF QueueInv, KeysMatch, KeyOf
    <2>2. pending[EmergencyKey(task[cur].req.position)] = cur
      BY <1>1, <2>1 DEF QueueInv, EmergencyPending, Live
    <2>3. QED
      BY <1>2, <2>1, <2>2 DEF QueueInv, Identities
  <1>4. QED
    BY <1>1, <1>2, <1>3, EmergencyKeyFacts

\* The key of an emergency close in hand is its position's emergency key.
LEMMA ClearedEmergency ==
    ASSUME TypeOK, Busy, QueueInv, pc # "idle", NEW p \in Positions,
           pending[EmergencyKey(p)] = cur
    PROVE  EmergencyKey(p) = curKey
  <1>1. cur \in TaskIds /\ cur # NoTask /\ curKey \in Keys
    BY QueueAssumption DEF Busy, TypeOK, TaskIds
  <1>2. KeyOf(EmergencyKey(p), cur) /\ KeyOf(curKey, cur)
    BY <1>1, EmergencyKeyFacts DEF QueueInv, KeysMatch
  <1>3. curKey[1] = p /\ curKey[2] = "emergency_market_close" /\ curKey[3] = NoTarget
    BY <1>2, EmergencyKeyFacts DEF KeyOf, KeyedActions
  <1>4. QED
    BY <1>1, <1>3 DEF Keys, EmergencyKey

LEMMA InitInv == Init => QueueInv
  BY QueueAssumption DEF Init, QueueInv, Identities, KeysMatch, Counted, EmergencyPending,
     EmergencyLive, EmergencyKey, Keys, Actions, EscalationNotLost, Live, Awaiting, TaskIds

\* The escalation of a failed SL task: the emergency close joins one already
\* pending, which is then live, or becomes the pending one itself.
LEMMA SettleEscalateInv ==
    ASSUME TypeOK, cur \in TaskIds, QueueInv, SettleEscalate
    PROVE  QueueInv'
  <1> DEFINE p == task[cur].req.position
             e == EmergencyOf(task[cur].req)
             k == EmergencyKey(p)
  <1>0. /\ e \in Request /\ e.position = p /\ e.action = "emergency_market_close"
        /\ p \in Positions /\ clock \in Nat /\ k \in Keys /\ curKey \in Keys
    BY EmergencyFacts, EmergencyKeyFacts, QueueAssumption DEF TypeOK, Task, Request
  <1>k. Key(e) = k
    BY <1>0 DEF Key, EmergencyKey, KeyedActions
  <1>c. curKey # k /\ task[cur].req.action # "emergency_market_close" /\ pc # "idle"
    BY <1>0, EmergencyKeyFacts DEF SettleEscalate, Escalates, IsSl, SlActions, QueueInv, KeysMatch,
       KeyOf
  <1>r. /\ owed' = owed \cup {p}
        /\ NextIteration
        /\ UNCHANGED <<dirty, tombstones, processing, clock, cleanup, attempts>>
    BY DEF SettleEscalate
  <1>o. \A t \in queue : task[t].req.action = "emergency_market_close" =>
          /\ EmergencyKey(task[t].req.position) \in Keys
          /\ EmergencyKey(task[t].req.position) # curKey
          /\ pending[EmergencyKey(task[t].req.position)] = t
    BY <1>c, ClearKeepsEmergency DEF Busy
  <1>l. \A q \in Positions : pending[EmergencyKey(q)] # NoTask =>
          pending[EmergencyKey(q)] \in queue
    <2> SUFFICES ASSUME NEW q \in Positions, pending[EmergencyKey(q)] # NoTask
                 PROVE  pending[EmergencyKey(q)] # cur
      BY DEF QueueInv, EmergencyLive, Live
    <2>1. KeyOf(EmergencyKey(q), pending[EmergencyKey(q)])
      BY EmergencyKeyFacts DEF QueueInv, KeysMatch
    <2>2. QED
      BY <1>c, <2>1, EmergencyKeyFacts DEF KeyOf
  <1>s. \A q \in owed : \E t \in queue : /\ task[t].req.position = q
                                       /\ task[t].req.action = "emergency_market_close"
    BY <1>c DEF QueueInv, EscalationNotLost, Awaiting, SettleEscalate
  <1>1. CASE pending[k] # NoTask
    <2> DEFINE d == pending[k]
    <2>1. d \in TaskIds /\ KeyOf(k, d) /\ d < fresh
      BY <1>0, <1>1 DEF TypeOK, QueueInv, KeysMatch, Identities
    <2>2. task[d].req.position = p /\ task[d].req.action = "emergency_market_close"
      BY <1>0, <2>1, EmergencyKeyFacts DEF KeyOf
    <2>3. /\ task' = [task EXCEPT ![d] = Merged(task[d], e)]
          /\ pending' = [pending EXCEPT ![curKey] = NoTask] /\ UNCHANGED <<fresh, queue>>
      BY <1>1, <1>k DEF SettleEscalate
    <2>4. /\ task'[d].req.position = p
          /\ task'[d].req.action = "emergency_market_close"
          /\ task'[d].retry_count = task[d].retry_count
      BY <1>0, <2>1, <2>3, MergedFacts DEF TypeOK
    <2>5. \A t \in TaskIds : /\ task'[t].req.position = task[t].req.position
                             /\ task'[t].req.action = task[t].req.action
                             /\ task'[t].retry_count = task[t].retry_count
      BY <2>1, <2>2, <2>3, <2>4 DEF TypeOK
    <2>6. Identities'
      BY <1>r, <2>3 DEF QueueInv, Identities, NextIteration, TypeOK
    <2>7. KeysMatch'
      BY <1>r, <2>3, <2>5, ZenonT(60) DEF QueueInv, KeysMatch, KeyOf, NextIteration, TypeOK
    <2>8. Counted'
      BY <1>r, <1>c, <2>3, <2>5, ZenonT(60) DEF QueueInv, Counted, Awaiting, NextIteration, TypeOK
    <2>9. EmergencyPending'
      BY <1>r, <1>o, <2>3, <2>5, ZenonT(120) DEF EmergencyPending, Live, NextIteration, TypeOK, EmergencyKey
    <2>10. d \in queue
      BY <1>0, <1>1, <1>c, <2>2 DEF QueueInv, EmergencyLive, Live
    <2>11. EmergencyLive'
      BY <1>l, <1>r, <2>3, EmergencyKeyFacts DEF EmergencyLive, Live, TypeOK, EmergencyKey
    <2>12. EscalationNotLost'
      <3>1. \A q \in owed' : \E t \in queue' : /\ task'[t].req.position = q
                                             /\ task'[t].req.action = "emergency_market_close"
        <4>1. ASSUME NEW q \in owed
              PROVE  \E t \in queue' : /\ task'[t].req.position = q
                                       /\ task'[t].req.action = "emergency_market_close"
          <5>1. PICK t \in queue : /\ task[t].req.position = q
                                   /\ task[t].req.action = "emergency_market_close"
            BY <1>s
          <5>2. t \in TaskIds /\ t \in queue'
            BY <2>3 DEF TypeOK
          <5>3. QED
            BY <2>5, <5>1, <5>2
        <4>2. d \in queue' /\ task'[d].req.position = p
              /\ task'[d].req.action = "emergency_market_close"
          BY <2>3, <2>4, <2>10
        <4>3. QED
          BY <1>r, <4>1, <4>2
      <3>2. QED
        BY <2>3, <3>1, ZenonT(60) DEF EscalationNotLost, Awaiting, TypeOK
    <2>13. QED
      BY <2>6, <2>7, <2>8, <2>9, <2>11, <2>12 DEF QueueInv
  <1>2. CASE pending[k] = NoTask
    <2>1. /\ fresh \in TaskIds
          /\ task' = [task EXCEPT ![fresh] = [req |-> e, created_at |-> clock, retry_count |-> 0]]
          /\ fresh' = fresh + 1
          /\ queue' = queue \cup {fresh}
          /\ pending' = [pending EXCEPT ![k] = fresh, ![curKey] = NoTask]
      BY <1>2, <1>k DEF SettleEscalate
    <2>2. task'[fresh] = [req |-> e, created_at |-> clock, retry_count |-> 0]
          /\ \A t \in TaskIds : t # fresh => task'[t] = task[t]
      BY <2>1 DEF TypeOK
    <2>3. /\ pending'[k] = fresh /\ pending'[curKey] = NoTask
          /\ \A j \in Keys : j # k /\ j # curKey => pending'[j] = pending[j]
      BY <1>0, <1>c, <2>1 DEF TypeOK
    <2>i. /\ fresh \in Nat /\ fresh # NoTask /\ queue \subseteq Nat
          /\ \A j \in Keys : pending[j] # NoTask => pending[j] \in Nat /\ pending[j] # fresh
          /\ fresh \notin queue
      BY <2>1, QueueAssumption DEF TypeOK, TaskIds, QueueInv, Identities
    <2>4. Identities'
      <3>1. \A t \in queue' : t < fresh'
        BY <2>1, <2>i DEF QueueInv, Identities
      <3>2. \A j \in Keys : pending'[j] # NoTask => pending'[j] < fresh'
        <4> SUFFICES ASSUME NEW j \in Keys, pending'[j] # NoTask PROVE pending'[j] < fresh'
          OBVIOUS
        <4>1. CASE j = k
          BY <2>1, <2>3, <2>i, <4>1
        <4>2. CASE j # k
          <5>1. pending'[j] = pending[j] /\ pending[j] < fresh /\ pending[j] \in Nat
            BY <2>3, <2>i, <4>2 DEF QueueInv, Identities
          <5>2. QED
            BY <2>1, <2>i, <5>1
        <4>3. QED
          BY <4>1, <4>2
      <3>3. QED
        BY <1>r, <3>1, <3>2 DEF Identities, NextIteration
    <2>5. KeysMatch'
      <3>1. /\ k[1] = task'[fresh].req.position
            /\ k[2] = task'[fresh].req.action
            /\ k[3] = NoTarget
        BY <1>0, <2>2, EmergencyKeyFacts DEF EmergencyKey
      <3>2. ASSUME NEW j \in Keys, j # k, pending'[j] # NoTask
            PROVE  /\ pending'[j] = pending[j] /\ KeyOf(j, pending[j])
                   /\ task'[pending[j]] = task[pending[j]]
        BY <2>2, <2>3, <2>i, <3>2 DEF QueueInv, KeysMatch, TypeOK
      <3>3. \A j \in Keys : pending'[j] # NoTask =>
               /\ j[1] = task'[pending'[j]].req.position
               /\ j[2] = task'[pending'[j]].req.action
               /\ j[2] \notin KeyedActions => j[3] = NoTarget
        BY <2>3, <3>1, <3>2 DEF KeyOf
      <3>4. QED
        BY <1>r, <3>3 DEF QueueInv, KeysMatch, KeyOf, NextIteration
    <2>6. Counted'
      BY <1>r, <1>c, <2>1, <2>2, <2>i, QueueAssumption
      DEF QueueInv, Counted, Awaiting, NextIteration, TypeOK, TaskIds
    <2>7. EmergencyPending'
      <3> SUFFICES ASSUME NEW t \in queue', task'[t].req.action = "emergency_market_close"
                   PROVE  pending'[EmergencyKey(task'[t].req.position)] = t
        BY <1>r DEF EmergencyPending, Live, NextIteration, EmergencyKey
      <3>1. CASE t = fresh
        BY <1>0, <2>2, <2>3, <3>1
      <3>2. CASE t # fresh
        <4>1. t \in queue /\ task'[t] = task[t]
          BY <2>1, <2>2, <3>2 DEF TypeOK
        <4>2. pending[EmergencyKey(task[t].req.position)] = t /\ t # NoTask
              /\ EmergencyKey(task[t].req.position) \in Keys \ {curKey}
          BY <1>o, <4>1, QueueAssumption DEF TypeOK, TaskIds
        <4>3. QED
          BY <1>2, <2>3, <4>1, <4>2
      <3>3. QED
        BY <3>1, <3>2
    <2>8. EmergencyLive'
      <3>1. \A q \in Positions : pending'[EmergencyKey(q)] # NoTask =>
               pending'[EmergencyKey(q)] \in queue'
        <4> SUFFICES ASSUME NEW q \in Positions, pending'[EmergencyKey(q)] # NoTask
                     PROVE  pending'[EmergencyKey(q)] \in queue'
          OBVIOUS
        <4>0. EmergencyKey(q) \in Keys /\ EmergencyKey(q) # curKey
          BY <2>3, EmergencyKeyFacts
        <4>1. CASE EmergencyKey(q) = k
          BY <2>1, <2>3, <4>1
        <4>2. CASE EmergencyKey(q) # k
          <5>1. pending'[EmergencyKey(q)] = pending[EmergencyKey(q)]
            BY <2>3, <4>0, <4>2
          <5>2. pending[EmergencyKey(q)] \in queue
            BY <1>l, <5>1
          <5>3. QED
            BY <2>1, <5>1, <5>2
        <4>3. QED
          BY <4>1, <4>2
      <3>2. QED
        BY <3>1 DEF EmergencyLive, Live, EmergencyKey
    <2>9. EscalationNotLost'
      <3>1. \A q \in owed' : \E t \in queue' : /\ task'[t].req.position = q
                                             /\ task'[t].req.action = "emergency_market_close"
        BY <1>0, <1>s, <1>r, <2>1, <2>2, <2>i DEF TypeOK
      <3>2. queue' \subseteq TaskIds
        BY <2>1 DEF TypeOK
      <3>3. QED
        BY <3>1, <3>2 DEF EscalationNotLost, Awaiting
    <2>10. QED
      BY <2>4, <2>5, <2>6, <2>7, <2>8, <2>9 DEF QueueInv
  <1>3. QED
    BY <1>1, <1>2

LEMMA WorkerInv ==
    ASSUME TypeOK, Busy, QueueInv, WorkerStep
    PROVE  QueueInv'
  <1>1. CASE DropTombstoned
    <2>1. Identities'
      BY <1>1 DEF DropTombstoned, NextIteration, history, TypeOK, QueueInv, Identities
    <2>2. KeysMatch'
      BY <1>1 DEF DropTombstoned, NextIteration, history, TypeOK, QueueInv, KeysMatch, KeyOf
    <2>3. Counted'
      BY <1>1 DEF DropTombstoned, NextIteration, history, TypeOK, QueueInv, Counted, Awaiting
    <2>4. EmergencyPending'
      BY <1>1 DEF DropTombstoned, NextIteration, history, TypeOK, QueueInv, EmergencyPending, EmergencyKey, Live
    <2>5. EscalationNotLost'
      <3>1. task[cur].req.action # "emergency_market_close"
        BY <1>1 DEF DropTombstoned, QueueInv, KeysMatch, KeyOf, PurgedActions
      <3>2. QED
        BY <1>1, <3>1 DEF DropTombstoned, NextIteration, history, QueueInv, EscalationNotLost,
           Awaiting
    <2>6. EmergencyLive'
      BY <1>1, EmergencyKeyFacts DEF DropTombstoned, NextIteration, QueueInv, EmergencyLive, Live, KeysMatch, KeyOf,
         PurgedActions
    <2>7. QED
      BY <2>1, <2>2, <2>3, <2>4, <2>5, <2>6 DEF QueueInv
  <1>2. CASE KeepPopped
    <2>1. Identities'
      BY <1>2 DEF KeepPopped, history, TypeOK, QueueInv, Identities
    <2>2. KeysMatch'
      BY <1>2 DEF KeepPopped, history, TypeOK, QueueInv, KeysMatch, KeyOf
    <2>3. Counted'
      BY <1>2 DEF KeepPopped, history, TypeOK, QueueInv, Counted, Awaiting
    <2>4. EmergencyPending'
      BY <1>2 DEF KeepPopped, history, TypeOK, QueueInv, EmergencyPending, EmergencyKey, Live
    <2>5. EscalationNotLost'
      BY <1>2 DEF KeepPopped, history, TypeOK, QueueInv, EscalationNotLost, Awaiting
    <2>6. EmergencyLive'
      BY <1>2 DEF KeepPopped, QueueInv, EmergencyLive, Live
    <2>7. QED
      BY <2>1, <2>2, <2>3, <2>4, <2>5, <2>6 DEF QueueInv
  <1>3. CASE PutBack
    <2>1. Identities'
      BY <1>3 DEF PutBack, NextIteration, history, TypeOK, QueueInv, Identities
    <2>2. KeysMatch'
      BY <1>3 DEF PutBack, NextIteration, history, TypeOK, QueueInv, KeysMatch, KeyOf
    <2>3. Counted'
      BY <1>3 DEF PutBack, NextIteration, history, TypeOK, QueueInv, Counted, Awaiting
    <2>4. EmergencyPending'
      BY <1>3 DEF PutBack, NextIteration, history, TypeOK, QueueInv, EmergencyPending, EmergencyKey, Live
    <2>5. EscalationNotLost'
      BY <1>3 DEF PutBack, NextIteration, history, TypeOK, QueueInv, EscalationNotLost, Awaiting
    <2>6. EmergencyLive'
      BY <1>3 DEF PutBack, NextIteration, QueueInv, EmergencyLive, Live
    <2>7. QED
      BY <2>1, <2>2, <2>3, <2>4, <2>5, <2>6 DEF QueueInv
  <1>4. CASE StartExecution
    <2>1. Identities'
      BY <1>4 DEF StartExecution, TypeOK, QueueInv, Identities
    <2>2. KeysMatch'
      BY <1>4 DEF StartExecution, TypeOK, QueueInv, KeysMatch, KeyOf
    <2>3. Counted'
      <3>1. cur \in TaskIds /\ cur \notin queue /\ cur < fresh /\ attempts[cur] <= task[cur].retry_count
        BY <1>4 DEF StartExecution, QueueInv, Identities, Counted, Awaiting
      <3>2. attempts[cur] \in Nat /\ task[cur].retry_count \in Nat /\ fresh \in Nat /\ cur \in Nat
        BY <3>1, QueueAssumption DEF TypeOK, Task, TaskIds
      <3>3. attempts' = [attempts EXCEPT ![cur] = attempts[cur] + 1]
        BY <1>4 DEF StartExecution
      <3>4. \A t \in TaskIds : t # cur => attempts'[t] = attempts[t]
        BY <3>1, <3>3 DEF TypeOK
      <3>5. attempts'[cur] = attempts[cur] + 1
        BY <3>1, <3>3 DEF TypeOK
      <3>6. attempts'[cur] <= task[cur].retry_count + 1 /\ attempts'[cur] <= MaxRetries + 1
        BY <3>1, <3>2, <3>5, QueueAssumption DEF QueueInv, Counted
      <3>7. QED
        BY <1>4, <3>1, <3>2, <3>4, <3>6 DEF StartExecution, QueueInv, Counted, Awaiting
    <2>4. EmergencyPending'
      BY <1>4 DEF StartExecution, TypeOK, QueueInv, EmergencyPending, EmergencyKey, Live
    <2>5. EscalationNotLost'
      BY <1>4 DEF StartExecution, TypeOK, QueueInv, EscalationNotLost, Awaiting
    <2>6. EmergencyLive'
      BY <1>4 DEF StartExecution, QueueInv, EmergencyLive, Live
    <2>7. QED
      BY <2>1, <2>2, <2>3, <2>4, <2>5, <2>6 DEF QueueInv
  <1>5. CASE FinishOk
    <2>1. Identities'
      BY <1>5 DEF FinishOk, NextIteration, history, TypeOK, QueueInv, Identities
    <2>2. KeysMatch'
      BY <1>5 DEF FinishOk, NextIteration, history, TypeOK, QueueInv, KeysMatch, KeyOf
    <2>3. Counted'
      BY <1>5 DEF FinishOk, NextIteration, history, TypeOK, QueueInv, Counted, Awaiting
    <2>4. EmergencyPending'
      BY <1>5, ClearKeepsEmergency DEF FinishOk, NextIteration, TypeOK, EmergencyPending, Live
    <2>5. EscalationNotLost'
      BY <1>5 DEF FinishOk, NextIteration, history, TypeOK, QueueInv, EscalationNotLost, Awaiting
    <2>6. EmergencyLive'
      BY <1>5, ClearedEmergency, EmergencyKeyFacts DEF FinishOk, NextIteration, QueueInv, EmergencyLive, Live, TypeOK
    <2>7. QED
      BY <2>1, <2>2, <2>3, <2>4, <2>5, <2>6 DEF QueueInv
  <1>6. CASE FinishTransient
    <2>1. Identities'
      BY <1>6 DEF FinishTransient, history, Busy, TypeOK, QueueInv, Identities
    <2>2. KeysMatch'
      BY <1>6 DEF FinishTransient, history, Busy, TypeOK, QueueInv, KeysMatch, KeyOf
    <2>3. Counted'
      <3>1. cur \in TaskIds /\ attempts[cur] <= task[cur].retry_count + 1
            /\ task[cur].retry_count < MaxRetries
        BY <1>6 DEF FinishTransient, Busy, QueueInv, Counted
      <3>2. attempts[cur] \in Nat /\ task[cur].retry_count \in Nat /\ task[cur] \in Task
        BY <3>1 DEF TypeOK, Task
      <3>3. task' = [task EXCEPT ![cur] = [task[cur] EXCEPT !.retry_count = task[cur].retry_count + 1]]
        BY <1>6 DEF FinishTransient
      <3>4. \A t \in TaskIds : t # cur => task'[t] = task[t]
        BY <3>1, <3>3 DEF TypeOK
      <3>5. task'[cur].retry_count = task[cur].retry_count + 1
        BY <3>1, <3>2, <3>3 DEF TypeOK, Task
      <3>6. task'[cur].retry_count <= MaxRetries /\ attempts[cur] <= task'[cur].retry_count
        BY <3>1, <3>2, <3>5, QueueAssumption
      <3>7. QED
        BY <1>6, <3>1, <3>4, <3>6 DEF FinishTransient, history, QueueInv, Counted, Awaiting
    <2>4. EmergencyPending'
      BY <1>6 DEF FinishTransient, history, Busy, TypeOK, QueueInv, EmergencyPending, EmergencyKey, Live
    <2>5. EscalationNotLost'
      BY <1>6 DEF FinishTransient, history, Busy, TypeOK, QueueInv, EscalationNotLost, Awaiting
    <2>6. EmergencyLive'
      BY <1>6 DEF FinishTransient, QueueInv, EmergencyLive, Live
    <2>7. QED
      BY <2>1, <2>2, <2>3, <2>4, <2>5, <2>6 DEF QueueInv
  <1>7. CASE Requeue
    <2>1. Identities'
      BY <1>7 DEF Requeue, NextIteration, history, TypeOK, QueueInv, Identities
    <2>2. KeysMatch'
      BY <1>7 DEF Requeue, NextIteration, history, TypeOK, QueueInv, KeysMatch, KeyOf
    <2>3. Counted'
      BY <1>7 DEF Requeue, NextIteration, history, TypeOK, QueueInv, Counted, Awaiting
    <2>4. EmergencyPending'
      BY <1>7 DEF Requeue, NextIteration, history, TypeOK, QueueInv, EmergencyPending, EmergencyKey, Live
    <2>5. EscalationNotLost'
      BY <1>7 DEF Requeue, NextIteration, history, TypeOK, QueueInv, EscalationNotLost, Awaiting
    <2>6. EmergencyLive'
      BY <1>7 DEF Requeue, NextIteration, QueueInv, EmergencyLive, Live
    <2>7. QED
      BY <2>1, <2>2, <2>3, <2>4, <2>5, <2>6 DEF QueueInv
  <1>8. ASSUME NEW o \in {"exhausted", "would_trigger", "flat", "fatal", "callback"},
               FinishFailed(o)
        PROVE  QueueInv'
    <2>1. Identities'
      BY <1>8 DEF FinishFailed, history, TypeOK, QueueInv, Identities
    <2>2. KeysMatch'
      BY <1>8 DEF FinishFailed, history, TypeOK, QueueInv, KeysMatch, KeyOf
    <2>3. Counted'
      BY <1>8 DEF FinishFailed, history, TypeOK, QueueInv, Counted, Awaiting
    <2>4. EmergencyPending'
      BY <1>8 DEF FinishFailed, history, TypeOK, QueueInv, EmergencyPending, EmergencyKey, Live
    <2>5. EscalationNotLost'
      BY <1>8 DEF FinishFailed, history, TypeOK, QueueInv, EscalationNotLost, Awaiting
    <2>6. EmergencyLive'
      BY <1>8 DEF FinishFailed, QueueInv, EmergencyLive, Live
    <2>7. QED
      BY <2>1, <2>2, <2>3, <2>4, <2>5, <2>6 DEF QueueInv
  <1>9. CASE SettleEscalate
    BY <1>9, SettleEscalateInv DEF SettleEscalate, Busy
  <1>10. CASE SettleDrop
    <2>1. Identities'
      BY <1>10 DEF SettleDrop, NextIteration, history, TypeOK, QueueInv, Identities
    <2>2. KeysMatch'
      BY <1>10 DEF SettleDrop, NextIteration, history, TypeOK, QueueInv, KeysMatch, KeyOf
    <2>3. Counted'
      BY <1>10 DEF SettleDrop, NextIteration, history, TypeOK, QueueInv, Counted, Awaiting
    <2>4. EmergencyPending'
      BY <1>10, ClearKeepsEmergency DEF SettleDrop, NextIteration, TypeOK, EmergencyPending, Live
    <2>5. EscalationNotLost'
      BY <1>10 DEF SettleDrop, NextIteration, history, TypeOK, QueueInv, EscalationNotLost, Awaiting
    <2>6. EmergencyLive'
      BY <1>10, ClearedEmergency, EmergencyKeyFacts DEF SettleDrop, NextIteration, QueueInv, EmergencyLive, Live, TypeOK
    <2>7. QED
      BY <2>1, <2>2, <2>3, <2>4, <2>5, <2>6 DEF QueueInv
  <1>11. QED
    BY <1>1, <1>2, <1>3, <1>4, <1>5, <1>6, <1>7, <1>8, <1>9, <1>10 DEF WorkerStep

\* A step that changes none of these variables keeps the invariant.
LEMMA SameInv ==
    ASSUME QueueInv,
           UNCHANGED <<task, fresh, queue, pending, tombstones, pc, cur, curKey, attempts, owed>>
    PROVE  QueueInv'
  BY DEF QueueInv, Identities, KeysMatch, KeyOf, Counted, Awaiting, EmergencyPending,
     EmergencyLive, EmergencyKey, Live, EscalationNotLost

LEMMA CoalesceInv ==
    ASSUME TypeOK, QueueInv, NEW r \in Request, NEW e \in TaskIds, CoalesceInto(e, r),
           task[e].req.position = r.position, task[e].req.action = r.action
    PROVE  /\ UNCHANGED <<fresh, queue>>
           /\ \A t \in TaskIds : /\ task'[t].req.position = task[t].req.position
                                 /\ task'[t].req.action = task[t].req.action
                                 /\ task'[t].retry_count = task[t].retry_count
  <1>1. task' = [task EXCEPT ![e] = Merged(task[e], r)] /\ UNCHANGED <<fresh, queue>>
    BY DEF CoalesceInto
  <1>2. task[e] \in Task /\ clock \in Nat
    BY QueueAssumption DEF TypeOK
  <1>3. /\ task'[e].req.position = r.position
        /\ task'[e].req.action = r.action
        /\ task'[e].retry_count = task[e].retry_count
    BY <1>1, <1>2, MergedFacts DEF TypeOK
  <1>4. QED
    BY <1>1, <1>3 DEF TypeOK

\* Steps that keep every task's position, action and retry count, the queue and
\* the worker, and change the pending map only at SL keys, keep the invariant.
LEMMA CoalescedInv ==
    ASSUME TypeOK, Busy, QueueInv,
           UNCHANGED <<fresh, queue, tombstones, pc, cur, curKey, attempts, owed>>,
           \A t \in TaskIds : /\ task'[t].req.position = task[t].req.position
                             /\ task'[t].req.action = task[t].req.action
                             /\ task'[t].retry_count = task[t].retry_count,
           \A k \in Keys : pending'[k] # NoTask =>
               pending'[k] \in TaskIds /\ pending'[k] < fresh /\ KeyOf(k, pending'[k]),
           \A p \in Positions : pending'[EmergencyKey(p)] = pending[EmergencyKey(p)]
    PROVE  QueueInv'
  <1>1. Identities'
    BY DEF QueueInv, Identities
  <1>2. KeysMatch'
    BY DEF QueueInv, KeysMatch, KeyOf, Busy
  <1>3. Counted'
    BY DEF QueueInv, Counted, Awaiting, Busy
  <1>4. EmergencyPending'
    <2> SUFFICES ASSUME NEW t \in TaskIds, Live(t), task[t].req.action = "emergency_market_close"
                 PROVE  pending'[EmergencyKey(task[t].req.position)] = t
      BY DEF EmergencyPending, Live, EmergencyKey
    <2>1. task[t].req.position \in Positions
      BY DEF TypeOK, Task, Request
    <2>2. QED
      BY <2>1 DEF QueueInv, EmergencyPending
  <1>5. EmergencyLive'
    BY DEF QueueInv, EmergencyLive, Live, EmergencyKey
  <1>6. EscalationNotLost'
    BY DEF QueueInv, EscalationNotLost, Awaiting
  <1>7. QED
    BY <1>1, <1>2, <1>3, <1>4, <1>5, <1>6 DEF QueueInv

LEMMA InsertInv ==
    ASSUME TypeOK, Busy, QueueInv, NEW r \in Request, Insert(r), pending[Key(r)] = NoTask,
           UNCHANGED <<tombstones, worker, processing, clock, cleanup, history>>
    PROVE  QueueInv'
  <1> DEFINE n == fresh
             k == Key(r)
  <1>0. /\ k \in Keys /\ k[1] = r.position /\ k[2] = r.action
        /\ r.action \notin KeyedActions => k[3] = NoTarget
        /\ r.position \in Positions
    BY KeyFacts DEF Request
  <1>1. /\ n \in TaskIds /\ fresh' = n + 1 /\ queue' = queue \cup {n}
        /\ task' = [task EXCEPT ![n] = [req |-> r, created_at |-> clock, retry_count |-> 0]]
        /\ pending' = [pending EXCEPT ![k] = n]
        /\ UNCHANGED <<tombstones, pc, cur, curKey, attempts, owed>>
    BY DEF Insert, worker, history
  <1>2. /\ task'[n] = [req |-> r, created_at |-> clock, retry_count |-> 0]
        /\ \A t \in TaskIds : t # n => task'[t] = task[t]
        /\ pending'[k] = n
        /\ \A j \in Keys : j # k => pending'[j] = pending[j]
    BY <1>0, <1>1 DEF TypeOK
  <1>3. /\ n \in Nat /\ n # NoTask /\ TaskIds \subseteq Nat /\ n \notin queue
        /\ \A j \in Keys : pending[j] # NoTask =>
              pending[j] \in TaskIds /\ pending[j] < n /\ pending[j] # n
        /\ pc # "idle" => cur \in TaskIds /\ cur < n /\ cur # n
    BY <1>1, QueueAssumption DEF TypeOK, TaskIds, QueueInv, Identities
  <1>4. Identities'
    <2>1. \A t \in queue' : t < fresh'
      BY <1>1, <1>3 DEF QueueInv, Identities, TypeOK
    <2>2. \A j \in Keys : pending'[j] # NoTask => pending'[j] < fresh'
      <3> SUFFICES ASSUME NEW j \in Keys, pending'[j] # NoTask PROVE pending'[j] < n + 1
        BY <1>1
      <3>1. CASE j = k
        BY <1>2, <1>3, <3>1
      <3>2. CASE j # k
        <4>1. pending'[j] \in Nat /\ pending'[j] < n
          BY <1>2, <1>3, <3>2
        <4>2. QED
          BY <1>3, <4>1
      <3>3. QED
        BY <3>1, <3>2
    <2>3. pc' # "idle" => cur' \in TaskIds /\ cur' < fresh' /\ cur' \notin queue'
      <3> SUFFICES ASSUME pc # "idle" PROVE cur \in TaskIds /\ cur < n + 1 /\ cur \notin queue'
        BY <1>1
      <3>1. cur \in Nat /\ cur \in TaskIds /\ cur < n /\ cur # n /\ cur \notin queue
        BY <1>3 DEF QueueInv, Identities
      <3>2. QED
        BY <1>1, <1>3, <3>1
    <2>4. QED
      BY <2>1, <2>2, <2>3 DEF Identities
  <1>5. KeysMatch'
    <2>1. \A j \in Keys : pending'[j] # NoTask =>
             /\ j[1] = task'[pending'[j]].req.position
             /\ j[2] = task'[pending'[j]].req.action
             /\ j[2] \notin KeyedActions => j[3] = NoTarget
      <3> SUFFICES ASSUME NEW j \in Keys, pending'[j] # NoTask
                   PROVE  /\ j[1] = task'[pending'[j]].req.position
                          /\ j[2] = task'[pending'[j]].req.action
                          /\ j[2] \notin KeyedActions => j[3] = NoTarget
        OBVIOUS
      <3>1. CASE j = k
        BY <1>0, <1>2, <3>1
      <3>2. CASE j # k
        <4>1. pending'[j] = pending[j] /\ task'[pending[j]] = task[pending[j]]
          BY <1>2, <1>3, <3>2
        <4>2. QED
          BY <4>1 DEF QueueInv, KeysMatch, KeyOf
      <3>3. QED
        BY <3>1, <3>2
    <2>2. pc' # "idle" => KeyOf(curKey, cur)'
      BY <1>1, <1>2, <1>3 DEF QueueInv, KeysMatch, KeyOf
    <2>3. QED
      BY <1>1, <2>1, <2>2 DEF QueueInv, KeysMatch, KeyOf
  <1>6. Counted'
    <2>1. attempts[n] = 0
      BY <1>1, <1>3 DEF QueueInv, Counted
    <2>2. \A t \in TaskIds : t # n => task'[t] = task[t] /\ (Awaiting(t)' => Awaiting(t))
      BY <1>1, <1>2 DEF Awaiting
    <2>3. \A t \in TaskIds : t >= fresh' => t # n /\ t >= fresh
      BY <1>1, <1>3
    <2>4. QED
      BY <1>1, <1>2, <1>3, <2>1, <2>2, <2>3, QueueAssumption DEF QueueInv, Counted
  <1>7. EmergencyPending'
    <2> SUFFICES ASSUME NEW t \in TaskIds, Live(t)',
                        task'[t].req.action = "emergency_market_close"
                 PROVE  pending'[EmergencyKey(task'[t].req.position)] = t
      BY DEF EmergencyPending, EmergencyKey
    <2>1. CASE t = n
      <3>1. k = EmergencyKey(r.position)
        BY <1>2, <2>1 DEF Key, EmergencyKey, KeyedActions
      <3>2. QED
        BY <1>2, <2>1, <3>1
    <2>2. CASE t # n
      <3>1. Live(t) /\ task'[t] = task[t] /\ task[t].req.position \in Positions
        BY <1>1, <1>2, <2>2 DEF Live, TypeOK, Task, Request
      <3>2. pending[EmergencyKey(task[t].req.position)] = t /\ t # NoTask
        BY <3>1, QueueAssumption DEF QueueInv, EmergencyPending, TaskIds
      <3>3. EmergencyKey(task[t].req.position) \in Keys \ {k}
        BY <3>1, <3>2, EmergencyKeyFacts
      <3>4. QED
        BY <1>2, <3>1, <3>2, <3>3
    <2>3. QED
      BY <2>1, <2>2
  <1>8. EmergencyLive'
    BY <1>1, <1>2, EmergencyKeyFacts DEF QueueInv, EmergencyLive, Live, EmergencyKey
  <1>9. EscalationNotLost'
    BY <1>1, <1>2, <1>3 DEF QueueInv, EscalationNotLost, Awaiting, TypeOK
  <1>10. QED
    BY <1>4, <1>5, <1>6, <1>7, <1>8, <1>9 DEF QueueInv

LEMMA SubmitInv ==
    ASSUME TypeOK, Busy, QueueInv, NEW r \in Requests, Submit(r)
    PROVE  QueueInv'
  <1>0. /\ r \in Request /\ Key(r) \in Keys /\ Key(r)[1] = r.position /\ Key(r)[2] = r.action
        /\ r.action \notin KeyedActions => Key(r)[3] = NoTarget
    BY QueueAssumption, KeyFacts
  <1>r. UNCHANGED <<tombstones, pc, cur, curKey, attempts, owed>>
    BY DEF Submit, worker, history
  <1>1. ASSUME NEW k \in Quickfire(r), CoalesceQuickfire(r, k) PROVE QueueInv'
    <2> DEFINE e == pending[k]
    <2>1. /\ k \in Keys /\ e \in TaskIds /\ e < fresh /\ KeyOf(k, e) /\ e # NoTask
          /\ task[e].req.position = r.position /\ task[e].req.action = r.action
          /\ r.action = "replace_sl"
      BY <1>1 DEF Quickfire, TypeOK, QueueInv, Identities, KeysMatch
    <2>2. /\ UNCHANGED <<fresh, queue>>
          /\ \A t \in TaskIds : /\ task'[t].req.position = task[t].req.position
                                /\ task'[t].req.action = task[t].req.action
                                /\ task'[t].retry_count = task[t].retry_count
      BY <1>0, <1>1, <2>1, CoalesceInv DEF CoalesceQuickfire
    <2>3. pending' = [pending EXCEPT ![k] = NoTask, ![Key(r)] = e]
      BY <1>1 DEF CoalesceQuickfire
    <2>4. /\ pending'[Key(r)] = e
          /\ \A j \in Keys : j # Key(r) => pending'[j] = pending[j] \/ (j = k /\ pending'[j] = NoTask)
      BY <1>0, <2>1, <2>3 DEF TypeOK
    <2>5. KeyOf(Key(r), e)
      BY <1>0, <2>1 DEF KeyOf
    <2>6. \A j \in Keys : pending'[j] # NoTask =>
             pending'[j] \in TaskIds /\ pending'[j] < fresh /\ KeyOf(j, pending'[j])
      BY <2>1, <2>4, <2>5 DEF TypeOK, QueueInv, Identities, KeysMatch
    <2>7. \A p \in Positions : pending'[EmergencyKey(p)] = pending[EmergencyKey(p)]
      <3> SUFFICES ASSUME NEW p \in Positions
                   PROVE  pending'[EmergencyKey(p)] = pending[EmergencyKey(p)]
        OBVIOUS
      <3>1. k[2] = "replace_sl" /\ Key(r)[2] = "replace_sl"
        BY <1>0, <2>1 DEF KeyOf
      <3>2. EmergencyKey(p) \in Keys /\ EmergencyKey(p) # k /\ EmergencyKey(p) # Key(r)
        BY <3>1, EmergencyKeyFacts
      <3>3. QED
        BY <2>4, <3>2
    <2>8. QED
      BY <1>r, <2>2, <2>6, <2>7, CoalescedInv
  <1>2. CASE pending[Key(r)] # NoTask /\ CoalesceSameKey(r)
    <2> DEFINE e == pending[Key(r)]
    <2>1. e \in TaskIds /\ task[e].req.position = r.position /\ task[e].req.action = r.action
      BY <1>0, <1>2 DEF TypeOK, QueueInv, KeysMatch, KeyOf
    <2>2. /\ UNCHANGED <<fresh, queue, pending>>
          /\ \A t \in TaskIds : /\ task'[t].req.position = task[t].req.position
                                /\ task'[t].req.action = task[t].req.action
                                /\ task'[t].retry_count = task[t].retry_count
      BY <1>0, <1>2, <2>1, CoalesceInv DEF CoalesceSameKey
    <2>3. \A j \in Keys : pending'[j] # NoTask =>
             pending'[j] \in TaskIds /\ pending'[j] < fresh /\ KeyOf(j, pending'[j])
      BY <2>2 DEF TypeOK, QueueInv, Identities, KeysMatch
    <2>4. QED
      BY <1>r, <2>2, <2>3, CoalescedInv
  <1>3. CASE pending[Key(r)] = NoTask /\ Insert(r)
    BY <1>0, <1>3, InsertInv DEF Submit
  <1>4. QED
    BY <1>1, <1>2, <1>3 DEF Submit, Enqueue

LEMMA PopInv ==
    ASSUME TypeOK, Busy, QueueInv, NEW t \in TaskIds, Pop(t)
    PROVE  QueueInv'
  <1>0. t \in queue /\ task[t].req \in Request
    BY DEF Pop, Poppable, TypeOK, Task
  <1>1. Identities'
    BY <1>0 DEF Pop, QueueInv, Identities
  <1>2. KeysMatch'
    BY <1>0, KeyFacts DEF Pop, QueueInv, KeysMatch, KeyOf
  <1>3. Counted'
    BY <1>0 DEF Pop, QueueInv, Counted, Awaiting, history
  <1>4. EmergencyPending'
    BY <1>0 DEF Pop, QueueInv, EmergencyPending, Live, EmergencyKey
  <1>5. EmergencyLive'
    BY <1>0 DEF Pop, QueueInv, EmergencyLive, Live, EmergencyKey
  <1>6. EscalationNotLost'
    BY <1>0 DEF Pop, QueueInv, EscalationNotLost, Awaiting, history
  <1>7. QED
    BY <1>1, <1>2, <1>3, <1>4, <1>5, <1>6 DEF QueueInv

LEMMA CleanupInv ==
    ASSUME TypeOK, Busy, QueueInv, NEW p \in Positions, CleanupStep(p)
    PROVE  QueueInv'
  <1>1. CASE PurgePending(p)
    <2>0. /\ UNCHANGED <<task, fresh, queue, pc, cur, curKey, attempts, owed>>
          /\ tombstones' = tombstones \cup PurgeKeys(p)
          /\ \A k \in Keys : pending'[k] = IF k \in PurgeKeys(p) THEN NoTask ELSE pending[k]
      BY <1>1 DEF PurgePending, worker, history
    <2>k. \A k \in PurgeKeys(p) : k \in Keys /\ k[2] \in PurgedActions
      BY DEF PurgeKeys, QueueInv, KeysMatch, KeyOf
    <2>e. \A q \in Positions : pending'[EmergencyKey(q)] = pending[EmergencyKey(q)]
      BY <2>0, <2>k, EmergencyKeyFacts DEF PurgedActions
    <2>1. Identities'
      BY <2>0 DEF QueueInv, Identities
    <2>2. KeysMatch'
      BY <2>0, <2>k DEF QueueInv, KeysMatch, KeyOf
    <2>3. Counted'
      BY <2>0 DEF QueueInv, Counted, Awaiting
    <2>4. EmergencyPending'
      <3>1. \A t \in TaskIds : task[t].req.position \in Positions
        BY DEF TypeOK, Task, Request
      <3>2. QED
        BY <2>0, <2>e, <3>1 DEF QueueInv, EmergencyPending, Live, EmergencyKey
    <2>5. EmergencyLive'
      BY <2>0, <2>e DEF QueueInv, EmergencyLive, Live, EmergencyKey
    <2>6. EscalationNotLost'
      BY <2>0 DEF QueueInv, EscalationNotLost, Awaiting
    <2>7. QED
      BY <2>1, <2>2, <2>3, <2>4, <2>5, <2>6 DEF QueueInv
  <1>2. CASE AwaitQuiescent(p) \/ QuiesceDone(p) \/ QuiesceTimeout(p)
    <2>1. UNCHANGED <<task, fresh, queue, pending, tombstones, pc, cur, curKey, attempts, owed>>
      BY <1>2 DEF AwaitQuiescent, QuiesceDone, QuiesceTimeout, worker, history
    <2>2. QED
      BY <2>1, SameInv
  <1>3. QED
    BY <1>1, <1>2 DEF CleanupStep

LEMMA InvStep ==
    ASSUME TypeOK, Busy, QueueInv, [Next]_vars
    PROVE  QueueInv'
  <1>1. CASE Stop \/ Tick \/ UNCHANGED vars
    <2>1. UNCHANGED <<task, fresh, queue, pending, tombstones, pc, cur, curKey, attempts, owed>>
      BY <1>1 DEF Stop, Tick, vars, worker, history
    <2>2. QED
      BY <2>1, SameInv
  <1>2. QED
    BY <1>1, SubmitInv, PopInv, WorkerInv, CleanupInv DEF Next

LEMMA Invariance == Spec => [](TypeOK /\ QueueInv)
  <1>1. Init => TypeOK /\ Busy /\ QueueInv
    BY InitType, InitInv DEF Init, Busy
  <1>2. TypeOK /\ Busy /\ QueueInv /\ [Next]_vars => (TypeOK /\ Busy /\ QueueInv)'
    BY TypeStep, InvStep
  <1>3. QED
    BY <1>1, <1>2, PTL DEF Spec

\* The worker's retry branch: however a task is merged into, put back or
\* retried, it is executed at most max_retries + 1 times.
THEOREM RetriesBounded == Spec => []RetryBound
  <1>1. QueueInv => RetryBound
    BY DEF QueueInv, Counted, RetryBound
  <1>2. QED
    BY <1>1, Invariance, PTL

\* No position is flattened twice at once: two live emergency closes of one
\* position would both be its pending entry.
THEOREM NoDoubleClose == Spec => []OneEmergencyClose
  <1>1. QueueInv => OneEmergencyClose
    BY DEF QueueInv, EmergencyPending, OneEmergencyClose
  <1>2. QED
    BY <1>1, Invariance, PTL

\* The emergency close owed to a position whose stop loss failed for good
\* stays queued or in hand until it is executed.
THEOREM EscalationKept == Spec => []EscalationNotLost
  <1>1. QueueInv => EscalationNotLost
    BY DEF QueueInv
  <1>2. QED
    BY <1>1, Invariance, PTL
-----------------------------------------------------------------------------
(* Exact deduplication. *)

\* A merge keeps the key of a task whose key the request has.
LEMMA MergedKey ==
    ASSUME NEW old \in Task, NEW r \in Request, clock \in Nat, Key(old.req) = Key(r)
    PROVE  /\ Key(Merged(old, r).req) = Key(r)
           /\ Merged(old, r).req.multiTp = r.multiTp
  <1>1. CASE IsSl(r)
    BY <1>1 DEF Merged, Key, Task, Request
  <1>2. CASE ~IsSl(r)
    BY <1>2 DEF Merged, Key, Task, Request
  <1> QED BY <1>1, <1>2

\* Live, after the step.
LiveNext(t) == t \in queue' \/ (pc' # "idle" /\ cur' = t)

Unpurged == \A p \in Positions : cleanup[p] = "none"

\* Nobody moves an SL on behalf of a take profit.
NoMultiTp == \A t \in TaskIds : ~task[t].req.multiTp

\* The pending map names precisely the live tasks, under their keys.
Exact ==
    /\ \A k \in Keys : pending[k] # NoTask =>
          Live(pending[k]) /\ Key(task[pending[k]].req) = k
    /\ \A t \in TaskIds : Live(t) => pending[Key(task[t].req)] = t

\* The key the worker computed is still its task's: that it clears is its own.
OwnKey == pc # "idle" => curKey = Key(task[cur].req)

ExactInv == NoMultiTp /\ (Unpurged => tombstones = {} /\ Exact /\ OwnKey)

\* Steps that keep the pending map, the tasks' keys and which of them are live.
LEMMA KeepsExact ==
    ASSUME TypeOK, QueueInv, ExactInv, pending' = pending,
           \A t \in TaskIds : /\ Key(task'[t].req) = Key(task[t].req)
                              /\ task'[t].req.multiTp = task[t].req.multiTp
                              /\ LiveNext(t) <=> Live(t),
           Unpurged' => Unpurged, tombstones' = tombstones,
           \/ pc' = "idle"
           \/ pc # "idle" /\ pc' # "idle" /\ UNCHANGED <<cur, curKey>>
    PROVE  ExactInv'
  <1>1. NoMultiTp'
    BY DEF ExactInv, NoMultiTp
  <1>2. ASSUME Unpurged' PROVE (tombstones = {} /\ Exact /\ OwnKey)'
    <2>1. tombstones = {} /\ Exact /\ OwnKey
      BY <1>2 DEF ExactInv
    <2>2. ASSUME NEW k \in Keys, pending'[k] # NoTask
          PROVE  pending'[k] \in TaskIds /\ LiveNext(pending'[k]) /\ Key(task'[pending'[k]].req) = k
      <3>1. pending[k] \in TaskIds /\ pending[k] # NoTask
        BY <2>2 DEF TypeOK
      <3> QED BY <2>1, <3>1 DEF Exact
    <2>3. \A t \in TaskIds : LiveNext(t) => pending'[Key(task'[t].req)] = t
      BY <2>1 DEF Exact
    <2>4. Exact'
      BY <2>2, <2>3 DEF Exact, Live, LiveNext
    <2>5. OwnKey'
      BY <2>1 DEF OwnKey, QueueInv, Identities
    <2> QED BY <2>1, <2>4, <2>5
  <1> QED BY <1>1, <1>2 DEF ExactInv

\* A new task under a key that was free.
LEMMA InsertExact ==
    ASSUME TypeOK, Busy, QueueInv, ExactInv, NEW r \in Request, ~r.multiTp,
           Insert(r), pending[Key(r)] = NoTask,
           UNCHANGED <<tombstones, pc, cur, curKey, cleanup>>
    PROVE  ExactInv'
  <1> DEFINE n == fresh
             k == Key(r)
  <1>1. /\ n \in TaskIds /\ queue' = queue \cup {n} /\ k \in Keys
        /\ task' = [task EXCEPT ![n] = [req |-> r, created_at |-> clock, retry_count |-> 0]]
        /\ pending' = [pending EXCEPT ![k] = n]
    BY KeyFacts DEF Insert
  <1>2. /\ task'[n].req = r
        /\ \A t \in TaskIds : t # n => task'[t] = task[t]
        /\ pending'[k] = n
        /\ \A j \in Keys : j # k => pending'[j] = pending[j]
    BY <1>1 DEF TypeOK
  <1>3. /\ n \in Nat /\ n # NoTask /\ TaskIds \subseteq Nat /\ n \notin queue
        /\ \A j \in Keys : pending[j] # NoTask => pending[j] \in TaskIds /\ pending[j] # n
        /\ pc # "idle" => cur \in TaskIds /\ cur # n
    BY <1>1, QueueAssumption DEF TypeOK, TaskIds, QueueInv, Identities
  <1>4. \A t \in TaskIds : /\ Key(task[t].req) \in Keys
                           /\ LiveNext(t) <=> t = n \/ Live(t)
    BY <1>1, KeyFacts DEF Live, LiveNext, TypeOK, Task
  <1> HIDE DEF n, k
  <1>5. NoMultiTp'
    BY <1>2 DEF ExactInv, NoMultiTp
  <1>6. ASSUME Unpurged' PROVE (tombstones = {} /\ Exact /\ OwnKey)'
    <2>1. tombstones = {} /\ Exact /\ OwnKey
      BY <1>6 DEF ExactInv, Unpurged
    <2>2. ASSUME NEW j \in Keys, pending'[j] # NoTask
          PROVE  LiveNext(pending'[j]) /\ Key(task'[pending'[j]].req) = j
      <3>1. CASE j = k
        BY <1>1, <1>2, <1>4, <3>1 DEF k
      <3>2. CASE j # k
        <4>1. pending'[j] = pending[j] /\ pending[j] \in TaskIds /\ pending[j] # n
              /\ pending[j] # NoTask
          BY <1>2, <1>3, <2>2, <3>2
        <4> QED BY <1>2, <1>4, <2>1, <4>1 DEF Exact
      <3> QED BY <3>1, <3>2
    <2>3. ASSUME NEW t \in TaskIds, LiveNext(t) PROVE pending'[Key(task'[t].req)] = t
      <3>1. CASE t = n
        BY <1>2, <3>1 DEF k
      <3>2. CASE t # n
        <4>1. task'[t] = task[t] /\ pending[Key(task[t].req)] = t /\ t # NoTask
          BY <1>2, <1>4, <2>1, <2>3, <3>2, QueueAssumption DEF Exact, TaskIds
        <4>2. pending[k] = NoTask
          BY DEF k
        <4> QED BY <1>2, <1>4, <4>1, <4>2
      <3> QED BY <3>1, <3>2
    <2>4. Exact'
      BY <2>2, <2>3 DEF Exact, Live, LiveNext
    <2>5. OwnKey'
      BY <1>2, <1>3, <2>1 DEF OwnKey
    <2> QED BY <2>1, <2>4, <2>5
  <1> QED BY <1>5, <1>6 DEF ExactInv

LEMMA SubmitExact ==
    ASSUME TypeOK, Busy, QueueInv, ExactInv, NEW r \in Requests, ~r.multiTp, Submit(r)
    PROVE  ExactInv'
  <1>0. r \in Request /\ Key(r) \in Keys /\ clock \in Nat
    BY QueueAssumption, KeyFacts DEF TypeOK
  <1>1. UNCHANGED <<tombstones, pc, cur, curKey, cleanup>>
    BY DEF Submit, worker
  <1>2. Quickfire(r) = {}
    BY DEF Quickfire
  <1>3. CASE pending[Key(r)] # NoTask /\ CoalesceSameKey(r)
    <2> DEFINE e == pending[Key(r)]
    <2>1. e \in TaskIds /\ task[e] \in Task
      BY <1>0, <1>3 DEF TypeOK
    <2>2. task' = [task EXCEPT ![e] = Merged(task[e], r)] /\ UNCHANGED <<queue, pending>>
      BY <1>3 DEF CoalesceSameKey, CoalesceInto
    <2>3. \A t \in TaskIds : t # e => task'[t] = task[t]
      BY <2>1, <2>2 DEF TypeOK
    <2>4. task'[e] = Merged(task[e], r)
      BY <2>1, <2>2 DEF TypeOK
    <2>5. CASE Unpurged
      <3>1. Key(task[e].req) = Key(r)
        BY <1>0, <1>3, <2>5 DEF ExactInv, Exact
      <3>2. Key(task'[e].req) = Key(task[e].req) /\ ~task'[e].req.multiTp
        BY <1>0, <2>1, <2>4, <3>1, MergedKey
      <3>3. \A t \in TaskIds : /\ Key(task'[t].req) = Key(task[t].req)
                               /\ ~task'[t].req.multiTp
                               /\ LiveNext(t) <=> Live(t)
        BY <1>1, <2>2, <2>3, <3>2 DEF Live, LiveNext, ExactInv, NoMultiTp
      <3>4. NoMultiTp' /\ tombstones' = {}
        BY <1>1, <2>5, <3>3 DEF NoMultiTp, ExactInv
      <3>5. Exact'
        <4>1. ASSUME NEW k \in Keys, pending'[k] # NoTask
              PROVE  LiveNext(pending'[k]) /\ Key(task'[pending'[k]].req) = k
          <5>1. pending[k] \in TaskIds /\ pending[k] # NoTask
            BY <2>2, <4>1 DEF TypeOK
          <5>2. Live(pending[k]) /\ Key(task[pending[k]].req) = k
            BY <2>5, <5>1 DEF ExactInv, Exact
          <5> QED BY <2>2, <3>3, <5>1, <5>2
        <4>2. \A t \in TaskIds : LiveNext(t) => pending'[Key(task'[t].req)] = t
          BY <2>2, <2>5, <3>3 DEF ExactInv, Exact
        <4> QED BY <4>1, <4>2 DEF Exact, Live, LiveNext
      <3>6. OwnKey'
        BY <1>1, <2>5, <3>3 DEF ExactInv, OwnKey, Busy
      <3> QED BY <3>4, <3>5, <3>6 DEF ExactInv
    <2>6. CASE ~Unpurged
      <3>1. ~task'[e].req.multiTp
        BY <1>0, <2>1, <2>4 DEF Merged, Task, Request
      <3>2. NoMultiTp' /\ ~Unpurged'
        BY <1>1, <2>3, <2>6, <3>1 DEF NoMultiTp, ExactInv, Unpurged
      <3> QED BY <3>2 DEF ExactInv
    <2> QED BY <2>5, <2>6
  <1>4. CASE pending[Key(r)] = NoTask /\ Insert(r)
    BY <1>0, <1>1, <1>4, InsertExact
  <1> QED BY <1>2, <1>3, <1>4 DEF Submit, Enqueue

\* The finally clause: the pending entry of the task in hand is cleared, and the
\* worker lets go of it.
LEMMA ClearExact ==
    ASSUME TypeOK, Busy, QueueInv, ExactInv, pc # "idle",
           pending' = [pending EXCEPT ![curKey] = NoTask], NextIteration,
           UNCHANGED <<task, queue, tombstones, cleanup>>
    PROVE  ExactInv'
  <1>1. NoMultiTp' /\ OwnKey'
    BY DEF ExactInv, NoMultiTp, OwnKey, NextIteration
  <1>2. ASSUME Unpurged' PROVE (tombstones = {} /\ Exact)'
    <2>1. tombstones = {} /\ Exact /\ OwnKey
      BY <1>2 DEF ExactInv, Unpurged
    <2>2. /\ cur \in TaskIds /\ cur \notin queue /\ curKey \in Keys
          /\ pending[curKey] = cur /\ Live(cur)
      BY <2>1 DEF Exact, OwnKey, Busy, QueueInv, Identities, TypeOK, Live, LiveNext
    <2>3. \A k \in Keys : pending'[k] = IF k = curKey THEN NoTask ELSE pending[k]
      BY <2>2 DEF TypeOK
    <2>4. \A t \in TaskIds : LiveNext(t) <=> (Live(t) /\ t # cur)
      BY <2>2 DEF Live, LiveNext, NextIteration
    <2>5. ASSUME NEW k \in Keys, pending'[k] # NoTask
          PROVE  LiveNext(pending'[k]) /\ Key(task'[pending'[k]].req) = k
      <3>1. k # curKey /\ pending'[k] = pending[k] /\ pending[k] \in TaskIds
        BY <2>3, <2>5 DEF TypeOK
      <3>2. Live(pending[k]) /\ Key(task[pending[k]].req) = k
        BY <2>1, <2>5, <3>1 DEF Exact
      <3>3. pending[k] # cur
        BY <2>1, <2>2, <3>1, <3>2 DEF OwnKey
      <3> QED BY <2>4, <3>1, <3>2, <3>3
    <2>6. ASSUME NEW t \in TaskIds, LiveNext(t) PROVE pending'[Key(task'[t].req)] = t
      <3>1. Live(t) /\ t # cur /\ Key(task[t].req) \in Keys
        BY <2>4, <2>6, KeyFacts DEF TypeOK, Task
      <3>2. pending[Key(task[t].req)] = t
        BY <2>1, <3>1 DEF Exact
      <3> QED BY <2>2, <2>3, <3>1, <3>2
    <2> QED BY <2>1, <2>5, <2>6 DEF Exact, Live, LiveNext
  <1> QED BY <1>1, <1>2 DEF ExactInv

\* The escalation merges into a live emergency close or inserts a new one; it
\* is the finally clause on top of an enqueue of another key.
LEMMA SettleEscalateExact ==
    ASSUME TypeOK, Busy, QueueInv, ExactInv, SettleEscalate
    PROVE  ExactInv'
  <1> DEFINE e == EmergencyOf(task[cur].req)
             k == Key(e)
  <1>0. /\ cur \in TaskIds /\ pc # "idle" /\ curKey \in Keys /\ clock \in Nat
        /\ task[cur].req.action \in SlActions /\ task[cur].req \in Request
        /\ KeyOf(curKey, cur)
    BY QueueAssumption DEF SettleEscalate, Busy, Escalates, IsSl, TypeOK, Task, QueueInv, KeysMatch
  <1>1. /\ e \in Request /\ k \in Keys /\ k # curKey /\ ~e.multiTp
        /\ k[2] = "emergency_market_close" /\ e.action = "emergency_market_close"
    <2>1. e \in Request /\ ~e.multiTp /\ e.action = "emergency_market_close"
      BY <1>0, EmergencyFacts DEF EmergencyOf
    <2>2. k \in Keys /\ k[2] = "emergency_market_close"
      BY <2>1, KeyFacts
    <2> QED BY <1>0, <2>1, <2>2 DEF KeyOf, SlActions
  <1>2. NextIteration /\ UNCHANGED <<tombstones, cleanup>>
    BY DEF SettleEscalate
  <1>c. Unpurged => /\ tombstones = {} /\ Exact /\ OwnKey
                    /\ pending[curKey] = cur /\ cur \notin queue
    BY <1>0 DEF ExactInv, Exact, OwnKey, QueueInv, Identities, Live, LiveNext
  <1>3. CASE pending[k] # NoTask
    <2> DEFINE d == pending[k]
    <2>1. /\ d \in TaskIds /\ task[d] \in Task
      BY <1>1, <1>3 DEF TypeOK
    <2>2. /\ task' = [task EXCEPT ![d] = Merged(task[d], e)]
          /\ pending' = [pending EXCEPT ![curKey] = NoTask] /\ UNCHANGED queue
      BY <1>3 DEF SettleEscalate
    <2>3. /\ \A t \in TaskIds : t # d => task'[t] = task[t]
          /\ task'[d] = Merged(task[d], e)
          /\ \A j \in Keys : pending'[j] = IF j = curKey THEN NoTask ELSE pending[j]
      BY <1>0, <2>1, <2>2 DEF TypeOK
    <2> HIDE DEF d, k, e
    <2>4. ~task'[d].req.multiTp
      BY <1>0, <1>1, <2>1, <2>3 DEF Merged, Task, Request
    <2>5. NoMultiTp' /\ OwnKey'
      BY <1>2, <2>3, <2>4 DEF NoMultiTp, ExactInv, OwnKey, NextIteration
    <2>6. ASSUME Unpurged' PROVE (tombstones = {} /\ Exact)'
      <3>1. /\ tombstones = {} /\ Exact /\ OwnKey /\ Unpurged
            /\ pending[curKey] = cur /\ cur \notin queue
        BY <1>2, <1>c, <2>6 DEF Unpurged
      <3>2. Key(task[d].req) = k
        BY <1>1, <1>3, <3>1 DEF Exact, d
      <3>3. Key(task'[d].req) = k
        BY <1>0, <1>1, <2>1, <2>3, <3>2, MergedKey DEF k
      <3>4. \A t \in TaskIds : /\ Key(task'[t].req) = Key(task[t].req)
                               /\ Key(task[t].req) \in Keys
                               /\ LiveNext(t) <=> (Live(t) /\ t # cur)
        BY <1>0, <1>2, <2>2, <2>3, <3>1, <3>2, <3>3, KeyFacts
        DEF Live, LiveNext, NextIteration, TypeOK, Task
      <3>5. ASSUME NEW j \in Keys, pending'[j] # NoTask
            PROVE  LiveNext(pending'[j]) /\ Key(task'[pending'[j]].req) = j
        <4>1. j # curKey /\ pending'[j] = pending[j] /\ pending[j] \in TaskIds
          BY <2>3, <3>5 DEF TypeOK
        <4>2. Live(pending[j]) /\ Key(task[pending[j]].req) = j
          BY <3>1, <3>5, <4>1 DEF Exact
        <4>3. pending[j] # cur
          BY <1>0, <3>1, <4>1, <4>2 DEF OwnKey
        <4> QED BY <3>4, <4>1, <4>2, <4>3
      <3>6. ASSUME NEW t \in TaskIds, LiveNext(t) PROVE pending'[Key(task'[t].req)] = t
        <4>1. Live(t) /\ t # cur /\ pending[Key(task[t].req)] = t
          BY <3>1, <3>4, <3>6 DEF Exact
        <4> QED BY <2>3, <3>1, <3>4, <4>1
      <3> QED BY <1>2, <3>1, <3>5, <3>6 DEF Exact, Live, LiveNext
    <2> QED BY <2>5, <2>6 DEF ExactInv
  <1>4. CASE pending[k] = NoTask
    <2> DEFINE n == fresh
    <2>1. /\ n \in TaskIds
          /\ task' = [task EXCEPT ![n] = [req |-> e, created_at |-> clock, retry_count |-> 0]]
          /\ queue' = queue \cup {n}
          /\ pending' = [pending EXCEPT ![k] = n, ![curKey] = NoTask]
      BY <1>4 DEF SettleEscalate
    <2>2. /\ task'[n].req = e
          /\ \A t \in TaskIds : t # n => task'[t] = task[t]
          /\ pending'[k] = n /\ pending'[curKey] = NoTask
          /\ \A j \in Keys : j # k /\ j # curKey => pending'[j] = pending[j]
      BY <1>0, <1>1, <2>1 DEF TypeOK
    <2>3. /\ n # NoTask /\ n \notin queue /\ cur # n
          /\ \A j \in Keys : pending[j] # NoTask => pending[j] \in TaskIds /\ pending[j] # n
      BY <1>0, <2>1, QueueAssumption DEF TypeOK, TaskIds, QueueInv, Identities
    <2>k. k = Key(e)
      OBVIOUS
    <2> HIDE DEF n, k, e
    <2>4. NoMultiTp' /\ OwnKey'
      BY <1>1, <1>2, <2>2 DEF NoMultiTp, ExactInv, OwnKey, NextIteration
    <2>5. ASSUME Unpurged' PROVE (tombstones = {} /\ Exact)'
      <3>1. /\ tombstones = {} /\ Exact /\ OwnKey
            /\ pending[curKey] = cur /\ cur \notin queue
        BY <1>2, <1>c, <2>5 DEF Unpurged
      <3>2. \A t \in TaskIds : /\ Key(task[t].req) \in Keys
                               /\ LiveNext(t) <=> (t = n \/ (Live(t) /\ t # cur))
        BY <1>0, <1>2, <2>1, <2>3, <3>1, KeyFacts DEF Live, LiveNext, NextIteration, TypeOK, Task
      <3>3. ASSUME NEW j \in Keys, pending'[j] # NoTask
            PROVE  LiveNext(pending'[j]) /\ Key(task'[pending'[j]].req) = j
        <4>1. CASE j = k
          BY <2>1, <2>2, <2>k, <3>2, <4>1
        <4>2. CASE j # k
          <5>1. j # curKey /\ pending'[j] = pending[j] /\ pending[j] # NoTask
            BY <2>2, <3>3, <4>2
          <5>2. pending[j] \in TaskIds /\ pending[j] # n /\ Live(pending[j])
                /\ Key(task[pending[j]].req) = j
            BY <2>3, <3>1, <5>1 DEF Exact
          <5>3. pending[j] # cur
            BY <1>0, <3>1, <5>1, <5>2 DEF OwnKey
          <5> QED BY <2>2, <3>2, <5>1, <5>2, <5>3
        <4> QED BY <4>1, <4>2
      <3>4. ASSUME NEW t \in TaskIds, LiveNext(t) PROVE pending'[Key(task'[t].req)] = t
        <4>1. CASE t = n
          BY <2>2, <2>k, <4>1
        <4>2. CASE t # n
          <5>1. /\ Live(t) /\ t # cur /\ pending[Key(task[t].req)] = t /\ task'[t] = task[t]
                /\ t # NoTask
            BY <2>2, <3>1, <3>2, <3>4, <4>2, QueueAssumption DEF Exact, TaskIds
          <5> QED BY <1>4, <2>2, <3>1, <3>2, <5>1
        <4> QED BY <4>1, <4>2
      <3> QED BY <1>2, <3>1, <3>3, <3>4 DEF Exact, Live, LiveNext
    <2> QED BY <2>4, <2>5 DEF ExactInv
  <1> QED BY <1>3, <1>4

LEMMA WorkerExact ==
    ASSUME TypeOK, Busy, QueueInv, ExactInv, WorkerStep
    PROVE  ExactInv'
  <1>1. CASE DropTombstoned
    <2>1. ~Unpurged' /\ NoMultiTp'
      BY <1>1 DEF DropTombstoned, ExactInv, Unpurged, NoMultiTp
    <2> QED BY <2>1 DEF ExactInv
  <1>2. CASE KeepPopped \/ StartExecution \/ \E o \in {"exhausted", "would_trigger", "flat", "fatal", "callback"} : FinishFailed(o)
    <2>1. /\ UNCHANGED <<task, queue, pending, tombstones, cur, curKey, cleanup>>
          /\ pc # "idle" /\ pc' # "idle"
      BY <1>2 DEF KeepPopped, StartExecution, FinishFailed
    <2> QED BY <2>1, KeepsExact DEF Live, LiveNext, Unpurged
  <1>3. CASE PutBack \/ Requeue
    <2>1. /\ UNCHANGED <<task, pending, tombstones, cleanup>> /\ pc # "idle" /\ pc' = "idle"
          /\ queue' = queue \cup {cur}
      BY <1>3 DEF PutBack, Requeue, NextIteration
    <2> QED BY <2>1, KeepsExact DEF Live, LiveNext, Unpurged
  <1>4. CASE FinishOk
    BY <1>4, ClearExact DEF FinishOk
  <1>5. CASE SettleDrop
    BY <1>5, ClearExact DEF SettleDrop
  <1>6. CASE FinishTransient
    <2>1. /\ UNCHANGED <<queue, pending, tombstones, cur, curKey, cleanup>>
          /\ pc # "idle" /\ pc' # "idle" /\ cur \in TaskIds
          /\ task' = [task EXCEPT ![cur].retry_count = @ + 1]
      BY <1>6 DEF FinishTransient, Busy
    <2>2. \A t \in TaskIds : task'[t].req = task[t].req
      BY <2>1 DEF TypeOK, Task
    <2> QED BY <2>1, <2>2, KeepsExact DEF Live, LiveNext, Unpurged
  <1>7. CASE SettleEscalate
    BY <1>7, SettleEscalateExact
  <1> QED BY <1>1, <1>2, <1>3, <1>4, <1>5, <1>6, <1>7 DEF WorkerStep

LEMMA PopExact ==
    ASSUME TypeOK, QueueInv, ExactInv, NEW t \in TaskIds, Pop(t)
    PROVE  ExactInv'
  <1>1. /\ t \in queue /\ pc = "idle" /\ pc' # "idle" /\ queue' = queue \ {t} /\ cur' = t
        /\ curKey' = Key(task[t].req) /\ UNCHANGED <<task, pending, tombstones, cleanup>>
    BY DEF Pop, Poppable
  <1>2. \A u \in TaskIds : LiveNext(u) <=> Live(u)
    BY <1>1 DEF Live, LiveNext
  <1>3. NoMultiTp' /\ OwnKey'
    BY <1>1 DEF ExactInv, NoMultiTp, OwnKey
  <1>4. ASSUME Unpurged' PROVE (tombstones = {} /\ Exact)'
    <2>1. tombstones = {} /\ Exact
      BY <1>1, <1>4 DEF ExactInv, Unpurged
    <2>2. ASSUME NEW k \in Keys, pending'[k] # NoTask
          PROVE  LiveNext(pending'[k]) /\ Key(task'[pending'[k]].req) = k
      <3>1. pending[k] \in TaskIds /\ pending[k] # NoTask
        BY <1>1, <2>2 DEF TypeOK
      <3> QED BY <1>1, <1>2, <2>1, <3>1 DEF Exact
    <2>3. \A u \in TaskIds : LiveNext(u) => pending'[Key(task'[u].req)] = u
      BY <1>1, <1>2, <2>1 DEF Exact
    <2> QED BY <1>1, <2>1, <2>2, <2>3 DEF Exact, Live, LiveNext
  <1> QED BY <1>3, <1>4 DEF ExactInv

LEMMA ExactStep ==
    ASSUME \A r \in Requests : ~r.multiTp,
           TypeOK, Busy, QueueInv, ExactInv, [Next]_vars
    PROVE  ExactInv'
  <1>1. CASE Stop \/ Tick \/ UNCHANGED vars
    <2>1. UNCHANGED <<task, queue, pending, tombstones, pc, cur, curKey, cleanup>>
      BY <1>1 DEF Stop, Tick, vars, worker
    <2> QED BY <2>1, KeepsExact DEF Live, LiveNext, Unpurged
  <1>2. ASSUME NEW p \in Positions, CleanupStep(p) PROVE ExactInv'
    <2>1. cleanup' # cleanup /\ UNCHANGED task /\ cleanup'[p] # "none"
      BY <1>2 DEF CleanupStep, PurgePending, AwaitQuiescent, QuiesceDone, QuiesceTimeout, TypeOK
    <2> QED BY <2>1 DEF ExactInv, NoMultiTp, Unpurged
  <1> QED BY <1>1, <1>2, SubmitExact, PopExact, WorkerExact DEF Next

\* enqueue against the finally clause of the worker loop: where nobody moves an
\* SL on behalf of a take profit (a merge into a task under another key changes
\* the key of a task the worker may hold), the pending map names precisely the
\* live tasks until the first cleanup: no request is merged into a task that is
\* gone, and no key is queued twice.
THEOREM DeduplicationExact ==
    ASSUME \A r \in Requests : ~r.multiTp
    PROVE  Spec => []PendingTracksLive
  <1>1. Init => TypeOK /\ Busy /\ QueueInv /\ ExactInv
    <2>1. Init => ExactInv
      BY DEF Init, ExactInv, NoMultiTp, Unpurged, Exact, OwnKey, Live, LiveNext, Blank
    <2> QED BY <2>1, InitType, InitInv DEF Init, Busy
  <1>2. TypeOK /\ Busy /\ QueueInv /\ ExactInv /\ [Next]_vars
          => (TypeOK /\ Busy /\ QueueInv /\ ExactInv)'
    BY TypeStep, InvStep, ExactStep
  <1>3. ExactInv => PendingTracksLive
    BY DEF ExactInv, Unpurged, Exact, PendingTracksLive
  <1>4. QED
    BY <1>1, <1>2, <1>3, PTL DEF Spec
-----------------------------------------------------------------------------
(* The heap: the positions above one. *)

HasMinimal(T) == \E U \in T : \A V \in T : V \subseteq U => V = U

\* Induction over the subsets of a finite set: a collection of them has a least one.
LEMMA MinimalSubset ==
    ASSUME NEW S, NEW T, IsFiniteSet(S), T \subseteq SUBSET S, T # {}
    PROVE  HasMinimal(T)
  <1>1. IsWellFoundedOn(StrictSubsetOrdering(S), SUBSET S)
    BY FS_StrictSubsetOrderingWellFounded, FS_FiniteSubsetsOfFinite
  <1>2. \E U \in T : \A V \in T : ~(<<V, U>> \in StrictSubsetOrdering(S))
    BY <1>1, WFMin
  <1>3. \A U, V \in SUBSET S : V \subseteq U /\ V # U => <<V, U>> \in StrictSubsetOrdering(S)
    BY DEF StrictSubsetOrdering
  <1> QED BY <1>2, <1>3 DEF HasMinimal

\* A bounded set of numbers has a least one: a subset without would shrink for ever.
LEMMA LeastIs ==
    ASSUME NEW n \in Nat, NEW S \in SUBSET (1 .. n), S # {}
    PROVE  Min(S) \in S /\ \A y \in S : Min(S) <= y
  <1>0. IsFiniteSet(S)
    <2>1. IsFiniteSet(1 .. n) /\ S \subseteq 1 .. n
      BY FS_Interval
    <2> QED BY <2>1, FS_Subset
  <1> DEFINE Low(U) == \E x \in U : \A y \in U : x <= y
             T == {U \in SUBSET S : U # {} /\ ~Low(U)}
  <1>1. CASE T # {}
    <2>1. T \subseteq SUBSET S
      OBVIOUS
    <2>2. PICK U \in T : \A V \in T : V \subseteq U => V = U
      <3> HIDE DEF T
      <3>1. HasMinimal(T)
        BY <1>0, <1>1, <2>1, MinimalSubset
      <3> QED BY <3>1 DEF HasMinimal
    <2>3. PICK x \in U : x \in Int
      <3>1. U # {} /\ U \subseteq Int
        BY <2>2
      <3> QED BY <3>1
    <2>4. CASE U \ {x} = {}
      <3>1. \A y \in U : x <= y
        BY <2>3, <2>4
      <3> QED BY <2>2, <2>3, <3>1
    <2>5. CASE U \ {x} # {}
      <3>1. U \ {x} \notin T
        BY <2>2, <2>3
      <3>2. Low(U \ {x})
        BY <2>2, <2>5, <3>1
      <3>3. PICK m \in U \ {x} : \A y \in U \ {x} : m <= y
        BY <3>2
      <3>4. U \subseteq Int
        BY <2>2
      <3>5. CASE m <= x
        <4>1. \A y \in U : m <= y
          BY <3>3, <3>4, <3>5
        <4> QED BY <2>2, <3>3, <4>1
      <3>6. CASE ~(m <= x)
        <4>1. \A y \in U : x <= y
          BY <2>3, <3>3, <3>4, <3>6
        <4> QED BY <2>2, <2>3, <4>1
      <3> QED BY <3>5, <3>6
    <2> QED BY <2>4, <2>5
  <1>2. CASE T = {}
    <2>1. Low(S)
      BY <1>2
    <2>2. \E x \in S : \A y \in S : x <= y
      BY <2>1
    <2> QED BY <2>2 DEF Min
  <1> QED BY <1>1, <1>2

\* And a greatest one, by reflection.
LEMMA GreatestIs ==
    ASSUME NEW n \in Nat, NEW S \in SUBSET (1 .. n), S # {}
    PROVE  Max(S) \in S /\ \A y \in S : y <= Max(S)
  <1> DEFINE R == {n + 1 - x : x \in S}
  <1>1. R \in SUBSET (1 .. n) /\ R # {}
    <2>1. \A x \in S : n + 1 - x \in 1 .. n
      OBVIOUS
    <2> QED BY <2>1
  <1>2. PICK r \in R : \A y \in R : r <= y
    <2> HIDE DEF R
    <2> QED BY <1>1, LeastIs
  <1>3. PICK x \in S : r = n + 1 - x
    BY <1>2
  <1>4. \A y \in S : x >= y
    <2> TAKE y \in S
    <2>1. n + 1 - y \in R
      OBVIOUS
    <2>2. n + 1 - x <= n + 1 - y
      BY <1>2, <1>3, <2>1
    <2>3. x \in Int /\ y \in Int
      OBVIOUS
    <2> HIDE DEF R
    <2> QED BY <2>2, <2>3
  <1>5. \E z \in S : \A y \in S : z >= y
    BY <1>4
  <1>6. Max(S) \in S /\ \A y \in S : Max(S) >= y
    BY <1>5 DEF Max
  <1> QED BY <1>6

LEMMA LineageType ==
    ASSUME NEW n \in Nat
    PROVE  Lineage(n) \in SUBSET (1 .. n)
  BY DEF Lineage

\* The position itself, and with a position its parent.
LEMMA LineageAscends ==
    ASSUME NEW n \in Nat \ {0}
    PROVE  Ascending(Lineage(n), n)
  <1>1. n \in Lineage(n)
    BY DEF Lineage, Ascending
  <1>2. ASSUME NEW a \in Lineage(n), a > 1 PROVE a \div 2 \in Lineage(n)
    <2>1. a \in 1 .. n /\ a \div 2 \in 1 .. n
      BY <1>2 DEF Lineage
    <2>2. ASSUME NEW A \in SUBSET (1 .. n), Ascending(A, n) PROVE a \div 2 \in A
      <3>1. a \in A
        BY <2>2 DEF Lineage
      <3> QED BY <3>1, <2>2, <1>2 DEF Ascending
    <2> QED BY <2>1, <2>2 DEF Lineage
  <1> QED BY <1>1, <1>2 DEF Ascending

LEMMA LineageLeast ==
    ASSUME NEW n \in Nat, NEW A \in SUBSET (1 .. n), Ascending(A, n)
    PROVE  Lineage(n) \subseteq A
  BY DEF Lineage

\* Every position of a line but its start has a child on it.
LEMMA ChildOnLine ==
    ASSUME NEW n \in Nat \ {0}, NEW i \in Lineage(n), i # n
    PROVE  \E j \in Lineage(n) : j > 1 /\ j \div 2 = i
  <1> SUFFICES ASSUME \A j \in Lineage(n) : j > 1 => j \div 2 # i PROVE FALSE
    OBVIOUS
  <1>1. Lineage(n) \ {i} \in SUBSET (1 .. n)
    BY LineageType
  <1>2. Ascending(Lineage(n) \ {i}, n)
    BY LineageAscends DEF Ascending
  <1> QED BY <1>1, <1>2, LineageLeast

\* A line below a position starts at or below its children: nothing of a line
\* lies between a position and its parent.
SplitsAt(n, h) == \A a \in Lineage(n) : a > h => a \div 2 >= h

LEMMA SplitAt ==
    ASSUME NEW n \in Nat \ {0}, NEW h \in Lineage(n), SplitsAt(n, h),
           NEW j \in Lineage(n), j < h
    PROVE  j <= h \div 2
  <1> DEFINE A == {x \in Lineage(n) : x >= h \/ x <= h \div 2}
  <1>1. h \in 1 .. n /\ Lineage(n) \in SUBSET (1 .. n) /\ n \in Lineage(n)
    BY LineageType, LineageAscends DEF Ascending
  <1>2. ASSUME NEW a \in A, a > 1 PROVE a \div 2 \in A
    <2>0. a \in Lineage(n) /\ a \in 1 .. n
      BY <1>1
    <2>1. a \div 2 \in Lineage(n)
      BY <1>2, <2>0, LineageAscends DEF Ascending
    <2>2. CASE a > h
      BY <2>0, <2>1, <2>2 DEF SplitsAt
    <2> QED BY <1>1, <2>0, <2>1, <2>2
  <1>3. A \in SUBSET (1 .. n) /\ Ascending(A, n)
    BY <1>1, <1>2 DEF Ascending
  <1>4. j \in A
    <2> HIDE DEF A
    <2> QED BY <1>3, LineageLeast
  <1> QED BY <1>4, <1>1

LEMMA NoneBetween ==
    ASSUME NEW n \in Nat \ {0}, NEW h \in Lineage(n)
    PROVE  /\ \A a \in Lineage(n) : a > h => a \div 2 >= h
           /\ \A j \in Lineage(n) : j < h => j <= h \div 2
  <1> DEFINE A == {x \in Lineage(n) : SplitsAt(n, x)}
  <1>1. Lineage(n) \in SUBSET (1 .. n) /\ n \in Lineage(n)
    BY LineageType, LineageAscends DEF Ascending
  <1>2. n \in A
    BY <1>1 DEF SplitsAt
  <1>3. ASSUME NEW a \in A, a > 1 PROVE a \div 2 \in A
    <2>1. a \in Lineage(n) /\ a \in 1 .. n /\ a \div 2 \in Lineage(n)
      BY <1>1, <1>3, LineageAscends DEF Ascending
    <2>2. ASSUME NEW j \in Lineage(n), j > a \div 2 PROVE j \div 2 >= a \div 2
      <3>1. j >= a
        BY <1>1, <2>1, <2>2, SplitAt
      <3> QED BY <1>1, <2>1, <3>1
    <2> QED BY <2>1, <2>2 DEF SplitsAt
  <1>4. h \in A
    <2>1. A \in SUBSET (1 .. n) /\ Ascending(A, n)
      BY <1>1, <1>2, <1>3 DEF Ascending
    <2> HIDE DEF A
    <2> QED BY <2>1, LineageLeast
  <1> QED BY <1>4, SplitAt DEF SplitsAt

\* The root is on every line, and the line of a position on a line is part of it.
LEMMA RootOnLine ==
    ASSUME NEW n \in Nat \ {0}
    PROVE  1 \in Lineage(n)
  <1>1. Lineage(n) \in SUBSET (1 .. n) /\ n \in Lineage(n)
    BY LineageType, LineageAscends DEF Ascending
  <1>2. PICK m \in Lineage(n) : \A y \in Lineage(n) : m <= y
    BY <1>1, LeastIs
  <1>3. CASE m > 1
    <2>1. m \div 2 \in Lineage(n) /\ m \in 1 .. n
      BY <1>1, <1>3, LineageAscends DEF Ascending
    <2> QED BY <1>2, <1>3, <2>1
  <1> QED BY <1>1, <1>2, <1>3

LEMMA LineInLine ==
    ASSUME NEW n \in Nat \ {0}, NEW i \in Lineage(n)
    PROVE  Lineage(i) \subseteq Lineage(n)
  <1> DEFINE A == {x \in Lineage(n) : x <= i}
  <1>1. i \in 1 .. n /\ i \in Nat \ {0} /\ Lineage(n) \in SUBSET (1 .. n)
    BY LineageType
  <1>2. A \in SUBSET (1 .. i)
    BY <1>1
  <1>3. \A a \in A : a > 1 => a \div 2 \in A
    BY <1>1, LineageAscends DEF Ascending
  <1>4. Ascending(A, i)
    BY <1>1, <1>3 DEF Ascending
  <1>5. Lineage(i) \subseteq A
    <2> HIDE DEF A
    <2> QED BY <1>1, <1>2, <1>4, LineageLeast
  <1> QED BY <1>5

LEMMA LineOfChild ==
    ASSUME NEW n \in Nat \ {0}, n > 1
    PROVE  Lineage(n) \subseteq {n} \cup Lineage(n \div 2)
  <1> DEFINE A == {n} \cup Lineage(n \div 2)
  <1>0. n \div 2 \in Nat \ {0} /\ n \div 2 <= n
    OBVIOUS
  <1>1. Lineage(n \div 2) \in SUBSET (1 .. (n \div 2)) /\ Ascending(Lineage(n \div 2), n \div 2)
    BY <1>0, LineageType, LineageAscends
  <1>2. A \in SUBSET (1 .. n)
    BY <1>0, <1>1
  <1>3. Ascending(A, n)
    BY <1>1 DEF Ascending
  <1> QED BY <1>2, <1>3, LineageLeast
-----------------------------------------------------------------------------
(* The heap: an element settles on its line. *)

\* What SortKeys gives: every element has a key of two numbers.
Ranked(f, E) == \A t \in E : f[t][1] \in Int /\ f[t][2] \in Int

\* The order of the keys is a strict weak order.
LEMMA LtFacts ==
    ASSUME NEW E, NEW f, Ranked(f, E), NEW a \in E, NEW b \in E, NEW c \in E
    PROVE  /\ Lt(f, a, b) => ~Lt(f, b, a)
           /\ ~Lt(f, a, b) /\ ~Lt(f, b, c) => ~Lt(f, a, c)
           /\ Lt(f, a, b) /\ ~Lt(f, c, b) => ~Lt(f, c, a)
  <1>1. /\ f[a][1] \in Int /\ f[a][2] \in Int
        /\ f[b][1] \in Int /\ f[b][2] \in Int
        /\ f[c][1] \in Int /\ f[c][2] \in Int
    BY DEF Ranked
  <1> QED BY <1>1 DEF Lt

\* No child is less than its parent; and the same with one child excepted.
Ordered(m, n, f) == \A i \in 2 .. n : ~Lt(f, m[i], m[i \div 2])
OrderedBut(m, n, k, f) == \A i \in (2 .. n) \ {k} : ~Lt(f, m[i], m[i \div 2])

\* _siftdown's result with the element at k settled at d.
Settled(m, k, d) ==
    [i \in DOMAIN m |-> IF i = d THEN m[k]
                        ELSE IF i \in Lineage(k) /\ i > d THEN m[i \div 2]
                        ELSE m[i]]

\* d is where the element at k settles: it is less than all it passed, and not
\* less than the parent of d.
SettlesAt(m, k, f, d) ==
    /\ d \in Lineage(k)
    /\ \A b \in Lineage(k) \ {k} : b >= d => Lt(f, m[k], m[b])
    /\ d > 1 => ~Lt(f, m[k], m[d \div 2])

LEMMA SiftSettles ==
    ASSUME NEW m, NEW k \in Nat \ {0}, NEW f
    PROVE  \E d \in Lineage(k) : /\ SettlesAt(m, k, f, d)
                                 /\ SiftTowardsRoot(m, k, f) = Settled(m, k, d)
  <1> DEFINE D == {a \in Lineage(k) : \A b \in Lineage(k) \ {k} : b >= a => Lt(f, m[k], m[b])}
             d == Min(D)
  <1>1. Lineage(k) \in SUBSET (1 .. k) /\ k \in Lineage(k)
    BY LineageType, LineageAscends DEF Ascending
  <1>2. k \in D
    BY <1>1
  <1>3. d \in D /\ \A y \in D : d <= y
    <2>1. D \in SUBSET (1 .. k) /\ D # {}
      BY <1>1, <1>2
    <2> HIDE DEF D
    <2> QED BY <2>1, LeastIs
  <1>4. d \in Lineage(k) /\ d \in 1 .. k
    BY <1>1, <1>3
  <1>5. ASSUME d > 1 PROVE ~Lt(f, m[k], m[d \div 2])
    <2>1. d \div 2 \in Lineage(k) /\ d \div 2 < d
      BY <1>4, <1>5, LineageAscends DEF Ascending
    <2>2. d \div 2 \notin D
      <3> HIDE DEF D, d
      <3> QED BY <1>3, <1>4, <2>1
    <2>3. PICK b \in Lineage(k) \ {k} : b >= d \div 2 /\ ~Lt(f, m[k], m[b])
      BY <2>1, <2>2
    <2>4. b < d
      BY <1>3, <1>4, <1>1, <2>3
    <2>5. b <= d \div 2
      BY <1>4, <2>3, <2>4, NoneBetween
    <2>6. b = d \div 2
      <3>1. b \in Int /\ d \div 2 \in Int
        BY <1>1, <1>4, <2>3
      <3> HIDE DEF d
      <3> QED BY <2>3, <2>5, <3>1
    <2> QED BY <2>3, <2>6
  <1>6. SettlesAt(m, k, f, d)
    BY <1>3, <1>5 DEF SettlesAt
  <1>7. SiftTowardsRoot(m, k, f) = Settled(m, k, d)
    BY DEF SiftTowardsRoot, Settled
  <1> HIDE DEF d
  <1> QED BY <1>4, <1>6, <1>7

\* An element without children that settles makes an ordered array of one in
\* which only it was out of order.
LEMMA SettledOrdered ==
    ASSUME NEW E, NEW f, Ranked(f, E), NEW n \in Nat, NEW k \in 1 .. n, 2 * k > n,
           NEW m \in [1 .. n -> E], OrderedBut(m, n, k, f),
           NEW d \in Lineage(k), SettlesAt(m, k, f, d)
    PROVE  Ordered(Settled(m, k, d), n, f)
  <1> SUFFICES ASSUME NEW i \in 2 .. n
               PROVE  ~Lt(f, Settled(m, k, d)[i], Settled(m, k, d)[i \div 2])
    BY DEF Ordered
  <1> DEFINE s == Settled(m, k, d)
             p == i \div 2
  <1>1. /\ Lineage(k) \in SUBSET (1 .. k) /\ k \in Lineage(k)
        /\ \A a \in Lineage(k) : a > 1 => a \div 2 \in Lineage(k)
    BY LineageType, LineageAscends DEF Ascending
  <1>2. p \in 1 .. n /\ p < i /\ p # k /\ d \in 1 .. k /\ p \div 2 <= p
    BY <1>1
  <1>3. \A j \in 1 .. n : s[j] = IF j = d THEN m[k]
                                 ELSE IF j \in Lineage(k) /\ j > d THEN m[j \div 2]
                                 ELSE m[j]
    BY DEF Settled
  <1>4. m[i] \in E /\ m[p] \in E /\ m[k] \in E /\ m[d] \in E
    BY <1>1, <1>2
  <1>5. i # k => ~Lt(f, m[i], m[p])
    BY DEF OrderedBut
  <1>6. p > 1 => ~Lt(f, m[p], m[p \div 2]) /\ m[p \div 2] \in E
    BY <1>2 DEF OrderedBut
  <1>7. \A a \in Lineage(k) : a < i /\ i \in Lineage(k) => a <= p
    BY NoneBetween
  <1>8. CASE i \in Lineage(k) /\ i > d
    <2>0. s[i] = m[p] /\ d <= p /\ p \in Lineage(k)
      BY <1>1, <1>2, <1>3, <1>7, <1>8, SMTT(30)
    <2>1. CASE p = d
      <3>1. s[p] = m[k]
        BY <1>2, <1>3, <2>1
      <3>2. Lt(f, m[k], m[p])
        BY <1>2, <2>0, <2>1 DEF SettlesAt
      <3> QED BY <2>0, <3>1, <3>2, <1>4, LtFacts
    <2>2. CASE p # d
      <3>1. p > d /\ p > 1
        BY <1>2, <2>0, <2>2
      <3>2. s[p] = m[p \div 2]
        BY <1>2, <1>3, <2>0, <3>1
      <3> QED BY <2>0, <3>1, <3>2, <1>6
    <2> QED BY <2>1, <2>2
  <1>9. CASE i = d
    <2>1. s[i] = m[k] /\ s[p] = m[p]
      BY <1>2, <1>3, <1>9
    <2>2. ~Lt(f, m[k], m[p])
      BY <1>9 DEF SettlesAt
    <2> QED BY <2>1, <2>2
  <1>10. CASE i \in Lineage(k) /\ i < d
    <2>1. s[i] = m[i] /\ s[p] = m[p] /\ i # k
      BY <1>2, <1>3, <1>10
    <2> QED BY <2>1, <1>5
  <1>11. CASE i \notin Lineage(k)
    <2>0. s[i] = m[i] /\ i # k
      BY <1>1, <1>3, <1>11
    <2>1. CASE p = d
      <3>1. s[p] = m[k] /\ Lt(f, m[k], m[p])
        BY <1>2, <1>3, <2>1 DEF SettlesAt
      <3> QED BY <2>0, <3>1, <1>4, <1>5, LtFacts
    <2>2. CASE p \in Lineage(k) /\ p > d
      <3>1. s[p] = m[p \div 2] /\ p > 1
        BY <1>2, <1>3, <2>2
      <3> QED BY <2>0, <3>1, <1>4, <1>5, <1>6, LtFacts
    <2>3. CASE p # d /\ ~(p \in Lineage(k) /\ p > d)
      <3>1. s[p] = m[p]
        BY <1>2, <1>3, <2>3
      <3> QED BY <2>0, <3>1, <1>5
    <2> QED BY <2>1, <2>2, <2>3
  <1> QED BY <1>1, <1>2, <1>8, <1>9, <1>10, <1>11

\* Settling an element rearranges the array.
LEMMA SettledElements ==
    ASSUME NEW n \in Nat, NEW k \in 1 .. n, NEW m, DOMAIN m = 1 .. n, NEW d \in Lineage(k)
    PROVE  ToSet(Settled(m, k, d)) = ToSet(m)
  <1> DEFINE s == Settled(m, k, d)
  <1>1. /\ Lineage(k) \in SUBSET (1 .. k) /\ k \in Lineage(k)
        /\ \A a \in Lineage(k) : a > 1 => a \div 2 \in Lineage(k)
    BY LineageType, LineageAscends DEF Ascending
  <1>2. DOMAIN s = 1 .. n /\ d \in 1 .. k
    BY <1>1 DEF Settled
  <1>3. \A j \in 1 .. n : s[j] = IF j = d THEN m[k]
                                 ELSE IF j \in Lineage(k) /\ j > d THEN m[j \div 2]
                                 ELSE m[j]
    BY DEF Settled
  <1> HIDE DEF s
  <1>4. ASSUME NEW j \in 1 .. n PROVE \E i \in 1 .. n : s[j] = m[i]
    <2>1. k \in 1 .. n /\ (j > d => j \div 2 \in 1 .. n)
      BY <1>2
    <2> QED BY <1>3, <2>1
  <1>5. ASSUME NEW j \in 1 .. n PROVE \E i \in 1 .. n : m[j] = s[i]
    <2>1. CASE j = k
      BY <1>2, <1>3, <2>1
    <2>2. CASE j \in Lineage(k) /\ j # k /\ j >= d
      <3>1. PICK c \in Lineage(k) : c > 1 /\ c \div 2 = j
        BY <2>2, ChildOnLine
      <3>2. c \in 1 .. n /\ c > d
        BY <1>1, <1>2, <2>2, <3>1
      <3>3. s[c] = m[j]
        BY <1>2, <1>3, <3>1, <3>2
      <3> QED BY <3>2, <3>3
    <2>3. CASE j # k /\ ~(j \in Lineage(k) /\ j >= d)
      <3>1. j # d /\ ~(j \in Lineage(k) /\ j > d)
        BY <1>2, <2>3
      <3>2. s[j] = m[j]
        BY <1>3, <3>1
      <3> QED BY <3>2
    <2> QED BY <2>1, <2>2, <2>3
  <1>6. ToSet(s) \subseteq ToSet(m)
    BY <1>2, <1>4, ZenonT(60) DEF ToSet
  <1>7. ToSet(m) \subseteq ToSet(s)
    BY <1>2, <1>5, ZenonT(60) DEF ToSet
  <1> QED BY <1>6, <1>7 DEF s

LEMMA SettledType ==
    ASSUME NEW E, NEW n \in Nat, NEW k \in 1 .. n, NEW m \in [1 .. n -> E],
           NEW d \in Lineage(k)
    PROVE  Settled(m, k, d) \in [1 .. n -> E]
  <1>1. Lineage(k) \in SUBSET (1 .. k)
    BY LineageType
  <1>2. \A j \in 1 .. n : j > d => j \div 2 \in 1 .. n
    BY <1>1
  <1> QED BY <1>1, <1>2 DEF Settled
-----------------------------------------------------------------------------
(* The heap: heappush, heappop and the root. *)

LEMMA ArrayIsSeq ==
    ASSUME NEW E, NEW n \in Nat, NEW a \in [1 .. n -> E]
    PROVE  a \in Seq(E) /\ Len(a) = n
  OBVIOUS

LEMMA PushHeap ==
    ASSUME NEW E, NEW f, NEW h \in Seq(E), NEW x \in E
    PROVE  /\ HeapPush(h, x, f) \in Seq(E)
           /\ Len(HeapPush(h, x, f)) = Len(h) + 1
           /\ ToSet(HeapPush(h, x, f)) = ToSet(h) \cup {x}
           /\ Ranked(f, E) /\ Ordered(h, Len(h), f)
                => Ordered(HeapPush(h, x, f), Len(h) + 1, f)
  <1>1. PICK n \in Nat : n = Len(h) /\ DOMAIN h = 1 .. n
    OBVIOUS
  <1>2. PICK m : m = Append(h, x)
    OBVIOUS
  <1>3. /\ m \in [1 .. n + 1 -> E] /\ m[n + 1] = x
        /\ \A i \in 1 .. n : m[i] = h[i]
    <2>1. m \in Seq(E) /\ Len(m) = n + 1
      BY <1>1, <1>2
    <2>2. m[n + 1] = x /\ \A i \in 1 .. n : m[i] = h[i]
      BY <1>1, <1>2
    <2>3. m \in [1 .. Len(m) -> E]
      BY <2>1
    <2> QED BY <2>1, <2>2, <2>3
  <1>4. PICK d \in Lineage(n + 1) : /\ SettlesAt(m, n + 1, f, d)
                                    /\ SiftTowardsRoot(m, n + 1, f) = Settled(m, n + 1, d)
    BY SiftSettles, SMTT(30)
  <1>5. HeapPush(h, x, f) = Settled(m, n + 1, d)
    BY <1>1, <1>2, <1>4 DEF HeapPush
  <1>6. n + 1 \in 1 .. n + 1 /\ n + 1 \in Nat /\ 2 * (n + 1) > n + 1
    OBVIOUS
  <1>7. /\ Settled(m, n + 1, d) \in [1 .. n + 1 -> E]
        /\ ToSet(Settled(m, n + 1, d)) = ToSet(m)
    <2>1. DOMAIN m = 1 .. n + 1
      BY <1>3
    <2>2. Settled(m, n + 1, d) \in [1 .. n + 1 -> E]
      BY <1>3, <1>6, SettledType
    <2>3. ToSet(Settled(m, n + 1, d)) = ToSet(m)
      BY <1>6, <2>1, SettledElements
    <2> QED BY <2>2, <2>3
  <1>8. ToSet(m) = ToSet(h) \cup {x}
    <2>1. DOMAIN m = 1 .. n + 1
      BY <1>3
    <2>2. ToSet(m) \subseteq ToSet(h) \cup {x}
      BY <2>1, <1>1, <1>3 DEF ToSet
    <2>3. ToSet(h) \cup {x} \subseteq ToSet(m)
      BY <2>1, <1>1, <1>3, <1>6 DEF ToSet
    <2> QED BY <2>2, <2>3
  <1>9. ASSUME Ranked(f, E), Ordered(h, Len(h), f)
        PROVE  Ordered(HeapPush(h, x, f), Len(h) + 1, f)
    <2>1. OrderedBut(m, n + 1, n + 1, f)
      <3> SUFFICES ASSUME NEW i \in (2 .. n + 1) \ {n + 1}
                   PROVE  ~Lt(f, m[i], m[i \div 2])
        BY DEF OrderedBut
      <3>1. i \in 2 .. n /\ i \div 2 \in 1 .. n /\ i \in 1 .. n
        OBVIOUS
      <3> QED BY <3>1, <1>1, <1>3, <1>9 DEF Ordered
    <2>2. Ordered(Settled(m, n + 1, d), n + 1, f)
      BY <2>1, <1>3, <1>4, <1>6, <1>9, SettledOrdered
    <2> QED BY <2>2, <1>1, <1>5
  <1>10. HeapPush(h, x, f) \in Seq(E) /\ Len(HeapPush(h, x, f)) = n + 1
    BY <1>5, <1>6, <1>7, ArrayIsSeq
  <1> QED BY <1>1, <1>5, <1>7, <1>8, <1>9, <1>10

\* The root of an ordered array is not greater than any element: the first
\* position with a lesser one would have a parent not less than the root.
LEMMA RootIsLeast ==
    ASSUME NEW E, NEW f, Ranked(f, E), NEW n \in Nat, NEW h \in [1 .. n -> E],
           Ordered(h, n, f), NEW j \in 1 .. n
    PROVE  ~Lt(f, h[j], h[1])
  <1> SUFFICES ASSUME Lt(f, h[j], h[1]) PROVE FALSE
    OBVIOUS
  <1> DEFINE V == {i \in 1 .. n : Lt(f, h[i], h[1])}
  <1>1. PICK v \in V : \A y \in V : v <= y
    <2>1. V \in SUBSET (1 .. n) /\ V # {}
      OBVIOUS
    <2> HIDE DEF V
    <2> QED BY <2>1, LeastIs
  <1>2. v \in 1 .. n /\ Lt(f, h[v], h[1]) /\ 1 \in 1 .. n /\ h[v] \in E /\ h[1] \in E
    OBVIOUS
  <1>3. v # 1
    BY <1>2, LtFacts
  <1>4. v \div 2 \in 1 .. n /\ v \div 2 < v /\ v \in 2 .. n
    BY <1>2, <1>3
  <1>5. ~Lt(f, h[v \div 2], h[1])
    BY <1>1, <1>2, <1>4
  <1>6. ~Lt(f, h[v], h[v \div 2]) /\ h[v \div 2] \in E
    BY <1>4 DEF Ordered
  <1> QED BY <1>2, <1>5, <1>6, LtFacts
-----------------------------------------------------------------------------

\* The array a pop starts from: the last element at the root.
Replaced(h) == [i \in 1 .. Len(h) - 1 |-> IF i = 1 THEN h[Len(h)] ELSE h[i]]

\* Where the smaller children lead.
SmallLine(g, f) == {i \in DOMAIN g : \A a \in Lineage(i) \ {1} : SmallerChild(g, a, f)}

\* The smaller children have moved up along the line to k.
MovedUp(g, k, f) ==
    [i \in DOMAIN g |-> IF i = k THEN g[1]
                        ELSE IF i \in SmallLine(g, f)
                             THEN g[CHOOSE j \in SmallLine(g, f) : j > 1 /\ j \div 2 = i]
                             ELSE g[i]]

LEMMA PopIs ==
    ASSUME NEW h, NEW f, Len(h) # 1
    PROVE  HeapPop(h, f) = LET k == Max(SmallLine(Replaced(h), f))
                           IN  SiftTowardsRoot(MovedUp(Replaced(h), k, f), k, f)
  BY DEF HeapPop, Replaced, SmallLine, MovedUp

\* One of two siblings is the smaller child.
LEMMA OneSmaller ==
    ASSUME NEW n \in Nat, NEW g, DOMAIN g = 1 .. n, NEW f,
           NEW i \in 2 .. n, NEW j \in 2 .. n, i \div 2 = j \div 2, i # j
    PROVE  SmallerChild(g, i, f) <=> ~SmallerChild(g, j, f)
  <1>1. (i % 2 = 0 /\ j = i + 1 /\ j % 2 # 0) \/ (j % 2 = 0 /\ i = j + 1 /\ i % 2 # 0)
    OBVIOUS
  <1>2. ASSUME NEW a \in 2 .. n, a % 2 = 0, a + 1 \in 2 .. n, (a + 1) % 2 # 0
        PROVE  SmallerChild(g, a, f) <=> ~SmallerChild(g, a + 1, f)
    <2>1. SmallerChild(g, a, f) <=> Lt(f, g[a], g[a + 1])
      BY <1>2 DEF SmallerChild
    <2>2. SmallerChild(g, a + 1, f) <=> ~Lt(f, g[a + 1 - 1], g[a + 1])
      BY <1>2 DEF SmallerChild
    <2>3. a + 1 - 1 = a
      OBVIOUS
    <2> QED BY <2>1, <2>2, <2>3
  <1> QED BY <1>1, <1>2

\* The smaller child is not greater than its sibling.
LEMMA SmallerIsLess ==
    ASSUME NEW E, NEW f, Ranked(f, E), NEW n \in Nat, NEW g \in [1 .. n -> E],
           NEW c \in 2 .. n, NEW i \in 2 .. n, c \div 2 = i \div 2, SmallerChild(g, c, f)
    PROVE  ~Lt(f, g[i], g[c])
  <1>1. g[c] \in E /\ g[i] \in E /\ DOMAIN g = 1 .. n
    OBVIOUS
  <1>2. CASE i = c
    BY <1>1, <1>2, LtFacts
  <1>3. CASE c % 2 = 0 /\ i = c + 1
    BY <1>1, <1>3, LtFacts DEF SmallerChild
  <1>4. CASE c % 2 # 0 /\ i = c - 1
    BY <1>1, <1>4 DEF SmallerChild
  <1> QED BY <1>2, <1>3, <1>4

\* The line of smaller children is the whole line from the root to a leaf: a
\* position off it would have a parent on it whose smaller child is another.
LEMMA SmallLineIs ==
    ASSUME NEW n \in Nat \ {0}, NEW g, DOMAIN g = 1 .. n, NEW f
    PROVE  LET k == Max(SmallLine(g, f))
           IN  /\ k \in 1 .. n /\ 2 * k > n
               /\ SmallLine(g, f) = Lineage(k)
               /\ \A i \in Lineage(k) : i > 1 => SmallerChild(g, i, f)
  <1> DEFINE P == SmallLine(g, f)
             k == Max(P)
  <1>0. \A i \in 1 .. n : i \in P <=> \A a \in Lineage(i) \ {1} : SmallerChild(g, a, f)
    BY DEF SmallLine
  <1>1. P \in SUBSET (1 .. n)
    BY DEF SmallLine
  <1>2. \A i \in P : Lineage(i) \subseteq P
    <2> SUFFICES ASSUME NEW i \in P, NEW a \in Lineage(i) PROVE a \in P
      OBVIOUS
    <2>1. i \in 1 .. n /\ i \in Nat \ {0} /\ a \in 1 .. n
      BY <1>1, LineageType
    <2>2. Lineage(a) \subseteq Lineage(i)
      BY <2>1, LineInLine
    <2> HIDE DEF P
    <2> QED BY <1>0, <2>1, <2>2
  <1>3. \A i \in P : i > 1 => SmallerChild(g, i, f)
    <2> SUFFICES ASSUME NEW i \in P, i > 1 PROVE SmallerChild(g, i, f)
      OBVIOUS
    <2>1. i \in 1 .. n /\ i \in Nat \ {0}
      BY <1>1
    <2>2. i \in Lineage(i)
      BY <2>1, LineageAscends DEF Ascending
    <2> HIDE DEF P
    <2> QED BY <1>0, <2>1, <2>2
  <1>4. 1 \in P
    <2>1. Lineage(1) \subseteq {1} /\ 1 \in 1 .. n
      BY LineageType
    <2> HIDE DEF P
    <2> QED BY <1>0, <2>1
  <1>5. k \in P /\ \A y \in P : y <= k
    <2> HIDE DEF P
    <2> QED BY <1>1, <1>4, GreatestIs
  <1>6. k \in 1 .. n /\ k \in Nat \ {0}
    BY <1>1, <1>5
  <1>7. \A i \in P, j \in P : i > 1 /\ j > 1 /\ i \div 2 = j \div 2 => i = j
    <2> SUFFICES ASSUME NEW i \in P, NEW j \in P, i > 1, j > 1, i \div 2 = j \div 2, i # j
                 PROVE  FALSE
      OBVIOUS
    <2>1. i \in 2 .. n /\ j \in 2 .. n
      BY <1>1
    <2>2. SmallerChild(g, i, f) /\ SmallerChild(g, j, f)
      BY <1>3
    <2> QED BY <2>1, <2>2, OneSmaller
  <1>8. \A p \in P, c \in 2 .. n : c \div 2 = p /\ SmallerChild(g, c, f) => c \in P
    <2> SUFFICES ASSUME NEW p \in P, NEW c \in 2 .. n, c \div 2 = p, SmallerChild(g, c, f)
                 PROVE  c \in P
      OBVIOUS
    <2>1. c \in 1 .. n /\ c \in Nat \ {0} /\ c > 1 /\ p \in 1 .. n
      BY <1>1
    <2>2. Lineage(c) \subseteq {c} \cup Lineage(p)
      BY <2>1, LineOfChild
    <2> HIDE DEF P
    <2> QED BY <1>0, <2>1, <2>2
  <1>9. 2 * k > n
    <2> SUFFICES ASSUME 2 * k <= n PROVE FALSE
      BY <1>6
    <2>1. PICK c \in 2 .. n : c \div 2 = k /\ SmallerChild(g, c, f)
      <3>1. 2 * k \in 2 .. n /\ (2 * k) \div 2 = k /\ (2 * k) % 2 = 0
        BY <1>6
      <3>2. CASE SmallerChild(g, 2 * k, f)
        BY <3>1, <3>2
      <3>3. CASE ~SmallerChild(g, 2 * k, f)
        <4>1. 2 * k + 1 \in 2 .. n
          BY <3>1, <3>3, <1>6 DEF SmallerChild
        <4>2. (2 * k + 1) \div 2 = k /\ 2 * k + 1 # 2 * k
          BY <1>6
        <4>3. SmallerChild(g, 2 * k + 1, f)
          BY <3>1, <3>3, <4>1, <4>2, OneSmaller
        <4> QED BY <4>1, <4>2, <4>3
      <3> QED BY <3>2, <3>3
    <2>2. c \in P /\ c > k
      BY <1>5, <1>6, <1>8, <2>1
    <2> HIDE DEF P
    <2> QED BY <1>5, <1>6, <2>1, <2>2
  <1>10. P \subseteq Lineage(k)
    <2> SUFFICES ASSUME P \ Lineage(k) # {} PROVE FALSE
      OBVIOUS
    <2>1. PICK x \in P \ Lineage(k) : \A y \in P \ Lineage(k) : x <= y
      <3>1. P \ Lineage(k) \in SUBSET (1 .. n)
        BY <1>1
      <3> HIDE DEF P
      <3> QED BY <3>1, LeastIs
    <2>2. x \in 1 .. n /\ x # 1
      BY <1>1, <1>6, <2>1, RootOnLine
    <2>3. PICK p \in P : p = x \div 2
      <3>1. x \in Nat \ {0} /\ x > 1
        BY <2>2
      <3>2. x \div 2 \in Lineage(x)
        BY <3>1, LineageAscends DEF Ascending
      <3> HIDE DEF P
      <3> QED BY <3>2, <2>1, <1>2
    <2>4. p \in Lineage(k)
      <3>1. p < x
        BY <2>2, <2>3
      <3> HIDE DEF P
      <3> QED BY <2>1, <2>2, <2>3, <3>1
    <2>5. p # k
      <3>1. x \div 2 # k
        BY <1>6, <1>9, <2>2
      <3> QED BY <2>3, <3>1
    <2>6. PICK c \in Lineage(k) : c > 1 /\ c \div 2 = p
      BY <1>6, <2>4, <2>5, ChildOnLine
    <2>7. c \in P
      BY <1>2, <1>5, <2>6
    <2>8. c = x
      <3>1. x > 1
        BY <2>2
      <3> HIDE DEF P
      <3> QED BY <1>7, <2>1, <2>3, <2>6, <2>7, <3>1
    <2> QED BY <2>1, <2>6, <2>8
  <1>11. P = Lineage(k)
    BY <1>2, <1>5, <1>10
  <1> HIDE DEF k
  <1>12. \A i \in Lineage(k) : i > 1 => SmallerChild(g, i, f)
    BY <1>3, <1>11
  <1> QED BY <1>6, <1>9, <1>11, <1>12 DEF k

\* Without its first element, a set of distinct elements has one element less.
LEMMA TailDistinct ==
    ASSUME NEW E, NEW n \in Nat \ {0}, NEW h \in [1 .. n -> E], Cardinality(ToSet(h)) = n
    PROVE  \A i \in 2 .. n : h[i] # h[1]
  <1> SUFFICES ASSUME NEW j \in 2 .. n, h[j] = h[1] PROVE FALSE
    OBVIOUS
  <1> DEFINE T == 2 .. n
             r == [i \in T |-> h[i]]
  <1>1. ToSet(h) = {h[i] : i \in 1 .. n}
    BY DEF ToSet
  <1>2. r \in [T -> ToSet(h)]
    BY <1>1
  <1>3. \A e \in ToSet(h) : \E i \in T : r[i] = e
    <2> SUFFICES ASSUME NEW i \in 1 .. n PROVE \E t \in T : r[t] = h[i]
      BY <1>1
    <2>1. CASE i = 1
      <3>1. r[j] = h[i]
        BY <2>1
      <3> QED BY <3>1
    <2>2. CASE i # 1
      <3>1. i \in T /\ r[i] = h[i]
        BY <2>2
      <3> QED BY <3>1
    <2> QED BY <2>1, <2>2
  <1>4. IsFiniteSet(T) /\ Cardinality(T) = n - 1
    BY FS_Interval
  <1>5. r \in Surjection(T, ToSet(h))
    <2> HIDE DEF r, T
    <2> QED BY <1>2, <1>3 DEF Surjection
  <1>6. IsFiniteSet(ToSet(h)) /\ Cardinality(ToSet(h)) <= Cardinality(T)
    <2> HIDE DEF r, T
    <2> QED BY <1>4, <1>5, FS_Surjection
  <1> QED BY <1>4, <1>6

LEMMA ReplacedFacts ==
    ASSUME NEW E, NEW n \in Nat, NEW h \in Seq(E), Len(h) = n + 1, n # 0
    PROVE  /\ Replaced(h) \in [1 .. n -> E]
           /\ Cardinality(ToSet(h)) = n + 1 => ToSet(Replaced(h)) = ToSet(h) \ {h[1]}
  <1> DEFINE g == Replaced(h)
  <1>1. h \in [1 .. n + 1 -> E] /\ DOMAIN h = 1 .. n + 1
    OBVIOUS
  <1>2. g = [i \in 1 .. n |-> IF i = 1 THEN h[n + 1] ELSE h[i]]
    BY DEF Replaced
  <1>3. DOMAIN g = 1 .. n /\ \A i \in 1 .. n : g[i] = IF i = 1 THEN h[n + 1] ELSE h[i]
    BY <1>2
  <1>4. g \in [1 .. n -> E]
    BY <1>1, <1>2
  <1>5. ASSUME Cardinality(ToSet(h)) = n + 1 PROVE ToSet(g) = ToSet(h) \ {h[1]}
    <2>1. \A i \in 2 .. n + 1 : h[i] # h[1]
      <3>1. PICK k \in Nat \ {0} : k = n + 1
        OBVIOUS
      <3>2. h \in [1 .. k -> E] /\ Cardinality(ToSet(h)) = k
        BY <3>1, <1>1, <1>5, Zenon
      <3>3. \A i \in 2 .. k : h[i] # h[1]
        BY <3>1, <3>2, TailDistinct, Zenon
      <3> QED BY <3>1, <3>3, Zenon
    <2> HIDE DEF g
    <2>2. ToSet(g) \subseteq ToSet(h) \ {h[1]}
      BY <1>1, <1>3, <2>1 DEF ToSet
    <2>3. ToSet(h) \ {h[1]} \subseteq ToSet(g)
      <3> SUFFICES ASSUME NEW i \in 1 .. n + 1, h[i] # h[1] PROVE \E t \in 1 .. n : h[i] = g[t]
        BY <1>1, <1>3 DEF ToSet
      <3>1. CASE i = n + 1
        BY <1>3, <3>1
      <3>2. CASE i # n + 1
        <4>1. i \in 1 .. n /\ i # 1
          BY <3>2
        <4>2. g[i] = h[i]
          BY <4>1, <1>3
        <4> QED BY <4>1, <4>2
      <3> QED BY <3>1, <3>2
    <2> QED BY <2>2, <2>3
  <1> QED BY <1>4, <1>5

\* MovedUp on the line: a position takes the element of its child there.
LEMMA MovedUpIs ==
    ASSUME NEW n \in Nat, NEW g, DOMAIN g = 1 .. n, NEW f, NEW k \in 1 .. n,
           SmallLine(g, f) = Lineage(k)
    PROVE  /\ MovedUp(g, k, f)[k] = g[1]
           /\ \A i \in (1 .. n) \ Lineage(k) : MovedUp(g, k, f)[i] = g[i]
           /\ \A c \in Lineage(k) : c > 1 => MovedUp(g, k, f)[c \div 2] = g[c]
  <1> DEFINE m == MovedUp(g, k, f)
  <1>1. /\ k \in Nat \ {0} /\ Lineage(k) \in SUBSET (1 .. k) /\ k \in Lineage(k)
        /\ \A a \in Lineage(k) : a > 1 => a \div 2 \in Lineage(k)
    BY LineageType, LineageAscends DEF Ascending
  <1>2. \A i \in 1 .. n :
          m[i] = IF i = k THEN g[1]
                 ELSE IF i \in Lineage(k)
                      THEN g[CHOOSE j \in Lineage(k) : j > 1 /\ j \div 2 = i]
                      ELSE g[i]
    BY DEF MovedUp
  <1>3. m[k] = g[1] /\ \A i \in (1 .. n) \ Lineage(k) : m[i] = g[i]
    BY <1>1, <1>2
  <1>4. ASSUME NEW c \in Lineage(k), c > 1 PROVE m[c \div 2] = g[c]
    <2>1. c \in 1 .. n /\ c \in 1 .. k /\ c \div 2 \in Lineage(k) /\ c \div 2 < c
      BY <1>1, <1>4
    <2>2. \A j \in Lineage(k) : j > 1 /\ j \div 2 = c \div 2 => j = c
      <3> SUFFICES ASSUME NEW j \in Lineage(k), j > 1, j \div 2 = c \div 2 PROVE j = c
        OBVIOUS
      <3>1. j \in 1 .. k
        BY <1>1
      <3>2. (j < c => j <= c \div 2) /\ (c < j => c <= j \div 2)
        BY <1>1, NoneBetween
      <3> QED BY <3>1, <3>2, <2>1, <1>4
    <2>3. (CHOOSE j \in Lineage(k) : j > 1 /\ j \div 2 = c \div 2) = c
      BY <1>4, <2>2
    <2>4. c \div 2 \in 1 .. n /\ c \div 2 # k
      BY <2>1, <1>1
    <2>5. m[c \div 2] = g[CHOOSE j \in Lineage(k) : j > 1 /\ j \div 2 = c \div 2]
      BY <1>2, <2>1, <2>4
    <2> QED BY <2>3, <2>5
  <1> QED BY <1>3, <1>4

\* The moves rearrange the array, but for the hole they leave at the leaf.
LEMMA MovedUpElements ==
    ASSUME NEW n \in Nat, NEW g, DOMAIN g = 1 .. n, NEW f, NEW k \in 1 .. n,
           SmallLine(g, f) = Lineage(k)
    PROVE  /\ ToSet(MovedUp(g, k, f)) = ToSet(g)
           /\ DOMAIN MovedUp(g, k, f) = 1 .. n
           /\ \A i \in 1 .. n : \E j \in 1 .. n : MovedUp(g, k, f)[i] = g[j]
  <1> DEFINE m == MovedUp(g, k, f)
  <1>1. /\ k \in Nat \ {0} /\ Lineage(k) \in SUBSET (1 .. k) /\ k \in Lineage(k)
        /\ \A a \in Lineage(k) : a > 1 => a \div 2 \in Lineage(k)
    BY LineageType, LineageAscends DEF Ascending
  <1>2. 1 \in 1 .. n
    OBVIOUS
  <1>3. /\ m[k] = g[1]
        /\ \A i \in (1 .. n) \ Lineage(k) : m[i] = g[i]
        /\ \A c \in Lineage(k) : c > 1 => m[c \div 2] = g[c]
    BY MovedUpIs
  <1>4. DOMAIN m = 1 .. n
    BY DEF MovedUp
  <1> HIDE DEF m
  <1>5. ASSUME NEW i \in 1 .. n PROVE \E j \in 1 .. n : m[i] = g[j]
    <2>1. CASE i \in Lineage(k) /\ i # k
      <3>1. PICK c \in Lineage(k) : c > 1 /\ c \div 2 = i
        BY <1>1, <2>1, ChildOnLine
      <3>2. c \in 1 .. n
        BY <1>1
      <3> QED BY <1>3, <3>1, <3>2
    <2> QED BY <1>2, <1>3, <2>1
  <1>6. ASSUME NEW i \in 1 .. n PROVE \E j \in 1 .. n : g[i] = m[j]
    <2>1. CASE i \in Lineage(k) /\ i > 1
      <3>1. i \div 2 \in 1 .. n /\ m[i \div 2] = g[i]
        BY <1>3, <2>1
      <3> QED BY <3>1
    <2>2. CASE i = 1
      BY <1>3, <2>2
    <2>3. CASE i \notin Lineage(k)
      BY <1>3, <2>3
    <2> QED BY <2>1, <2>2, <2>3
  <1>8. ToSet(m) \subseteq ToSet(g)
    BY <1>4, <1>5 DEF ToSet
  <1>9. ToSet(g) \subseteq ToSet(m)
    BY <1>4, <1>6 DEF ToSet
  <1> QED BY <1>4, <1>5, <1>8, <1>9 DEF m

LEMMA MovedUpType ==
    ASSUME NEW E, NEW n \in Nat, NEW g \in [1 .. n -> E], NEW f, NEW k \in 1 .. n,
           SmallLine(g, f) = Lineage(k)
    PROVE  MovedUp(g, k, f) \in [1 .. n -> E]
  <1> DEFINE m == MovedUp(g, k, f)
  <1>1. DOMAIN g = 1 .. n
    OBVIOUS
  <1>2. m = [i \in 1 .. n |-> m[i]]
    BY <1>1 DEF MovedUp
  <1>3. \A i \in 1 .. n : m[i] \in E
    BY <1>1, MovedUpElements, SMTT(30)
  <1> HIDE DEF m
  <1> QED BY <1>2, <1>3 DEF m

\* Below the root g is ordered; with the smaller children moved up, all but the
\* leaf the root's element went to is.
OrderedBelow(g, n, f) == \A i \in 2 .. n : i \div 2 # 1 => ~Lt(f, g[i], g[i \div 2])

LEMMA MovedUpOrdered ==
    ASSUME NEW E, NEW f, Ranked(f, E), NEW n \in Nat, NEW g \in [1 .. n -> E],
           OrderedBelow(g, n, f), NEW k \in 1 .. n, 2 * k > n,
           SmallLine(g, f) = Lineage(k),
           \A i \in Lineage(k) : i > 1 => SmallerChild(g, i, f)
    PROVE  OrderedBut(MovedUp(g, k, f), n, k, f)
  <1> DEFINE m == MovedUp(g, k, f)
  <1> SUFFICES ASSUME NEW i \in (2 .. n) \ {k} PROVE ~Lt(f, m[i], m[i \div 2])
    BY DEF OrderedBut
  <1>1. /\ k \in Nat \ {0} /\ Lineage(k) \in SUBSET (1 .. k) /\ k \in Lineage(k)
        /\ \A a \in Lineage(k) : a > 1 => a \div 2 \in Lineage(k)
        /\ 1 \in Lineage(k)
    BY LineageType, LineageAscends, RootOnLine DEF Ascending
  <1>2. DOMAIN g = 1 .. n
    OBVIOUS
  <1>3. /\ m[k] = g[1]
        /\ \A j \in (1 .. n) \ Lineage(k) : m[j] = g[j]
        /\ \A c \in Lineage(k) : c > 1 => m[c \div 2] = g[c]
    BY <1>2, MovedUpIs
  <1> HIDE DEF m
  <1>4. i \in 1 .. n /\ i > 1 /\ i \div 2 \in 1 .. n /\ i \div 2 # k
    OBVIOUS
  <1>5. CASE i \in Lineage(k)
    <2>1. PICK c \in Lineage(k) : c > 1 /\ c \div 2 = i
      BY <1>1, <1>5, ChildOnLine
    <2>2. c \in 2 .. n /\ m[i] = g[c] /\ m[i \div 2] = g[i]
      BY <1>1, <1>3, <1>4, <1>5, <2>1, SMTT(30)
    <2> QED BY <1>4, <2>1, <2>2 DEF OrderedBelow
  <1>6. CASE i \notin Lineage(k) /\ i \div 2 \in Lineage(k)
    <2>1. PICK c \in Lineage(k) : c > 1 /\ c \div 2 = i \div 2
      BY <1>1, <1>4, <1>6, ChildOnLine
    <2>2. c \in 2 .. n /\ m[i] = g[i] /\ m[i \div 2] = g[c] /\ SmallerChild(g, c, f)
      BY <1>1, <1>3, <1>4, <1>6, <2>1
    <2> QED BY <2>1, <2>2, SmallerIsLess
  <1>7. CASE i \notin Lineage(k) /\ i \div 2 \notin Lineage(k)
    <2>1. m[i] = g[i] /\ m[i \div 2] = g[i \div 2] /\ i \div 2 # 1
      BY <1>1, <1>3, <1>4, <1>7
    <2> QED BY <2>1 DEF OrderedBelow
  <1> QED BY <1>5, <1>6, <1>7

LEMMA PopHeap ==
    ASSUME NEW E, NEW f, NEW h \in Seq(E), Len(h) # 0, Cardinality(ToSet(h)) = Len(h)
    PROVE  /\ HeapPop(h, f) \in Seq(E)
           /\ Len(HeapPop(h, f)) = Len(h) - 1
           /\ ToSet(HeapPop(h, f)) = ToSet(h) \ {h[1]}
           /\ Ranked(f, E) /\ Ordered(h, Len(h), f)
                => Ordered(HeapPop(h, f), Len(h) - 1, f)
  <1>1. CASE Len(h) = 1
    <2>1. HeapPop(h, f) = << >>
      BY <1>1 DEF HeapPop
    <2>2. ToSet(h) = {h[1]}
      BY <1>1 DEF ToSet
    <2>3. ToSet(<< >>) = {} /\ << >> \in Seq(E) /\ Len(<< >>) = 0
      BY DEF ToSet
    <2>4. \A z : Ordered(z, 0, f)
      BY DEF Ordered
    <2> QED BY <1>1, <2>1, <2>2, <2>3, <2>4
  <1>2. CASE Len(h) # 1
    <2>1. PICK n \in Nat : Len(h) = n + 1 /\ n # 0
      BY <1>2
    <2>2. PICK g : g = Replaced(h)
      OBVIOUS
    <2>3. g \in [1 .. n -> E] /\ ToSet(g) = ToSet(h) \ {h[1]}
      BY <2>1, <2>2, ReplacedFacts
    <2>4. PICK k : k = Max(SmallLine(g, f))
      OBVIOUS
    <2>5. /\ k \in 1 .. n /\ 2 * k > n /\ k \in Nat \ {0}
          /\ SmallLine(g, f) = Lineage(k)
          /\ \A i \in Lineage(k) : i > 1 => SmallerChild(g, i, f)
      <3>1. n \in Nat \ {0} /\ DOMAIN g = 1 .. n
        BY <2>1, <2>3
      <3> QED BY <2>4, <3>1, SmallLineIs
    <2>6. PICK m : m = MovedUp(g, k, f)
      OBVIOUS
    <2>7. m \in [1 .. n -> E] /\ ToSet(m) = ToSet(g)
      <3>1. DOMAIN g = 1 .. n
        BY <2>3
      <3>2. m \in [1 .. n -> E]
        BY <2>1, <2>3, <2>5, <2>6, MovedUpType
      <3>3. ToSet(m) = ToSet(g)
        BY <3>1, <2>1, <2>5, <2>6, MovedUpElements
      <3> QED BY <3>2, <3>3
    <2>8. PICK d \in Lineage(k) : /\ SettlesAt(m, k, f, d)
                                  /\ SiftTowardsRoot(m, k, f) = Settled(m, k, d)
      BY <2>5, SiftSettles
    <2>9. HeapPop(h, f) = Settled(m, k, d)
      BY <1>2, <2>2, <2>4, <2>6, <2>8, PopIs
    <2>10. Settled(m, k, d) \in [1 .. n -> E] /\ ToSet(Settled(m, k, d)) = ToSet(m)
      <3>1. DOMAIN m = 1 .. n
        BY <2>7
      <3>2. Settled(m, k, d) \in [1 .. n -> E]
        BY <2>1, <2>5, <2>7, <2>8, SettledType
      <3>3. ToSet(Settled(m, k, d)) = ToSet(m)
        BY <3>1, <2>1, <2>5, <2>8, SettledElements
      <3> QED BY <3>2, <3>3
    <2>11. ASSUME Ranked(f, E), Ordered(h, Len(h), f) PROVE Ordered(HeapPop(h, f), n, f)
      <3>1. OrderedBelow(g, n, f)
        <4> SUFFICES ASSUME NEW i \in 2 .. n, i \div 2 # 1 PROVE ~Lt(f, g[i], g[i \div 2])
          BY DEF OrderedBelow
        <4>1. g[i] = h[i] /\ g[i \div 2] = h[i \div 2] /\ i \in 2 .. n + 1
          BY <2>1, <2>2 DEF Replaced
        <4> QED BY <4>1, <2>1, <2>11 DEF Ordered
      <3>2. OrderedBut(m, n, k, f)
        BY <3>1, <2>1, <2>3, <2>5, <2>6, <2>11, MovedUpOrdered
      <3>3. Ordered(Settled(m, k, d), n, f)
        BY <3>2, <2>1, <2>5, <2>7, <2>8, <2>11, SettledOrdered
      <3> QED BY <3>3, <2>9
    <2>12. HeapPop(h, f) \in Seq(E) /\ Len(HeapPop(h, f)) = n
      BY <2>1, <2>9, <2>10, ArrayIsSeq
    <2>13. ToSet(HeapPop(h, f)) = ToSet(h) \ {h[1]}
      BY <2>3, <2>7, <2>9, <2>10
    <2>14. Len(h) - 1 = n
      BY <2>1
    <2> QED BY <2>11, <2>12, <2>13, <2>14
  <1> QED BY <1>1, <1>2
-----------------------------------------------------------------------------
(* OrderQueueHeap: the array implements the queue. *)

\* Every step of the queue with its array is a step of the queue, so what was
\* proved of the queue holds here.
THEOREM HeapRefinesQueue == HSpec => Spec
  <1>1. HInit => Init
    BY DEF HInit
  <1>2. ASSUME [HNext]_hvars PROVE [Next]_vars
    <2>1. CASE UNCHANGED hvars
      BY <2>1 DEF hvars
    <2>2. CASE \E r \in Requests : HSubmit(r)
      BY <2>2 DEF HSubmit, Next
    <2>3. CASE \E p \in Positions : HPurge(p)
      BY <2>3 DEF HPurge, Next, CleanupStep
    <2>4. CASE HStart
      BY <2>4 DEF HStart, Next, WorkerStep
    <2>5. CASE HOther
      BY <2>5 DEF HOther, Next, WorkerStep, CleanupStep
    <2> QED BY <1>2, <2>1, <2>2, <2>3, <2>4, <2>5 DEF HNext
  <1> QED BY <1>1, <1>2, PTL DEF HSpec, Spec

\* The array holds exactly the queued tasks, and no child is less than its parent
\* as long as no queued task's sort key changed.
HeapInv ==
    /\ heap \in Seq(TaskIds)
    /\ ToSet(heap) = queue
    /\ Len(heap) = Cardinality(queue)
    /\ ~dirty => Ordered(heap, Len(heap), SortKeys)

\* The queued tasks keep their keys in a step, unless it makes the queue dirty.
KeysKept(Q, f, g) == \A t \in Q : f[t] = g[t]

KeysOf(tk) == [t \in TaskIds |-> <<tk[t].req.priority, tk[t].created_at>>]

LEMMA KeysRanked ==
    ASSUME NEW tk \in [TaskIds -> Task]
    PROVE  Ranked(KeysOf(tk), TaskIds)
  <1> SUFFICES ASSUME NEW t \in TaskIds PROVE KeysOf(tk)[t][1] \in Int /\ KeysOf(tk)[t][2] \in Int
    BY DEF Ranked
  <1>1. tk[t].req.priority \in Int /\ tk[t].created_at \in Int
    <2>1. tk[t] \in Task
      OBVIOUS
    <2> QED BY <2>1 DEF Task, Request
  <1>2. KeysOf(tk)[t] = <<tk[t].req.priority, tk[t].created_at>>
    BY DEF KeysOf
  <1> QED BY <1>1, <1>2

LEMMA QueueFinite ==
    ASSUME queue \subseteq TaskIds
    PROVE  IsFiniteSet(queue)
  <1>1. 2 * MaxTasks \in Int
    BY QueueAssumption
  <1>2. IsFiniteSet(TaskIds)
    BY <1>1, FS_Interval DEF TaskIds
  <1> QED BY <1>2, FS_Subset

\* An array keeps its order under keys that agree on its elements.
LEMMA SameOrder ==
    ASSUME NEW E, NEW f, NEW g, NEW h \in Seq(E), KeysKept(ToSet(h), f, g),
           Ordered(h, Len(h), f)
    PROVE  Ordered(h, Len(h), g)
  <1> SUFFICES ASSUME NEW i \in 2 .. Len(h) PROVE ~Lt(g, h[i], h[i \div 2])
    BY DEF Ordered
  <1>1. i \in DOMAIN h /\ i \div 2 \in DOMAIN h
    OBVIOUS
  <1>2. h[i] \in ToSet(h) /\ h[i \div 2] \in ToSet(h)
    BY <1>1 DEF ToSet
  <1>3. ~Lt(f, h[i], h[i \div 2])
    BY DEF Ordered
  <1>4. f[h[i]] = g[h[i]] /\ f[h[i \div 2]] = g[h[i \div 2]]
    BY <1>2 DEF KeysKept
  <1> QED BY <1>3, <1>4 DEF Lt

LEMMA HeapStays ==
    ASSUME HeapInv, queue' = queue, heap' = heap,
           ~dirty' => ~dirty /\ KeysKept(queue, SortKeys, SortKeys')
    PROVE  HeapInv'
  <1>1. PICK f, g, Q : f = SortKeys /\ g = SortKeys' /\ Q = queue
    OBVIOUS
  <1>2. ASSUME ~dirty' PROVE Ordered(heap, Len(heap), g)
    <2>1. heap \in Seq(TaskIds) /\ ToSet(heap) = Q /\ Ordered(heap, Len(heap), f)
      BY <1>1, <1>2 DEF HeapInv
    <2>2. KeysKept(Q, f, g)
      BY <1>1, <1>2
    <2> QED BY <2>1, <2>2, SameOrder
  <1> QED BY <1>1, <1>2 DEF HeapInv

\* put, of a task that was not queued.
LEMMA HeapGrows ==
    ASSUME HeapInv, queue \subseteq TaskIds, task' \in [TaskIds -> Task],
           NEW x \in TaskIds, x \notin queue, queue' = queue \cup {x}, HeapFollows,
           ~dirty' => ~dirty /\ KeysKept(queue, SortKeys, SortKeys')
    PROVE  HeapInv'
  <1>1. PICK f, g, Q, h : f = SortKeys /\ g = SortKeys' /\ Q = queue /\ h = heap
    OBVIOUS
  <1>2. h \in Seq(TaskIds) /\ ToSet(h) = Q /\ Len(h) = Cardinality(Q)
    BY <1>1 DEF HeapInv
  <1>3. heap' = HeapPush(h, x, g)
    <2>1. queue' \ queue = {x} /\ (CHOOSE t \in queue' \ queue : TRUE) = x
      OBVIOUS
    <2>2. queue' \ queue # {}
      BY <2>1
    <2> QED BY <1>1, <2>1, <2>2 DEF HeapFollows
  <1>4. /\ HeapPush(h, x, g) \in Seq(TaskIds)
        /\ Len(HeapPush(h, x, g)) = Len(h) + 1
        /\ ToSet(HeapPush(h, x, g)) = ToSet(h) \cup {x}
        /\ Ranked(g, TaskIds) /\ Ordered(h, Len(h), g)
             => Ordered(HeapPush(h, x, g), Len(h) + 1, g)
    BY <1>2, PushHeap
  <1>5. Cardinality(Q \cup {x}) = Cardinality(Q) + 1
    <2>1. IsFiniteSet(Q) /\ x \notin Q
      BY <1>1, QueueFinite
    <2> QED BY <2>1, FS_AddElement
  <1>6. ASSUME ~dirty' PROVE Ordered(heap', Len(heap'), SortKeys')
    <2>1. KeysKept(ToSet(h), f, g) /\ Ordered(h, Len(h), f)
      BY <1>1, <1>2, <1>6 DEF HeapInv
    <2>2. Ordered(h, Len(h), g)
      BY <2>1, <1>2, SameOrder
    <2>3. Ranked(g, TaskIds)
      BY <1>1, KeysRanked DEF SortKeys, KeysOf
    <2> QED BY <1>1, <1>3, <1>4, <2>2, <2>3
  <1>7. queue' = Q \cup {x}
    BY <1>1
  <1> QED BY <1>2, <1>3, <1>4, <1>5, <1>6, <1>7 DEF HeapInv

\* get, of the root.
LEMMA HeapShrinks ==
    ASSUME HeapInv, queue \subseteq TaskIds, task \in [TaskIds -> Task], UNCHANGED task,
           NEW x \in queue, queue' = queue \ {x}, HeapFollows,
           dirty' = (dirty /\ queue' # {}), dirty \in BOOLEAN
    PROVE  HeapInv'
  <1>1. PICK f, Q, h : f = SortKeys /\ Q = queue /\ h = heap
    OBVIOUS
  <1>2. h \in Seq(TaskIds) /\ ToSet(h) = Q /\ Len(h) = Cardinality(Q)
    BY <1>1 DEF HeapInv
  <1>3. x = h[1] /\ heap' = HeapPop(h, f)
    <2>1. queue' \ queue = {} /\ queue \ queue' = {x}
      OBVIOUS
    <2> QED BY <1>1, <2>1 DEF HeapFollows
  <1>4. IsFiniteSet(Q) /\ x \in Q
    BY <1>1, QueueFinite
  <1>5. Cardinality(Q \ {x}) = Cardinality(Q) - 1 /\ Len(h) # 0
    <2>1. Cardinality(Q \ {x}) = Cardinality(Q) - 1
      BY <1>4, FS_RemoveElement
    <2>2. Cardinality(Q) # 0
      BY <1>4, FS_EmptySet
    <2> QED BY <1>2, <2>1, <2>2
  <1>6. /\ HeapPop(h, f) \in Seq(TaskIds)
        /\ Len(HeapPop(h, f)) = Len(h) - 1
        /\ ToSet(HeapPop(h, f)) = ToSet(h) \ {h[1]}
        /\ Ranked(f, TaskIds) /\ Ordered(h, Len(h), f)
             => Ordered(HeapPop(h, f), Len(h) - 1, f)
    BY <1>2, <1>5, PopHeap
  <1>7. Ranked(f, TaskIds) /\ SortKeys' = f
    BY <1>1, KeysRanked DEF SortKeys, KeysOf
  <1>8. ASSUME ~dirty' PROVE Ordered(heap', Len(heap'), f)
    <2>1. CASE ~dirty
      <3>1. Ordered(h, Len(h), f)
        BY <1>1, <2>1 DEF HeapInv
      <3> QED BY <1>3, <1>6, <1>7, <3>1
    <2>2. CASE dirty
      <3>1. Q \ {x} = {}
        BY <1>1, <1>8, <2>2
      <3>2. Len(heap') = 0
        BY <1>2, <1>3, <1>5, <1>6, <3>1, FS_EmptySet
      <3> QED BY <3>2 DEF Ordered
    <2> QED BY <2>1, <2>2
  <1>9. queue' = Q \ {x}
    BY <1>1
  <1> QED BY <1>2, <1>3, <1>5, <1>6, <1>7, <1>8, <1>9 DEF HeapInv

\* A merge changes the key of a queued task only where it makes the queue dirty.
LEMMA MergeKeeps ==
    ASSUME TypeOK, NEW e \in TaskIds, NEW r \in Request,
           task' = [task EXCEPT ![e] = Merged(task[e], r)],
           ~(IsSl(r) /\ e \in queue)
    PROVE  KeysKept(queue, SortKeys, SortKeys')
  <1> SUFFICES ASSUME NEW t \in queue PROVE SortKeys[t] = SortKeys'[t]
    BY DEF KeysKept
  <1>0. t \in TaskIds /\ task \in [TaskIds -> Task]
    BY DEF TypeOK
  <1>1. CASE t # e
    <2>1. task'[t] = task[t]
      BY <1>0, <1>1
    <2> QED BY <1>0, <2>1 DEF SortKeys
  <1>2. CASE t = e
    <2>1. ~IsSl(r) /\ task'[t] = Merged(task[t], r) /\ task[t] \in Task
      BY <1>0, <1>2
    <2>2. /\ Merged(task[t], r).req.priority = task[t].req.priority
          /\ Merged(task[t], r).created_at = task[t].created_at
      BY <2>1 DEF Merged, Task, Request
    <2> QED BY <1>0, <2>1, <2>2 DEF SortKeys
  <1> QED BY <1>1, <1>2

\* A new task object: the queued ones keep their keys.
LEMMA InsertKeeps ==
    ASSUME TypeOK, Identities, NEW o, task' = [task EXCEPT ![fresh] = o]
    PROVE  KeysKept(queue, SortKeys, SortKeys')
  <1> SUFFICES ASSUME NEW t \in queue PROVE SortKeys[t] = SortKeys'[t]
    BY DEF KeysKept
  <1>1. t \in TaskIds /\ task \in [TaskIds -> Task] /\ t < fresh /\ fresh \in Int
    BY QueueAssumption DEF TypeOK, Identities, TaskIds
  <1>2. t # fresh
    <2>1. t \in Int
      BY <1>1 DEF TaskIds
    <2> QED BY <1>1, <2>1
  <1>3. task'[t] = task[t]
    BY <1>1, <1>2
  <1> QED BY <1>1, <1>3 DEF SortKeys

LEMMA SameKeys ==
    ASSUME UNCHANGED task
    PROVE  KeysKept(queue, SortKeys, SortKeys')
  BY DEF KeysKept, SortKeys

LEMMA FreshNotQueued ==
    ASSUME TypeOK, Identities
    PROVE  fresh \notin queue
  <1>1. fresh \in Int /\ \A t \in queue : t < fresh
    BY QueueAssumption DEF TypeOK, Identities
  <1> QED BY <1>1

LEMMA SubmitHeap ==
    ASSUME TypeOK, TypeOK', Identities, HeapInv, NEW r \in Requests, HSubmit(r)
    PROVE  HeapInv'
  <1>0. /\ r \in Request /\ Submit(r) /\ HeapFollows /\ dirty \in BOOLEAN
        /\ queue \subseteq TaskIds /\ task' \in [TaskIds -> Task]
    BY QueueAssumption DEF HSubmit, TypeOK
  <1>1. ASSUME NEW e \in TaskIds, CoalesceInto(e, r) PROVE HeapInv'
    <2>1. queue' = queue /\ heap' = heap
      BY <1>0, <1>1 DEF CoalesceInto, HeapFollows
    <2>2. ~dirty' => ~dirty /\ KeysKept(queue, SortKeys, SortKeys')
      BY <1>0, <1>1, MergeKeeps DEF CoalesceInto
    <2> QED BY <2>1, <2>2, HeapStays
  <1>2. CASE Insert(r)
    <2>1. /\ fresh \in TaskIds /\ queue' = queue \cup {fresh} /\ dirty' = dirty
          /\ task' = [task EXCEPT ![fresh] = [req |-> r, created_at |-> clock, retry_count |-> 0]]
      BY <1>2 DEF Insert
    <2>2. fresh \notin queue /\ KeysKept(queue, SortKeys, SortKeys')
      BY <2>1, InsertKeeps, FreshNotQueued
    <2> QED BY <1>0, <2>1, <2>2, HeapGrows
  <1>3. CASE \E k \in Quickfire(r) : CoalesceQuickfire(r, k)
    <2>1. PICK k \in Quickfire(r) : CoalesceQuickfire(r, k)
      BY <1>3
    <2>2. pending[k] \in TaskIds
      BY <2>1 DEF Quickfire, TypeOK
    <2> QED BY <1>1, <2>1, <2>2 DEF CoalesceQuickfire
  <1>4. CASE pending[Key(r)] # NoTask /\ CoalesceSameKey(r)
    <2>1. pending[Key(r)] \in TaskIds
      BY <1>0, <1>4, KeyFacts DEF TypeOK
    <2> QED BY <1>1, <1>4, <2>1 DEF CoalesceSameKey
  <1> QED BY <1>0, <1>2, <1>3, <1>4 DEF Submit, Enqueue

LEMMA SettleEscalateHeap ==
    ASSUME TypeOK, TypeOK', Identities, HeapInv, SettleEscalate, HeapFollows
    PROVE  HeapInv'
  <1> DEFINE e == EmergencyOf(task[cur].req)
             k == Key(e)
  <1>0. /\ dirty' = dirty /\ dirty \in BOOLEAN /\ queue \subseteq TaskIds
        /\ task' \in [TaskIds -> Task] /\ task \in [TaskIds -> Task]
    BY DEF SettleEscalate, TypeOK
  <1>1. task[cur].req \in Request
    <2>1. cur \in TaskIds
      BY DEF SettleEscalate, Identities
    <2>2. task[cur] \in Task
      BY <1>0, <2>1
    <2> QED BY <2>2 DEF Task
  <1>2. e \in Request /\ k \in Keys /\ ~IsSl(e)
    BY <1>1, EmergencyFacts, KeyFacts DEF IsSl, SlActions
  <1>3. CASE pending[k] # NoTask
    <2>1. /\ task' = [task EXCEPT ![pending[k]] = Merged(task[pending[k]], e)]
          /\ queue' = queue
      BY <1>3 DEF SettleEscalate
    <2>2. pending[k] \in TaskIds
      BY <1>2, <1>3 DEF TypeOK
    <2>3. KeysKept(queue, SortKeys, SortKeys')
      <3> HIDE DEF e, k
      <3> QED BY <1>2, <2>1, <2>2, MergeKeeps
    <2>4. heap' = heap
      BY <2>1 DEF HeapFollows
    <2> QED BY <1>0, <2>1, <2>3, <2>4, HeapStays
  <1>4. CASE pending[k] = NoTask
    <2>1. /\ fresh \in TaskIds /\ queue' = queue \cup {fresh}
          /\ task' = [task EXCEPT ![fresh] = [req |-> e, created_at |-> clock, retry_count |-> 0]]
      BY <1>4 DEF SettleEscalate
    <2>2. fresh \notin queue /\ KeysKept(queue, SortKeys, SortKeys')
      <3> HIDE DEF e, k
      <3> QED BY <2>1, InsertKeeps, FreshNotQueued
    <2> QED BY <1>0, <2>1, <2>2, HeapGrows
  <1> QED BY <1>3, <1>4

\* put of the task in hand, which had left the queue.
LEMMA PutBackHeap ==
    ASSUME TypeOK, TypeOK', Identities, HeapInv, pc # "idle", UNCHANGED <<task, dirty>>,
           queue' = queue \cup {cur}, HeapFollows
    PROVE  HeapInv'
  <1>1. cur \in TaskIds /\ cur \notin queue
    BY DEF Identities
  <1>2. queue \subseteq TaskIds /\ task' \in [TaskIds -> Task] /\ dirty' = dirty
    BY DEF TypeOK
  <1> QED BY <1>1, <1>2, SameKeys, HeapGrows

LEMMA PopStepHeap ==
    ASSUME TypeOK, HeapInv, NEW t \in TaskIds, Pop(t), HeapFollows
    PROVE  HeapInv'
  <1>1. /\ queue \subseteq TaskIds /\ task \in [TaskIds -> Task] /\ dirty \in BOOLEAN
        /\ UNCHANGED task /\ queue' = queue \ {t} /\ dirty' = (dirty /\ queue' # {})
    BY DEF TypeOK, Pop
  <1>2. t \in queue
    BY DEF Pop, Poppable
  <1> QED BY <1>1, <1>2, HeapShrinks

\* The other steps leave queue and array alone; only a retry count changes.
LEMMA QuietHeap ==
    ASSUME TypeOK, HeapInv, queue' = queue, heap' = heap, dirty' = dirty,
           \/ UNCHANGED task
           \/ task' = [task EXCEPT ![cur].retry_count = @ + 1]
    PROVE  HeapInv'
  <1>1. task \in [TaskIds -> Task] /\ queue \subseteq TaskIds
    BY DEF TypeOK
  <1>2. CASE task' = [task EXCEPT ![cur].retry_count = @ + 1]
    <2> SUFFICES ASSUME NEW t \in queue PROVE SortKeys[t] = SortKeys'[t]
      BY HeapStays DEF KeysKept
    <2>1. t \in TaskIds /\ task[t] \in Task
      BY <1>1
    <2>2. task'[t].req = task[t].req /\ task'[t].created_at = task[t].created_at
      BY <1>1, <1>2, <2>1 DEF Task
    <2> QED BY <2>1, <2>2 DEF SortKeys
  <1> QED BY <1>2, SameKeys, HeapStays

LEMMA HeapStep ==
    ASSUME TypeOK, TypeOK', Identities, HeapInv, [HNext]_hvars
    PROVE  HeapInv'
  <1>1. CASE UNCHANGED hvars \/ HStart \/ \E p \in Positions : HPurge(p)
    <2>1. queue' = queue /\ heap' = heap /\ dirty' = dirty /\ UNCHANGED task
      BY <1>1 DEF hvars, vars, HStart, StartExecution, HPurge, PurgePending
    <2> QED BY <2>1, QuietHeap
  <1>2. ASSUME HOther PROVE HeapInv'
    <2>0. HeapFollows
      BY <1>2 DEF HOther
    <2>1. CASE \E t \in TaskIds : Pop(t)
      BY <2>0, <2>1, PopStepHeap
    <2>2. CASE PutBack \/ Requeue
      <3>1. pc # "idle" /\ UNCHANGED <<task, dirty>> /\ queue' = queue \cup {cur}
        BY <2>2 DEF PutBack, Requeue
      <3> QED BY <2>0, <3>1, PutBackHeap
    <2>3. CASE SettleEscalate
      BY <2>0, <2>3, SettleEscalateHeap
    <2>4. CASE \/ DropTombstoned \/ KeepPopped \/ FinishOk \/ SettleDrop \/ Stop \/ Tick
               \/ FinishTransient
               \/ \E o \in {"exhausted", "would_trigger", "flat", "fatal", "callback"} : FinishFailed(o)
               \/ \E p \in Positions : AwaitQuiescent(p) \/ QuiesceDone(p) \/ QuiesceTimeout(p)
      <3>1. /\ queue' = queue /\ dirty' = dirty
            /\ UNCHANGED task \/ task' = [task EXCEPT ![cur].retry_count = @ + 1]
        BY <2>4 DEF DropTombstoned, KeepPopped, FinishOk, SettleDrop, Stop, Tick,
                    FinishTransient, FinishFailed, AwaitQuiescent, QuiesceDone, QuiesceTimeout
      <3>2. heap' = heap
        BY <2>0, <3>1 DEF HeapFollows
      <3> QED BY <3>1, <3>2, QuietHeap
    <2> QED BY <1>2, <2>1, <2>2, <2>3, <2>4 DEF HOther
  <1> QED BY <1>1, <1>2, SubmitHeap DEF HNext

\* PriorityQueue over a list of mutable tasks (put, get and enqueue's merges):
\* the array of heapq holds exactly the queued tasks, once each, and what get
\* returns is a task the abstract queue may return - a least one, as long as no
\* queued task was merged into.
THEOREM HeapIsQueue == HSpec => []HeapImplementsQueue
  <1>1. HInit => HeapInv
    <2>1. Cardinality({}) = 0 /\ ToSet(<< >>) = {} /\ << >> \in Seq(TaskIds) /\ Len(<< >>) = 0
      BY FS_EmptySet DEF ToSet
    <2> QED BY <2>1 DEF HInit, Init, HeapInv, Ordered
  <1>2. TypeOK /\ TypeOK' /\ QueueInv /\ HeapInv /\ [HNext]_hvars => HeapInv'
    BY HeapStep DEF QueueInv
  <1>3. TypeOK /\ HeapInv => HeapImplementsQueue
    <2> SUFFICES ASSUME TypeOK, HeapInv, heap # << >> PROVE heap[1] \in Poppable
      BY DEF HeapInv, HeapImplementsQueue
    <2>1. PICK h, f, n : h = heap /\ f = SortKeys /\ n = Len(heap)
      OBVIOUS
    <2>2. n \in Nat /\ h \in [1 .. n -> TaskIds] /\ 1 \in 1 .. n /\ DOMAIN h = 1 .. n
      BY <2>1 DEF HeapInv
    <2>3. ToSet(h) = queue /\ h[1] \in queue
      BY <2>1, <2>2 DEF HeapInv, ToSet
    <2>4. ASSUME ~dirty, NEW u \in queue PROVE ~Before(u, heap[1])
      <3>1. Ordered(h, n, f) /\ Ranked(f, TaskIds)
        BY <2>1, <2>4, KeysRanked DEF HeapInv, SortKeys, KeysOf, TypeOK
      <3>2. PICK j \in 1 .. n : h[j] = u
        BY <2>2, <2>3 DEF ToSet
      <3>3. ~Lt(f, u, h[1])
        BY <2>2, <3>1, <3>2, RootIsLeast
      <3>4. u \in TaskIds /\ h[1] \in TaskIds
        BY <2>2, <3>2
      <3> QED BY <2>1, <3>3, <3>4 DEF Lt, Before, SortKeys
    <2> QED BY <2>1, <2>3, <2>4 DEF Poppable
  <1>4. HSpec => [](TypeOK /\ QueueInv)
    BY HeapRefinesQueue, Invariance
  <1> QED BY <1>1, <1>2, <1>3, <1>4, PTL DEF HSpec
=============================================================================
