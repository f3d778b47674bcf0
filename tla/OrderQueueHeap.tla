--------------------------- MODULE OrderQueueHeap ---------------------------
(***************************************************************************)
(* OrderQueue with the array of its priority queue: coalescing changes the *)
(* sort key of a queued task in place and nothing re-sifts the heap, so    *)
(* which task a pop returns depends on the array.  The two history         *)
(* variables serve the properties.                                         *)
(***************************************************************************)
EXTENDS OrderQueue, Heapq, SequencesExt

VARIABLES
    heap,    \* PriorityQueue._queue
    purged,  \* history: the tasks that purge_pending removed
    intent   \* history: per position, the latest SL target asked for and not yet sent

hvars == <<vars, heap, purged, intent>>

HInit == Init /\ heap = << >> /\ purged = {} /\ intent = [p \in Positions |-> NoTarget]

\* Mutant: the fields of OrderTask are compared in the other order.
SortKeys_timeFirst == [t \in TaskIds |-> <<task[t].created_at, task[t].req.priority>>]

SortKeys == [t \in TaskIds |-> <<task[t].req.priority, task[t].created_at>>]

\* put and get, on the array.
HeapFollows ==
    CASE queue' \ queue # {} ->
            heap' = HeapPush(heap, CHOOSE t \in queue' \ queue : TRUE, SortKeys')
      [] queue \ queue' # {} ->
            /\ queue \ queue' = {heap[1]}
            /\ heap' = HeapPop(heap, SortKeys)
      [] OTHER -> heap' = heap

\* The request is already on its way to the exchange.
BeingSent(r) == pc = "executing" /\ IsSl(sent) /\ sent.position = r.position
                                /\ sent.target = r.target

HSubmit(r) ==
    /\ Submit(r)
    /\ intent' = IF IsSl(r) /\ ~BeingSent(r)
                 THEN [intent EXCEPT ![r.position] = r.target] ELSE intent
    /\ HeapFollows
    /\ UNCHANGED purged

HPurge(p) ==
    /\ PurgePending(p)
    /\ purged' = purged \cup {pending[k] : k \in PurgeKeys(p)}
    /\ intent' = [intent EXCEPT ![p] = NoTarget]
    /\ UNCHANGED heap

HStart ==
    /\ StartExecution
    /\ intent' = IF IsSl(sent') /\ intent[sent'.position] = sent'.target
                 THEN [intent EXCEPT ![sent'.position] = NoTarget] ELSE intent
    /\ UNCHANGED <<heap, purged>>

HOther ==
    /\ \/ \E t \in TaskIds : Pop(t)
       \/ DropTombstoned \/ KeepPopped \/ PutBack
       \/ FinishOk \/ FinishTransient \/ Requeue
       \/ \E o \in {"exhausted", "would_trigger", "flat", "fatal", "callback"} : FinishFailed(o)
       \/ SettleEscalate \/ SettleDrop
       \/ \E p \in Positions : AwaitQuiescent(p) \/ QuiesceDone(p) \/ QuiesceTimeout(p)
       \/ Stop \/ Tick
    /\ HeapFollows
    /\ UNCHANGED <<purged, intent>>

HNext ==
    \/ \E r \in Requests : HSubmit(r)
    \/ \E p \in Positions : HPurge(p)
    \/ HStart
    \/ HOther

HSpec == HInit /\ [][HNext]_hvars
-----------------------------------------------------------------------------
(* Properties. *)

\* The array implements the queue that OrderQueue assumes: it holds exactly
\* the queued tasks, once each, and its root is always a task the abstract
\* queue may return; in particular it is a minimum as long as no queued task
\* was coalesced into.
HeapImplementsQueue ==
    /\ ToSet(heap) = queue /\ Len(heap) = Cardinality(queue)
    /\ heap # << >> => heap[1] \in Poppable

(* Expectations stated in the source that TLC refutes (README, sections 3.3, 3.4). *)

\* The latest SL target asked for is not lost: until it is sent, some task
\* that will still read its params carries it ("Latest intent wins for
\* safety-critical SL ops").
LatestIntentKept ==
    \A p \in Positions : intent[p] # NoTarget =>
        \E t \in TaskIds : /\ Awaiting(t)
                           /\ IsSl(task[t].req)
                           /\ task[t].req.position = p
                           /\ task[t].req.target = intent[p]

\* The task executed next has the highest priority of all that wait.  enqueue
\* promises it for coalesced tasks: "keep the higher priority so the
\* latest-intent replacement is processed first".
HighestPriorityFirst ==
    heap # << >> => \A t \in queue : task[heap[1]].req.priority <= task[t].req.priority

\* The dequeue loop discards only tasks that purge_pending removed.
OnlyPurgedDropped ==
    [][pc = "popped" /\ pc' = "idle" => cur \in purged]_hvars

\* Once purge_pending has run and await_quiescent has returned True, no purged
\* SL task reaches the exchange: the cancellation that follows is not raced.
CleanupNotRaced ==
    \A p \in Positions :
        cleanup[p] = "quiesced" => ~(ExecutingFor(p) /\ cur \in purged)
=============================================================================
