---------------------------- MODULE BinanceAdapter ---------------------------
(***************************************************************************)
(* The trading calls of BinanceAdapter on one symbol, request by request,  *)
(* against a venue that may execute a request and still answer with an     *)
(* error (HTTP 5xx), or not answer at all, and whose stops and take        *)
(* profits fire between two requests.  One call runs at a time: the entry  *)
(* comes before the order queue, and the queue has one worker.             *)
(***************************************************************************)
EXTENDS Integers, FiniteSets

CONSTANTS
    BnQty,       \* quantity of an entry
    BnAttempts,  \* placements tried by one cancel_and_replace_sl (4)
    BnTasks      \* bound: replacement tasks

ASSUME BnAssumption == BnQty \in Nat

VARIABLES
    bnSize,    \* live position
    bnStops,   \* live algo stops: [task, attempt, close]; task 0 is the attached one
    bnTps,     \* live take profits, by task
    bnUsed,    \* client algo ids the venue has seen: <<task, attempt>>
    bnTask,    \* number of the current replacement task
    bnCall,    \* the call under way
    bnTold     \* how the last call ended, as its caller sees it

bnVars == <<bnSize, bnStops, bnTps, bnUsed, bnTask, bnCall, bnTold>>

\* No order id is known ("active-sl"); an id that is no longer on the book.
NoStop == [task |-> -1, attempt |-> 0, close |-> FALSE]
DeadStop == [task |-> -2, attempt |-> 0, close |-> FALSE]

BnIdle == [pc |-> "idle", close |-> FALSE, old |-> NoStop, attempt |-> 0,
           resolved |-> FALSE, fits |-> TRUE]

BnInit ==
    /\ bnSize = 0 /\ bnStops = {} /\ bnTps = {} /\ bnUsed = {}
    /\ bnTask = 0 /\ bnCall = BnIdle /\ bnTold = "nothing"

At(label) == bnCall.pc = label
Go(label) == bnCall' = [bnCall EXCEPT !.pc = label]
Tell(outcome) == bnTold' = outcome /\ bnCall' = BnIdle

-----------------------------------------------------------------------------
\* How the venue takes a request: carried out and acknowledged; carried out or
\* not but answered with a BinanceAPIError; carried out or not and no answer (a
\* network error, which the BinanceAPIError handlers do not catch).
Replies == {"ok", "error_done", "error", "silent_done", "silent"}
BnDone(reply) == reply \in {"ok", "error_done", "silent_done"}
Silent(reply) == reply \in {"silent_done", "silent"}

\* Conditional orders are GTE_GTC: they expire with the position.
Shrink(n) ==
    /\ bnSize' = n
    /\ IF n = 0 THEN bnStops' = {} /\ bnTps' = {} ELSE UNCHANGED <<bnStops, bnTps>>

VenueStopFires ==
    /\ bnStops # {} /\ Shrink(0)
    /\ UNCHANGED <<bnUsed, bnTask, bnCall, bnTold>>

VenueTakesProfit ==
    /\ bnTps # {} /\ bnSize > 0
    /\ Shrink(bnSize - 1)
    /\ UNCHANGED <<bnUsed, bnTask, bnCall, bnTold>>

-----------------------------------------------------------------------------
\* place_entry_order: the market order.  An order that was filled although no
\* answer came raises here and is not rolled back.
BnEntry(reply, n) ==
    /\ At("idle") /\ bnSize = 0 /\ bnTask = 0
    /\ reply \in {"ok", "silent_done", "silent"}
    /\ bnSize' = IF BnDone(reply) THEN n ELSE 0
    /\ IF reply # "ok" THEN Tell("entry_unknown")
       ELSE IF n = 0 THEN Tell("unfilled")
       ELSE bnCall' = [BnIdle EXCEPT !.pc = "entry_sl"] /\ bnTold' = "waiting"
    /\ UNCHANGED <<bnStops, bnTps, bnUsed, bnTask>>

\* The attached stop; every exception sends the entry to the rollback.
BnEntryStop(reply) ==
    /\ At("entry_sl")
    /\ bnStops' = IF BnDone(reply) /\ bnSize > 0
                  THEN {[task |-> 0, attempt |-> 1, close |-> FALSE]} ELSE bnStops
    /\ bnCall' = [bnCall EXCEPT !.pc = IF reply = "ok" THEN "entry_tp" ELSE "rb_close"]
    /\ UNCHANGED <<bnSize, bnTps, bnUsed, bnTask, bnTold>>

BnEntryTp(reply) ==
    /\ At("entry_tp")
    /\ bnTps' = IF BnDone(reply) /\ bnSize > 0 THEN {0} ELSE bnTps
    /\ IF reply = "ok" THEN Tell("entered") ELSE Go("rb_cancel") /\ UNCHANGED bnTold
    /\ UNCHANGED <<bnSize, bnStops, bnUsed, bnTask>>

\* _rollback_entry: the attached stop first, then the position; both best-effort.
BnRollbackCancel(reply) ==
    /\ At("rb_cancel")
    /\ bnStops' = IF BnDone(reply) THEN {} ELSE bnStops
    /\ Go("rb_close")
    /\ UNCHANGED <<bnSize, bnTps, bnUsed, bnTask, bnTold>>

BnRollbackClose(reply) ==
    /\ At("rb_close")
    /\ IF BnDone(reply) THEN Shrink(0) ELSE UNCHANGED <<bnSize, bnStops, bnTps>>
    /\ Tell("entry_raised")
    /\ UNCHANGED <<bnUsed, bnTask>>

-----------------------------------------------------------------------------
\* The order queue runs cancel_and_replace_sl, with the id of a live stop, of a
\* dead one, or none.  A client id is cut to 36 characters: with long account
\* and position numbers the suffix of an attempt is cut off (fits is FALSE).
BnReplace(close, old, fits) ==
    /\ At("idle") /\ bnTold # "nothing" /\ bnTask < BnTasks
    /\ bnTask' = bnTask + 1 /\ bnTold' = "waiting"
    /\ bnCall' = [pc |-> IF close /\ old # NoStop THEN "cancel_first" ELSE "place",
                  close |-> close, old |-> old, attempt |-> 1, resolved |-> FALSE, fits |-> fits]
    /\ UNCHANGED <<bnSize, bnStops, bnTps, bnUsed>>

\* _cancel_existing_sl: TRUE only when the venue says so.
BnCancelFirst(reply) ==
    /\ At("cancel_first")
    /\ bnStops' = IF BnDone(reply) THEN bnStops \ {bnCall.old} ELSE bnStops
    /\ reply = "ok" => bnCall.old \in bnStops
    /\ IF Silent(reply) THEN Tell("unanswered")
       ELSE /\ bnCall' = [bnCall EXCEPT !.pc = "place", !.resolved = (reply = "ok")]
            /\ UNCHANGED bnTold
    /\ UNCHANGED <<bnSize, bnTps, bnUsed, bnTask>>

NextAttempt ==
    bnCall' = [bnCall EXCEPT !.attempt = @ + 1,
                 !.pc = IF bnCall.attempt = BnAttempts THEN "exhausted" ELSE "place"]

Mine == <<bnTask, IF bnCall.fits THEN bnCall.attempt ELSE 1>>
Conflict == bnCall.close /\ \E s \in bnStops : s.close

\* place_stop_loss: the rejections the venue owes first.
BnPlaceRejected(code) ==
    /\ At("place")
    /\ \/ code = "duplicate" /\ Mine \in bnUsed
       \/ code = "conflict" /\ Conflict
       \/ code = "reduce_only" /\ ~bnCall.close /\ bnSize = 0
       \/ code = "immediate"
    /\ IF code = "immediate" THEN Tell("skipped_immediate")
       ELSE Go(CASE code = "duplicate" -> "lookup"
                 [] code = "conflict" -> "conflict"
                 [] code = "reduce_only" -> "lookup_ro") /\ UNCHANGED bnTold
    /\ UNCHANGED <<bnSize, bnStops, bnTps, bnUsed, bnTask>>

\* An accepted request; each attempt of a call is meant to have its own id.
BnPlace(reply) ==
    /\ At("place") /\ Mine \notin bnUsed /\ ~Conflict
    /\ bnSize = 0 => ~BnDone(reply)
    /\ IF BnDone(reply)
       THEN /\ bnStops' = bnStops \cup {[task |-> bnTask, attempt |-> bnCall.attempt,
                                         close |-> bnCall.close]}
            /\ bnUsed' = bnUsed \cup {Mine}
       ELSE UNCHANGED <<bnStops, bnUsed>>
    /\ CASE Silent(reply) -> Tell("unanswered")
         [] reply = "ok" /\ ~bnCall.close /\ bnCall.old # NoStop ->
                Go("cancel_last") /\ UNCHANGED bnTold
         [] reply = "ok" /\ (bnCall.close \/ bnCall.old = NoStop) -> Tell("replaced")
         [] OTHER -> NextAttempt /\ UNCHANGED bnTold
    /\ UNCHANGED <<bnSize, bnTps, bnTask>>

\* _lookup_algo_by_client_id: the status of what it finds is not looked at.  A
\* reduce-only rejection (-2022) is among the codes taken for a duplicate id.
BnLookup(found) ==
    /\ At("lookup") \/ At("lookup_ro")
    /\ found => Mine \in bnUsed
    /\ CASE found /\ ~bnCall.close /\ bnCall.old # NoStop -> Go("cancel_last") /\ UNCHANGED bnTold
         [] found /\ (bnCall.close \/ bnCall.old = NoStop) -> Tell("replaced")
         [] ~found /\ At("lookup_ro") -> Go("classify") /\ UNCHANGED bnTold
         [] ~found /\ At("lookup") -> NextAttempt /\ UNCHANGED bnTold
    /\ UNCHANGED <<bnSize, bnStops, bnTps, bnUsed, bnTask>>

\* A closePosition stop is still on the book (-4130).
BnConflict(reply) ==
    /\ At("conflict") /\ ~Silent(reply)
    /\ LET cancels == bnCall.old # NoStop /\ ~bnCall.resolved
           gone == cancels /\ reply = "ok"
       IN  /\ gone => bnCall.old \in bnStops
           /\ bnStops' = IF cancels /\ BnDone(reply) THEN bnStops \ {bnCall.old} ELSE bnStops
           /\ CASE gone -> bnCall' = [bnCall EXCEPT !.resolved = TRUE, !.attempt = @ + 1,
                             !.pc = IF bnCall.attempt = BnAttempts THEN "exhausted" ELSE "place"]
                [] ~gone /\ bnCall.old # NoStop -> Go("exhausted")
                [] ~gone /\ bnCall.old = NoStop -> NextAttempt
    /\ UNCHANGED <<bnSize, bnTps, bnUsed, bnTask, bnTold>>

\* _classify_error of a reduce-only rejection: ask for the live position.  A
\* failed read is unknown, never flat.
\* Mutant: the failed read leaves "no position".
FailedReadIsFlat(read) == ~read \/ bnSize = 0

ReadFlat(read) == read /\ bnSize = 0

BnClassify(read) ==
    /\ At("classify")
    /\ IF ReadFlat(read) THEN Tell("skipped_flat") ELSE NextAttempt /\ UNCHANGED bnTold
    /\ UNCHANGED <<bnSize, bnStops, bnTps, bnUsed, bnTask>>

\* The attempts are used up: flat, or the queue has to escalate.
BnExhausted(read) ==
    /\ At("exhausted")
    /\ Tell(IF ReadFlat(read) THEN "skipped_flat" ELSE "critical")
    /\ UNCHANGED <<bnSize, bnStops, bnTps, bnUsed, bnTask>>

\* place-first: the old stop goes last; an API error is accepted.
BnCancelLast(reply) ==
    /\ At("cancel_last")
    /\ bnStops' = IF BnDone(reply) THEN bnStops \ {bnCall.old} ELSE bnStops
    /\ Tell(IF Silent(reply) THEN "unanswered" ELSE "replaced")
    /\ UNCHANGED <<bnSize, bnTps, bnUsed, bnTask>>

-----------------------------------------------------------------------------
\* cancel_and_replace_tp: a failing DELETE raises, so the new order is only
\* placed when the old one is known to be gone.
BnReplaceTp ==
    /\ At("idle") /\ bnTps # {} /\ bnTask < BnTasks
    /\ bnTask' = bnTask + 1 /\ bnTold' = "waiting"
    /\ bnCall' = [BnIdle EXCEPT !.pc = "tp_delete"]
    /\ UNCHANGED <<bnSize, bnStops, bnTps, bnUsed>>

BnTpDelete(reply) ==
    /\ At("tp_delete")
    /\ reply = "ok" => bnTps # {}
    /\ bnTps' = IF BnDone(reply) THEN {} ELSE bnTps
    /\ IF reply = "ok" THEN Go("tp_place") /\ UNCHANGED bnTold ELSE Tell("tp_raised")
    /\ UNCHANGED <<bnSize, bnStops, bnUsed, bnTask>>

BnTpPlace(reply) ==
    /\ At("tp_place")
    /\ bnSize = 0 => ~BnDone(reply)
    /\ bnTps' = IF BnDone(reply) THEN bnTps \cup {bnTask} ELSE bnTps
    /\ Tell(IF reply = "ok" THEN "tp_replaced" ELSE "tp_raised")
    /\ UNCHANGED <<bnSize, bnStops, bnUsed, bnTask>>

\* partial_close with the live quantity: flatten or manual close.
BnCloseAll(reply) ==
    /\ At("idle") /\ bnSize > 0
    /\ IF BnDone(reply) THEN Shrink(0) ELSE UNCHANGED <<bnSize, bnStops, bnTps>>
    /\ Tell(IF reply = "ok" THEN "closed" ELSE "close_raised")
    /\ UNCHANGED <<bnUsed, bnTask>>

\* emergency_market_close of the queue: the live size is read first, and a
\* failed read is taken for "no live position".
BnEmergency(read, reply) ==
    /\ At("idle") /\ bnTold \in {"critical", "unanswered"}
    /\ IF read /\ bnSize > 0
       THEN /\ IF BnDone(reply) THEN Shrink(0) ELSE UNCHANGED <<bnSize, bnStops, bnTps>>
            /\ Tell(IF reply = "ok" THEN "closed" ELSE "close_raised")
       ELSE Tell("emergency_skipped") /\ UNCHANGED <<bnSize, bnStops, bnTps>>
    /\ UNCHANGED <<bnUsed, bnTask>>

-----------------------------------------------------------------------------
BnNext ==
    \/ VenueStopFires \/ VenueTakesProfit
    \/ \E reply \in Replies :
        \/ \E n \in 0..BnQty : BnEntry(reply, n)
        \/ BnEntryStop(reply) \/ BnEntryTp(reply)
        \/ BnRollbackCancel(reply) \/ BnRollbackClose(reply)
        \/ BnCancelFirst(reply) \/ BnPlace(reply) \/ BnConflict(reply)
        \/ BnCancelLast(reply)
        \/ BnTpDelete(reply) \/ BnTpPlace(reply) \/ BnCloseAll(reply)
        \/ \E read \in BOOLEAN : BnEmergency(read, reply)
    \/ \E close, fits \in BOOLEAN, old \in bnStops \cup {NoStop, DeadStop} :
            BnReplace(close, old, fits)
    \/ \E code \in {"duplicate", "conflict", "reduce_only", "immediate"} : BnPlaceRejected(code)
    \/ \E yes \in BOOLEAN : BnLookup(yes) \/ BnClassify(yes) \/ BnExhausted(yes)
    \/ BnReplaceTp

BnSpec == BnInit /\ [][BnNext]_bnVars

-----------------------------------------------------------------------------
\* What a caller concludes from the end of a call is true at the venue, although
\* requests are carried out and reported as failed and orders fire in between:
\* an entered position has its stop; after cancel_and_replace_sl the position
\* has the new stop or is gone, and the queue is told to drop the task as
\* "already flat" only when it is flat; a replaced take profit is not there twice.
BinanceTellsTheTruth ==
    /\ bnTold = "entered" /\ bnSize > 0 => bnStops # {}
    /\ bnTold = "replaced" /\ bnSize > 0 => \E s \in bnStops : s.task = bnTask
    /\ bnTold = "skipped_flat" => bnSize = 0
    /\ bnTold = "tp_replaced" => Cardinality(bnTps) <= 1
=============================================================================
