----------------------------- MODULE SLPipeline -----------------------------
(***************************************************************************)
(* The realtime stop-loss pipeline of one open position: the rules         *)
(* (app/services/sl_tp/trailing.py, breakeven.py, volatility.py), the      *)
(* choice between them (pipeline.py), the tick driver that books the       *)
(* result before it is dispatched (live_tracker.py), and the replacement   *)
(* of the stop order on the exchange, place first and cancel last          *)
(* (app/services/exchange/binance_adapter.py).                             *)
(*                                                                         *)
(* Prices are integers; a stop is a price.                                 *)
(***************************************************************************)
EXTENDS Integers, Sequences, FiniteSets

CONSTANTS
    Prices,       \* closing prices a tick may carry
    Atrs,         \* ATR values the buffer may yield; 0 = buffer too short
    Entry,        \* entry_price
    Risk,         \* distance of the first stop from the entry
    Rules,        \* enabled sources, a subset of {"trailing", "breakeven", "volatility"}
    Callback,     \* trailing_callback_rate, in percent
    TriggerRr,    \* breakeven_trigger_rr
    Multiplier,   \* volatility_atr_multiplier
    CancelFails,  \* whether the cancel of a replaced order may fail
    Throttle,     \* DEFAULT_THROTTLE_SECONDS, in clock units
    MaxClock,     \* bound: clock
    MaxOrders     \* bound: stop orders placed

Sides == {"long", "short"}

ASSUME PipelineAssumption ==
    /\ Prices \subseteq Nat \ {0} /\ Atrs \subseteq Nat
    /\ Entry \in Nat \ {0} /\ Risk \in 1 .. Entry
    /\ Rules \subseteq {"trailing", "breakeven", "volatility"}
    /\ Callback \in 1 .. 99 /\ TriggerRr \in Nat \ {0} /\ Multiplier \in Nat \ {0}
    /\ CancelFails \in BOOLEAN
    /\ Throttle \in Nat /\ MaxClock \in Nat /\ MaxOrders \in Nat \ {0}

VARIABLES
    side,        \* the position's side
    sl,          \* current_sl_price
    peak,        \* trailing_highest_price or trailing_lowest_price; 0 = not set
    activated,   \* breakeven_activated
    orderId,     \* sl_exchange_order_id; 0 = none
    live,        \* the exchange's stop orders: [id, price]
    nextId,
    replacing,   \* queued replace_sl tasks: [existing, price]
    step,        \* of the executing one: "place" or "cancel"
    now, lastAt  \* the clock, _last_adjustment_at

vars == <<side, sl, peak, activated, orderId, live, nextId, replacing, step, now, lastAt>>

\* a protects better than b.
Better(a, b) == IF side = "long" THEN a > b ELSE a < b
Beyond(base, d) == IF side = "long" THEN base + d ELSE base - d

FirstStop(s) == IF s = "long" THEN Entry - Risk ELSE Entry + Risk
Orders == [id : 1 .. MaxOrders, price : Int]

TypeOK ==
    /\ side \in Sides
    /\ sl \in Int
    /\ peak \in Nat
    /\ activated \in BOOLEAN
    /\ orderId \in 0 .. MaxOrders
    /\ live \subseteq Orders
    /\ nextId \in 2 .. MaxOrders + 1
    /\ replacing \in Seq([existing : 1 .. MaxOrders, price : Int])
    /\ step \in {"place", "cancel"}
    /\ now \in 0 .. MaxClock
    /\ lastAt \in Int

\* The position is open; its first stop is on the exchange, and the success
\* callback has or has not stored the order's id yet.
Init ==
    /\ side \in Sides
    /\ sl = FirstStop(side)
    /\ peak = 0 /\ activated = FALSE
    /\ orderId \in {0, 1}
    /\ live = {[id |-> 1, price |-> FirstStop(side)]}
    /\ nextId = 2
    /\ replacing = <<>> /\ step = "place"
    /\ now = 0 /\ lastAt = 0 - Throttle
-----------------------------------------------------------------------------
(* The rules: the set of at most one candidate stop each. *)

NewPeak(price) ==
    LET base == IF peak = 0 THEN Entry ELSE peak
    IN  IF Better(price, base) THEN price ELSE base

TrailingStop(p) == (p * (IF side = "long" THEN 100 - Callback ELSE 100 + Callback)) \div 100

\* Mutant: the trailing rule follows the price back.
Trailing_unguarded(price) == {s \in {TrailingStop(price)} : "trailing" \in Rules}

Trailing(price) ==
    {s \in {TrailingStop(NewPeak(price))} : "trailing" \in Rules /\ Better(s, sl)}

Distance(a, b) == IF a > b THEN a - b ELSE b - a

\* A one-time move to the entry; where the stop is now does not matter.
Breakeven(price) ==
    {s \in {Entry} :
        /\ "breakeven" \in Rules /\ ~activated
        /\ ~Better(Beyond(Entry, Distance(Entry, sl) * TriggerRr), price)}

Volatility(atr) ==
    {s \in {Beyond(Entry, 0 - atr * Multiplier)} :
        "volatility" \in Rules /\ atr # 0 /\ Better(s, sl)}

\* SLAdjustmentPipeline.evaluate: the most protective candidate.
Candidates(price, atr) ==
    {[stop |-> s, by |-> "trailing"] : s \in Trailing(price)}
      \cup {[stop |-> s, by |-> "breakeven"] : s \in Breakeven(price)}
      \cup {[stop |-> s, by |-> "volatility"] : s \in Volatility(atr)}

Chosen(cs) == {c \in cs : \A d \in cs : ~Better(d.stop, c.stop)}
-----------------------------------------------------------------------------
\* _dispatch_replace_sl's early return.
Dispatchable == orderId # 0

\* on_tick for this position: when the cooldown is over and some rule moves the
\* stop, the new price is booked first and dispatched if an order id is known.
\* A task for the same price is already pending under the same key.
Tick(price, atr) ==
    /\ now - lastAt >= Throttle
    /\ \E c \in Chosen(Candidates(price, atr)) :
         /\ sl' = c.stop
         /\ peak' = IF c.by = "trailing" THEN NewPeak(price) ELSE peak
         /\ activated' = (activated \/ c.by = "breakeven")
    /\ lastAt' = now
    /\ replacing' = IF ~Dispatchable \/ \E i \in DOMAIN replacing : replacing[i].price = sl'
                    THEN replacing
                    ELSE Append(replacing, [existing |-> orderId, price |-> sl'])
    /\ UNCHANGED <<side, orderId, live, nextId, step, now>>

\* The callback of the first stop.
StoreOrderId ==
    /\ orderId = 0
    /\ orderId' = 1
    /\ UNCHANGED <<side, sl, peak, activated, live, nextId, replacing, step, now, lastAt>>

Done == replacing' = Tail(replacing) /\ step' = "place"

\* Mutant: the old order is cancelled before the new one is placed.
Standing_cancelFirst(t) == {o \in live : o.id # t.existing}

\* What is on the book when the new order is sent: the old one too.
Standing(t) == live

\* cancel_and_replace_sl (close_position = False).  A rejected placement leaves
\* what was standing; its escalation is OrderQueue's.
PlaceReplacement ==
    /\ replacing # <<>> /\ step = "place"
    /\ \/ /\ nextId <= MaxOrders
          /\ live' = Standing(Head(replacing))
                       \cup {[id |-> nextId, price |-> Head(replacing).price]}
          /\ nextId' = nextId + 1
          /\ step' = "cancel"
          /\ UNCHANGED replacing
       \/ live' = Standing(Head(replacing)) /\ Done /\ UNCHANGED nextId
    /\ UNCHANGED <<side, sl, peak, activated, orderId, now, lastAt>>

\* The best-effort cancel; there is no success callback, so orderId stays.
CancelReplaced ==
    /\ step = "cancel"
    /\ \/ live' = {o \in live : o.id # Head(replacing).existing}
       \/ CancelFails /\ UNCHANGED live
    /\ Done
    /\ UNCHANGED <<side, sl, peak, activated, orderId, nextId, now, lastAt>>

Advance ==
    /\ now < MaxClock
    /\ now' = now + 1
    /\ UNCHANGED <<side, sl, peak, activated, orderId, live, nextId, replacing, step, lastAt>>

Next ==
    \/ \E price \in Prices, atr \in Atrs : Tick(price, atr)
    \/ StoreOrderId \/ PlaceReplacement \/ CancelReplaced \/ Advance

Spec == Init /\ [][Next]_vars
-----------------------------------------------------------------------------
(* Properties. *)

\* With every rule on, the booked stop moves back at most once in the life of
\* the position: by the one-time breakeven, and then no further than the entry.
LoosenedOnceToEntry ==
    [][Better(sl, sl') => sl' = Entry /\ ~activated /\ activated']_<<sl, activated>>

\* On the exchange the protection never weakens either: every stop that is on
\* the book is still matched or bettered by one after the step, so there is
\* always one.
ProtectionNeverWeakens ==
    [][\A o \in live : \E n \in live' : ~Better(o.price, n.price)]_live

(* Expectations stated in the source that TLC refutes (README, section 3.4). *)

\* The booked stop never moves away from the price ("the pipeline itself only
\* returns adjustments that are *more protective* than the current SL").
SlNeverLoosened == [][~Better(sl, sl')]_sl

\* When no replacement is under way there is one stop order ("the position
\* transiently has two").
OneStopAtRest == replacing = <<>> => Cardinality(live) <= 1
=============================================================================
