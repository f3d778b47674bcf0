----------------------------- MODULE BybitAdapter ----------------------------
(***************************************************************************)
(* The trading calls of BybitAdapter on one symbol.  Bybit keeps "Full"    *)
(* protection as fields of the position (one stop, one take profit, one    *)
(* trailing stop) and "Partial" protection as orders with an id; the       *)
(* adapter names the former by the symbol alone.  A request may be carried *)
(* out and still end in an error or in silence, and the venue acts between *)
(* two requests.                                                           *)
(***************************************************************************)
EXTENDS Integers, FiniteSets

CONSTANTS
    ByQty,      \* quantity of an entry
    ByPrices,   \* trigger prices
    ByTasks     \* bound: placements, replacements and entries

\* A price of 0 stands for a protection that is not set.
ASSUME ByAssumption == ByQty \in Nat /\ ByPrices \subseteq Nat \ {0}

VARIABLES
    bySize,    \* live position
    byFull,    \* position-level protection: type -> price, 0 when unset
    byParts,   \* partial orders: [id, type, price]
    byCount,   \* calls that placed something so far; also names their orders
    byCall,    \* the call under way
    byTold     \* how the last call ended, as its caller sees it

byVars == <<bySize, byFull, byParts, byCount, byCall, byTold>>

Types == {"stop_loss", "take_profit", "trailing_stop"}
Bare == [t \in Types |-> 0]
ByIdle == [pc |-> "idle"]
Said(what) == [what |-> what, id |-> 0, price |-> 0, saw |-> {}]

ByInit ==
    /\ bySize = 0 /\ byFull = Bare /\ byParts = {} /\ byCount = 0
    /\ byCall = ByIdle /\ byTold = Said("nothing")

\* As in BinanceAdapter: errors are BybitAPIError, silence is a network error.
ByReplies == {"ok", "error_done", "error", "silent_done", "silent"}
ByDone(reply) == reply \in {"ok", "error_done", "silent_done"}
BySilent(reply) == reply \in {"silent_done", "silent"}

ByTell(said) == byTold' = said /\ byCall' = ByIdle
Ready == byCall.pc = "idle"
Fresh == byCount < ByTasks /\ byCount' = byCount + 1

ByShrink(n) ==
    /\ bySize' = n
    /\ IF n = 0 THEN byFull' = Bare /\ byParts' = {} ELSE UNCHANGED <<byFull, byParts>>

\* The venue: full protection takes the whole position, a partial order a unit.
\* An answer about a stop is over when that stop fires.
ByFullFires ==
    /\ \E t \in Types : byFull[t] > 0
    /\ ByShrink(0)
    /\ UNCHANGED <<byCount, byCall, byTold>>

ByPartFires(o) ==
    /\ IF bySize = 1 THEN ByShrink(0)
       ELSE bySize' = bySize - 1 /\ byParts' = byParts \ {o} /\ UNCHANGED byFull
    /\ byTold' = IF o.type = "stop_loss" /\ o.price = byTold.price THEN Said("stop_fired") ELSE byTold
    /\ UNCHANGED <<byCount, byCall>>

-----------------------------------------------------------------------------
\* place_entry_order: one request opens the position and sets its full protection.
ByEntry(reply, n, sl, tp) ==
    /\ Ready /\ bySize = 0 /\ Fresh
    /\ IF ByDone(reply)
       THEN /\ bySize' = n
            /\ byFull' = IF n = 0 THEN Bare
                         ELSE [Bare EXCEPT !["stop_loss"] = sl, !["take_profit"] = tp]
       ELSE UNCHANGED <<bySize, byFull>>
    /\ ByTell(IF reply = "ok" THEN [Said("entered") EXCEPT !.price = sl] ELSE Said("raised"))
    /\ UNCHANGED byParts

\* place_stop_loss, place_trailing_stop: full protection, an older one is replaced.
ByPlaceFull(type, p, reply) ==
    /\ Ready /\ bySize > 0 /\ type # "take_profit"
    /\ Fresh
    /\ byFull' = IF ByDone(reply) THEN [byFull EXCEPT ![type] = p] ELSE byFull
    /\ ByTell(IF reply = "ok" THEN Said("placed") ELSE Said("raised"))
    /\ UNCHANGED <<bySize, byParts>>

\* place_take_profit: a partial order of its own.
ByPlaceTp(p, reply) ==
    /\ Ready /\ bySize > 0 /\ Fresh
    /\ byParts' = IF ByDone(reply)
                  THEN byParts \cup {[id |-> byCount', type |-> "take_profit", price |-> p]}
                  ELSE byParts
    /\ ByTell(IF reply = "ok" THEN Said("placed") ELSE Said("raised"))
    /\ UNCHANGED <<bySize, byFull>>

-----------------------------------------------------------------------------
\* cancel_and_replace_sl: trading-stop moves the full stop, or adds a partial
\* one; after an API error the order it was given is amended instead.
ByReplaceSl(close, p, reply, old) ==
    /\ Ready /\ bySize > 0 /\ Fresh
    /\ \A o \in byParts : o.id = old => o.type = "stop_loss"
    /\ byFull' = IF close /\ ByDone(reply) THEN [byFull EXCEPT !["stop_loss"] = p] ELSE byFull
    /\ byParts' = IF ~close /\ ByDone(reply)
                  THEN byParts \cup {[id |-> byCount', type |-> "stop_loss", price |-> p]}
                  ELSE byParts
    /\ CASE reply = "ok" -> ByTell([Said("sl_replaced") EXCEPT !.price = p])
         [] BySilent(reply) -> ByTell(Said("raised"))
         [] OTHER -> /\ byCall' = [pc |-> "amend", price |-> p, old |-> old]
                     /\ UNCHANGED byTold
    /\ UNCHANGED bySize

Amended(o) == [o EXCEPT !.price = byCall.price]

\* Position-level protection has no order id the venue would know.
ByAmendSl(reply) ==
    /\ byCall.pc = "amend"
    /\ LET hit == {o \in byParts : o.id = byCall.old}
       IN  /\ reply = "ok" => hit # {}
           /\ byParts' = IF ByDone(reply) THEN (byParts \ hit) \cup {Amended(o) : o \in hit}
                         ELSE byParts
    /\ ByTell(IF reply = "ok" THEN [Said("sl_amended") EXCEPT !.price = byCall.price]
              ELSE Said("raised"))
    /\ UNCHANGED <<bySize, byFull, byCount>>

\* cancel_and_replace_tp: an order that is not found, and a failed query, count
\* as full mode; in partial mode the result of the cancel is not looked at.
ByReplaceTp(p, old, known) ==
    /\ Ready /\ bySize > 0 /\ Fresh
    /\ known => \E o \in byParts : o.id = old /\ o.type = "take_profit"
    /\ byCall' = [pc |-> IF known THEN "tp_cancel" ELSE "tp_full", price |-> p, old |-> old]
    /\ UNCHANGED <<bySize, byFull, byParts, byTold>>

ByTpCancel(reply) ==
    /\ byCall.pc = "tp_cancel"
    /\ byParts' = IF ByDone(reply) THEN {o \in byParts : o.id # byCall.old} ELSE byParts
    /\ IF BySilent(reply) THEN ByTell(Said("raised"))
       ELSE byCall' = [byCall EXCEPT !.pc = "tp_place"] /\ UNCHANGED byTold
    /\ UNCHANGED <<bySize, byFull, byCount>>

ByTpPlace(reply) ==
    /\ byCall.pc = "tp_place"
    /\ bySize = 0 => ~ByDone(reply)
    /\ byParts' = IF ByDone(reply)
                  THEN byParts \cup {[id |-> byCount, type |-> "take_profit",
                                      price |-> byCall.price]}
                  ELSE byParts
    /\ ByTell(IF reply = "ok" THEN Said("tp_replaced") ELSE Said("raised"))
    /\ UNCHANGED <<bySize, byFull, byCount>>

ByTpFull(reply) ==
    /\ byCall.pc = "tp_full"
    /\ bySize = 0 => ~ByDone(reply)
    /\ byFull' = IF ByDone(reply) THEN [byFull EXCEPT !["take_profit"] = byCall.price] ELSE byFull
    /\ ByTell(IF reply = "ok" THEN Said("tp_replaced") ELSE Said("raised"))
    /\ UNCHANGED <<bySize, byParts, byCount>>

-----------------------------------------------------------------------------
\* cancel_conditional_order by the symbol's name of a full protection ...
ByCancelFull(type, reply) ==
    /\ Ready
    /\ byFull' = IF ByDone(reply) THEN [byFull EXCEPT ![type] = 0] ELSE byFull
    /\ ByTell(CASE reply = "ok" -> Said("cancelled")
                [] BySilent(reply) -> Said("raised")
                [] OTHER -> Said("not_cancelled"))
    /\ UNCHANGED <<bySize, byParts, byCount>>

\* ... and by the id of a partial order.
ByCancelPart(o, reply) ==
    /\ Ready
    /\ byParts' = IF ByDone(reply) THEN byParts \ {o} ELSE byParts
    /\ ByTell(CASE reply = "ok" -> [Said("cancelled") EXCEPT !.id = o.id]
                [] BySilent(reply) -> Said("raised")
                [] OTHER -> Said("not_cancelled"))
    /\ UNCHANGED <<bySize, byFull, byCount>>

\* clear_symbol_conditional_orders: two requests, API errors suppressed.
ByClearFull(reply) ==
    /\ Ready
    /\ byFull' = IF ByDone(reply) THEN Bare ELSE byFull
    /\ IF BySilent(reply) THEN ByTell(Said("raised"))
       ELSE byCall' = [pc |-> "clear_orders"] /\ UNCHANGED byTold
    /\ UNCHANGED <<bySize, byParts, byCount>>

ByClearOrders(reply) ==
    /\ byCall.pc = "clear_orders"
    /\ byParts' = IF ByDone(reply) THEN {} ELSE byParts
    /\ ByTell(Said(IF BySilent(reply) THEN "raised" ELSE "cleared"))
    /\ UNCHANGED <<bySize, byFull, byCount>>

\* partial_close: market, reduce-only.
ByClose(n, reply) ==
    /\ Ready /\ n \in 1..bySize
    /\ IF ByDone(reply) THEN ByShrink(bySize - n) ELSE UNCHANGED <<bySize, byFull, byParts>>
    /\ ByTell(Said(IF reply = "ok" THEN "closed" ELSE "raised"))
    /\ UNCHANGED byCount

-----------------------------------------------------------------------------
\* get_open_conditional_orders reads the orders, then the position.
ByListOrders ==
    /\ Ready
    /\ byCall' = [pc |-> "list", orders |-> {<<o.type, o.price>> : o \in byParts}]
    /\ UNCHANGED <<bySize, byFull, byParts, byCount, byTold>>

\* Mutant: a position-level protection is dropped when any order has its type.
ListedByType(orders, full) ==
    orders \cup {<<t, full[t]>> : t \in {u \in Types : full[u] > 0 /\ \A o \in orders : o[1] # u}}

\* Duplicates by type and price are listed once.
Listed(orders, full) == orders \cup {<<t, full[t]>> : t \in {u \in Types : full[u] > 0}}

ByListPosition ==
    /\ byCall.pc = "list"
    /\ ByTell([Said("listed") EXCEPT !.saw = Listed(byCall.orders, byFull)])
    /\ UNCHANGED <<bySize, byFull, byParts, byCount>>

-----------------------------------------------------------------------------
ByNext ==
    \/ ByFullFires
    \/ \E o \in byParts : ByPartFires(o)
    \/ ByListOrders \/ ByListPosition
    \/ \E reply \in ByReplies :
        \/ \E n \in 0..ByQty, sl \in ByPrices, tp \in ByPrices \cup {0} : ByEntry(reply, n, sl, tp)
        \/ \E t \in Types, p \in ByPrices : ByPlaceFull(t, p, reply)
        \/ \E p \in ByPrices : ByPlaceTp(p, reply)
        \/ \E close \in BOOLEAN, p \in ByPrices, old \in 0..byCount :
                ByReplaceSl(close, p, reply, old)
        \/ ByAmendSl(reply) \/ ByTpCancel(reply) \/ ByTpPlace(reply) \/ ByTpFull(reply)
        \/ \E t \in Types : ByCancelFull(t, reply)
        \/ \E o \in byParts : ByCancelPart(o, reply)
        \/ ByClearFull(reply) \/ ByClearOrders(reply)
        \/ \E n \in 1..ByQty : ByClose(n, reply)
    \/ \E p \in ByPrices, old \in 0..byCount, known \in BOOLEAN : ByReplaceTp(p, old, known)

BySpec == ByInit /\ [][ByNext]_byVars

-----------------------------------------------------------------------------
Stops == {o.price : o \in {q \in byParts : q.type = "stop_loss"}} \cup {byFull["stop_loss"]}

\* What a caller concludes from the end of a call is true at the venue: after
\* cancel_and_replace_sl, by either of its two requests, a live position has a
\* stop at the new price until that stop fires; a cancelled order is gone; and
\* the list the re-sync works from, put together from two reads, contains every
\* protection the position has, whatever mixture of full and partial ones that is.
BybitTellsTheTruth ==
    LET told == byTold.what
    IN  /\ told \in {"entered", "sl_replaced", "sl_amended"} /\ Ready /\ bySize > 0 => byTold.price \in Stops
        /\ told = "cancelled" => \A o \in byParts : o.id # byTold.id
        /\ told = "listed" /\ Ready =>
             /\ \A t \in Types : byFull[t] > 0 => <<t, byFull[t]>> \in byTold.saw
             /\ \A o \in byParts : <<o.type, o.price>> \in byTold.saw
=============================================================================
