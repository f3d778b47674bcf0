---------------------------- MODULE CcxtExecution ----------------------------
(***************************************************************************)
(* Placing a market order with protection through CcxtAdapter.  Every      *)
(* request is retried, a lost reply is followed by a look-up under the     *)
(* client order id, and on two of the four market kinds the stop and the   *)
(* target are orders of their own, sent after the entry and sized from     *)
(* what the adapter could find out about its fill.                         *)
(***************************************************************************)
EXTENDS Integers

CONSTANTS
    CxQty,       \* quantity ordered
    CxAttempts   \* settings.exchange_max_retries

\* SpotOrderCreate.amount: an order is for something.
ASSUME CxAssumption == CxQty \in Nat \ {0}

VARIABLES
    cxAsk,      \* the request
    cxPc,       \* where the call stands
    cxTry,      \* attempts of the current request, starting with 1
    cxSize,     \* quantity the protection will be sent with
    cxSent,     \* at the venue: orders accepted for the entry and each leg
    cxFilled,   \* quantity of the entry executed
    cxLegQty,   \* quantity of each leg at the venue
    cxTold      \* how the call ended

cxVars == <<cxAsk, cxPc, cxTry, cxSize, cxSent, cxFilled, cxLegQty, cxTold>>

Legs == {"sl", "tp"}
CxOrders == Legs \cup {"entry"}

CxAsks ==
    [venue : {"binance", "bybit"}, market : {"spot", "futures"},
     id : BOOLEAN, legs : SUBSET Legs, reduce : BOOLEAN]

CxInit ==
    /\ cxAsk \in {a \in CxAsks : (a.market = "spot" \/ a.legs # {}) => ~a.reduce}
    /\ cxPc = "idle" /\ cxTry = 1 /\ cxSize = 0 /\ cxFilled = 0
    /\ cxSent = [o \in CxOrders |-> 0]
    /\ cxLegQty = [l \in Legs |-> 0]
    /\ cxTold = "nothing"

\* The legs that are sent as orders of their own, after the entry; elsewhere
\* they travel with the entry and the venue sets them with it.
CxBrackets ==
    IF \/ cxAsk.venue = "binance" /\ cxAsk.market = "futures"
       \/ cxAsk.venue = "bybit" /\ cxAsk.market = "spot"
    THEN cxAsk.legs ELSE {}

\* Of the legs left to send, the stop comes first for Binance futures and the
\* take-profit for Bybit spot.
BinanceFuturesFirst(rest) == IF "sl" \in rest THEN "sl" ELSE "tp"
BybitSpotFirst(rest) == IF "tp" \in rest THEN "tp" ELSE "sl"

FirstLeg(rest) ==
    IF cxAsk.venue = "binance" THEN BinanceFuturesFirst(rest) ELSE BybitSpotFirst(rest)

CxEnd(how) ==
    /\ cxTold' = how /\ cxPc' = "done"
    /\ UNCHANGED <<cxAsk, cxTry, cxSize, cxSent, cxFilled, cxLegQty>>

CxGo(pc) ==
    /\ cxPc' = pc /\ cxTry' = 1
    /\ UNCHANGED <<cxAsk, cxSize, cxSent, cxFilled, cxLegQty, cxTold>>

(***************************************************************************)
(* load_markets, then isolated margin for futures (a reduce-only order on  *)
(* Binance leaves the mode alone).  Both repeat harmlessly, so a retried   *)
(* request either answered in the end or did not; "no need to change" and  *)
(* "not modified" answers count as done.                                   *)
(***************************************************************************)
CxOpenClient ==
    /\ cxPc = "idle"
    /\ \/ CxGo(IF cxAsk.market = "futures" /\ (cxAsk.venue = "bybit" \/ ~cxAsk.reduce)
               THEN "margin" ELSE "entry")
       \/ CxEnd("error")

CxIsolateMargin ==
    /\ cxPc = "margin"
    /\ \/ CxGo("entry")
       \/ CxEnd("error")

-----------------------------------------------------------------------------
(* create_order with retries.  Orders that carry a client id are accepted  *)
(* once; the children of an entry sent without one are named after the id  *)
(* the venue gave it.                                                      *)

\* Mutant: the children are sent without a client order id.
ChildrenUnnamed(order) == order = "entry" /\ cxAsk.id

HasClientId(order) == order # "entry" \/ cxAsk.id

Accepts(order) == ~(HasClientId(order) /\ cxSent[order] > 0)

\* An accepted order: legs that travel with the entry are set with it.
Accepted(order) ==
    /\ cxSent' = [cxSent EXCEPT ![order] = @ + 1]
    /\ cxLegQty' = [l \in Legs |->
           IF l = order THEN cxLegQty[l] + cxSize
           ELSE IF order = "entry" /\ CxBrackets = {} /\ l \in cxAsk.legs
           THEN cxLegQty[l] + CxQty ELSE cxLegQty[l]]

\* With legs to send, the quantity the entry bought comes first: Binance's
\* reply is completed from the listings before it is read.
AfterBinanceEntry == "hydrate"
AfterBybitEntry == "resolve"

NextLeg(order) ==
    LET rest == {l \in CxBrackets \ {order} : cxSent[l] = 0}
    IN  IF rest = {} THEN "return" ELSE FirstLeg(rest)

AfterCreate(order) ==
    IF order # "entry" THEN NextLeg(order)
    ELSE IF CxBrackets = {} THEN "return"
    ELSE IF cxAsk.venue = "binance" THEN AfterBinanceEntry ELSE AfterBybitEntry

\* Where the look-up for an order stands.
Finding(order) ==
    CASE order = "entry" -> "find_entry" [] order = "sl" -> "find_sl" [] OTHER -> "find_tp"

CxCreate(order) ==
    /\ cxPc = order
    /\ Accepts(order)
    /\ Accepted(order)
    /\ cxPc' = AfterCreate(order) /\ cxTry' = 1
    /\ UNCHANGED <<cxAsk, cxSize, cxFilled, cxTold>>

\* A rate limit, a timeout or a network error, before or after the venue acted.
CxTransient(order) ==
    /\ cxPc = order
    /\ \/ Accepts(order) /\ Accepted(order)
       \/ UNCHANGED <<cxSent, cxLegQty>>
    /\ IF cxTry < CxAttempts
       THEN cxTry' = cxTry + 1 /\ UNCHANGED <<cxPc, cxTold>>
       ELSE IF HasClientId(order)
       THEN cxPc' = Finding(order) /\ UNCHANGED <<cxTry, cxTold>>
       ELSE cxPc' = "done" /\ cxTold' = "error" /\ UNCHANGED cxTry
    /\ UNCHANGED <<cxAsk, cxSize, cxFilled>>

CxDuplicate(order) ==
    /\ cxPc = order
    /\ ~Accepts(order)
    /\ CxGo(Finding(order))

\* Every other refusal is raised as it is, without a look-up.
CxRejected(order) ==
    /\ cxPc = order
    /\ CxEnd("error")

\* Open orders, then closed ones; a listing that fails is passed over, so an
\* order that exists can stay unfound, but none is found that does not.
CxFind(order) ==
    /\ cxPc = Finding(order)
    /\ \/ cxSent[order] > 0 /\ CxGo(AfterCreate(order))
       \/ CxEnd("error")

-----------------------------------------------------------------------------
(* What was executed.                                                      *)

\* A market order fills in its own time, perhaps in part.
VenueFills ==
    /\ cxSent["entry"] > 0 /\ cxFilled < CxQty
    /\ cxFilled' = cxFilled + 1
    /\ UNCHANGED <<cxAsk, cxPc, cxTry, cxSize, cxSent, cxLegQty, cxTold>>

\* A row is merged over the reply of the entry and completed from the trades.
\* Without either the order counts as unfilled.  A row that lists the order
\* with its fields ends the four rounds whatever its fill.
Hydrated == {0, cxFilled}

CxHydrate ==
    /\ cxPc = "hydrate"
    /\ \E filled \in Hydrated :
           /\ cxPc' = IF filled > 0 THEN FirstLeg(CxBrackets) ELSE "resolve"
           /\ cxSize' = filled
    /\ UNCHANGED <<cxAsk, cxTry, cxSent, cxFilled, cxLegQty, cxTold>>

\* The reply's own fill, else the trades, else the quantity ordered.
ResolveFilledAmountFast == {IF seen > 0 THEN seen ELSE CxQty : seen \in {0, cxFilled}}

CxResolve ==
    /\ cxPc = "resolve"
    /\ cxSize' \in ResolveFilledAmountFast
    /\ cxPc' = FirstLeg(CxBrackets)
    /\ UNCHANGED <<cxAsk, cxTry, cxSent, cxFilled, cxLegQty, cxTold>>

CxReturn == cxPc = "return" /\ CxEnd("placed")

CxDone == cxPc = "done" /\ UNCHANGED cxVars

CxNext ==
    \/ CxOpenClient
    \/ CxIsolateMargin
    \/ \E order \in CxOrders :
           \/ CxCreate(order)
           \/ CxTransient(order)
           \/ CxDuplicate(order)
           \/ CxRejected(order)
           \/ CxFind(order)
    \/ VenueFills
    \/ CxHydrate
    \/ CxResolve
    \/ CxReturn
    \/ CxDone

CxSpec == CxInit /\ [][CxNext]_cxVars

-----------------------------------------------------------------------------
\* An order placed under a client id is at the venue at most once, however
\* often create_order was retried and whatever the look-up found, and so is
\* each of its legs.  When the call returns an order, the entry is there and
\* so is every leg that was asked for, in a quantity the order can have bought.
PlacedOnce ==
    /\ cxAsk.id => cxSent["entry"] <= 1
    /\ \A l \in Legs : cxSent[l] <= 1
    /\ cxTold = "placed" =>
           /\ cxSent["entry"] > 0
           /\ \A l \in cxAsk.legs : cxLegQty[l] \in 1..(CxQty * cxSent["entry"])
=============================================================================
