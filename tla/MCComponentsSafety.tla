------------------------- MODULE MCComponentsSafety -------------------------
(***************************************************************************)
(* The components whose promises are about what may never happen, side by  *)
(* side for TLC: a behaviour is one of the component that `part` names,    *)
(* while the others rest in a first state.  They share no variable.        *)
(***************************************************************************)
EXTENDS SLPipeline, BinanceAdapter, BybitAdapter, CcxtExecution, LedgerSync, IncomeSync,
        Accounts, StrategyAlerts, PreTradeRisk, LivePaper, AiOverlay

VARIABLES
    part,
    size, tpLive, slLive, inbox, up, warm, connected, machine, qty, status, ids, dispatched,
    slId, handler, reconciler, sync, tasks, inFlight, placed, losses, manual, applied

ladderVars ==
    <<size, tpLive, slLive, inbox, up, warm, connected, machine, qty, status, ids, dispatched,
      slId, handler, reconciler, sync, tasks, inFlight, placed, losses, manual, applied>>

\* A ladder of three levels that close 2, 1 and 1 of 4 units, on a calm
\* exchange: no call fails, no message is lost, the order event comes before
\* the position event, and the user cuts the position only to nothing.
Ladder == INSTANCE PositionTracking WITH
    Close <- <<2, 1, 1>>, Original <- 4,
    Deliveries <- {<<"o", "p">>, <<"o", "o", "p">>}, Addressed <- BOOLEAN,
    Faults <- {}, ManualCuts <- {}, MaxManual <- 1, MaxLosses <- 0, MaxInbox <- 3

\* The portfolio: six strategies on two symbols, one without risk limits, one
\* that posts twice the margin, one configured above its leverage ceiling.
MCConfigs == {"a", "b", "c", "d", "e", "f"}
MCGuarded == MCConfigs \ {"e"}
MCSymbol == [c \in MCConfigs |-> IF c \in {"d", "e"} THEN "y" ELSE "x"]
MCSize == [c \in MCConfigs |-> IF c = "b" THEN 2 ELSE 1]

\* A price that falls, results of either sign, trades of two strategies that
\* close in different candles, a narrow ATR range, an RSI watcher.
MCPrices == <<2, 1>>
MCPnls == {-2, 1}
MCTrades == [strategy : {"s"}, exit : {1, 2, 4}] \cup [strategy : {"r"}, exit : {2, 3}]
MCRange == <<80, 120>>
MCWatcher == <<2, 70>>

\* Where the components with several first states rest.
Resting ==
    /\ part # "rules" => side = "long" /\ orderId = 1
    /\ part # "execution" =>
          cxAsk = [venue |-> "binance", market |-> "spot", id |-> TRUE, legs |-> {}, reduce |-> FALSE]
    /\ part # "paper" => lpProfile.strategy = "s"

SafetyInit ==
    /\ part \in {"rules", "ladder", "binance", "bybit", "execution", "ledger", "income",
                 "accounts", "alerts", "risk", "paper", "overlay"}
    /\ Init /\ Ladder!Init /\ BnInit /\ ByInit /\ CxInit /\ LgInit /\ IcInit
    /\ AcInit /\ AlInit /\ PrInit /\ LpInit /\ OvInit
    /\ Resting

RestBut(name) ==
    /\ part = name /\ UNCHANGED part
    /\ IF name = "rules" THEN TRUE ELSE UNCHANGED vars
    /\ IF name = "ladder" THEN TRUE ELSE UNCHANGED ladderVars
    /\ IF name = "binance" THEN TRUE ELSE UNCHANGED bnVars
    /\ IF name = "bybit" THEN TRUE ELSE UNCHANGED byVars
    /\ IF name = "execution" THEN TRUE ELSE UNCHANGED cxVars
    /\ IF name = "ledger" THEN TRUE ELSE UNCHANGED lgVars
    /\ IF name = "income" THEN TRUE ELSE UNCHANGED icVars
    /\ IF name = "accounts" THEN TRUE ELSE UNCHANGED acVars
    /\ IF name = "alerts" THEN TRUE ELSE UNCHANGED alVars
    /\ IF name = "risk" THEN TRUE ELSE UNCHANGED prVars
    /\ IF name = "paper" THEN TRUE ELSE UNCHANGED lpVars
    /\ IF name = "overlay" THEN TRUE ELSE UNCHANGED ovVars

SafetyNext ==
    \/ RestBut("rules") /\ Next
    \/ RestBut("ladder") /\ Ladder!Next
    \/ RestBut("binance") /\ BnNext
    \/ RestBut("bybit") /\ ByNext
    \/ RestBut("execution") /\ CxNext
    \/ RestBut("ledger") /\ LgNext
    \/ RestBut("income") /\ IcNext
    \/ RestBut("accounts") /\ AcNext
    \/ RestBut("alerts") /\ AlNext
    \/ RestBut("risk") /\ PrNext
    \/ RestBut("paper") /\ LpNext
    \/ RestBut("overlay") /\ OvNext

SafetySpec ==
    SafetyInit /\ [][SafetyNext]_<<part, vars, ladderVars, bnVars, byVars, cxVars, lgVars,
                                  icVars, acVars, alVars, prVars, lpVars, ovVars>>

-----------------------------------------------------------------------------
\* Between two handlers the ladder's quantities and its status agree with the
\* exchange; a closed context means a flat position with no order left behind.
LadderBooksAgree == Ladder!ClosedIsFlat /\ Ladder!QuantityAgrees /\ Ladder!ClosedIsClean

\* The adapters' answers are true of the venue.
AdaptersTellTheTruth == BinanceTellsTheTruth /\ BybitTellsTheTruth

\* No trade and no payment older than the newest stored one is missing.
BooksHaveNoHoles == LedgerHasNoHoles /\ FundingHasNoHoles
=============================================================================
