----------------------------- MODULE PreTradeRisk -----------------------------
(***************************************************************************)
(* The pre-trade risk engine over the portfolio of one user: workers take  *)
(* signals of different strategies, judge each against the positions that  *)
(* are open, and open a position some time later.  The check and the open  *)
(* are not one transaction.                                                *)
(***************************************************************************)
EXTENDS Integers, FiniteSets, FiniteSetsExt

CONSTANTS
    PrConfigs,      \* strategies, one account each
    PrGuarded,      \* the ones with an enabled risk row
    PrSymbol,       \* the symbol each trades
    PrSize,         \* the margin each posts
    PrOverCeiling,  \* the ones configured above their leverage ceiling
    PrWorkers,      \* workers processing signals
    PrMaxOpen,      \* max_open_positions
    PrMaxSymbol,    \* max_open_positions_per_symbol
    PrCap           \* exposure_cap_usdt

ASSUME RiskAssumption ==
    /\ IsFiniteSet(PrConfigs) /\ PrConfigs # {} /\ PrGuarded \subseteq PrConfigs
    /\ IsFiniteSet(PrWorkers) /\ PrWorkers # {}
    /\ PrSize \in [PrConfigs -> Nat]
    /\ PrMaxOpen \in Nat /\ PrMaxSymbol \in Nat /\ PrCap \in Nat

VARIABLES
    prOpen,    \* the side of each strategy's open position, or "none"
    prGate     \* the entry each worker has let through and not yet opened

prVars == <<prOpen, prGate>>

PrSides == {"LONG", "SHORT"}
Losses == {"none", "percent", "both"}
PrIdle == [config |-> "none", side |-> "none"]

PrInit ==
    /\ prOpen = [c \in PrConfigs |-> "none"]
    /\ prGate = [w \in PrWorkers |-> PrIdle]

HeldBy(cs) == {c \in cs : prOpen[c] # "none"}
PrExposure(cs) == MapThenSumSet(LAMBDA c : PrSize[c], HeldBy(cs))

-----------------------------------------------------------------------------
(* The rules, over every open position of the user.                        *)

LeverageExceeded(c) == c \in PrOverCeiling

\* Mutant: the limit itself is let through.
MaxOpenExceeded(c) == Cardinality(HeldBy(PrConfigs)) > PrMaxOpen

MaxOpenReached(c) == Cardinality(HeldBy(PrConfigs)) >= PrMaxOpen

SymbolLimitReached(c) ==
    Cardinality({o \in HeldBy(PrConfigs) : PrSymbol[o] = PrSymbol[c]}) >= PrMaxSymbol

ConflictingSignal(c, side) ==
    \E o \in HeldBy(PrConfigs) : PrSymbol[o] = PrSymbol[c] /\ prOpen[o] # side

ExposureExceeded(c) == PrExposure(PrConfigs) + PrSize[c] > PrCap

\* The strategy's loss of the day, booked by LedgerSync, against the amount and
\* the percent limit; the latter needs the balance, without it the entry passes.
DailyLossReached(loss, balanceKnown) ==
    loss = "both" \/ (loss = "percent" /\ balanceKnown)

\* check_pre_trade: no row, or a disabled one, allows.
CheckPreTrade(c, side, loss, balanceKnown) ==
    c \in PrGuarded =>
        /\ ~LeverageExceeded(c)
        /\ ~MaxOpenReached(c) /\ ~SymbolLimitReached(c)
        /\ ~ConflictingSignal(c, side)
        /\ ~ExposureExceeded(c)
        /\ ~DailyLossReached(loss, balanceKnown)

-----------------------------------------------------------------------------
(* The entry path, and what happens around it.                             *)

\* evaluate_pre_trade_risk for a strategy that holds nothing and that no other
\* worker has taken; a refused entry changes no position.
EvaluateEntry(w, c, side, loss, balanceKnown) ==
    /\ prGate[w] = PrIdle /\ prOpen[c] = "none"
    /\ \A v \in PrWorkers : prGate[v].config # c
    /\ CheckPreTrade(c, side, loss, balanceKnown)
    /\ prGate' = [prGate EXCEPT ![w] = [config |-> c, side |-> side]]
    /\ UNCHANGED prOpen

\* The order is placed and its position stored, or the entry fails.
EntryEnds(w, opened) ==
    /\ prGate[w] # PrIdle
    /\ prOpen' = IF opened THEN [prOpen EXCEPT ![prGate[w].config] = prGate[w].side] ELSE prOpen
    /\ prGate' = [prGate EXCEPT ![w] = PrIdle]

PositionCloses(c) ==
    /\ prOpen[c] # "none"
    /\ prOpen' = [prOpen EXCEPT ![c] = "none"]
    /\ UNCHANGED prGate

\* precheck_manual_order asks the same engine; the order it lets through is a
\* spot order, which opens no position here.
PrecheckManualOrder(c, loss, balanceKnown) ==
    /\ CheckPreTrade(c, "LONG", loss, balanceKnown)
    /\ UNCHANGED prVars

PrNext ==
    \/ \E w \in PrWorkers :
          \/ \E c \in PrConfigs, side \in PrSides, loss \in Losses, known \in BOOLEAN :
                EvaluateEntry(w, c, side, loss, known)
          \/ \E opened \in BOOLEAN : EntryEnds(w, opened)
    \/ \E c \in PrConfigs : PositionCloses(c)
    \/ \E c \in PrConfigs, loss \in Losses, known \in BOOLEAN : PrecheckManualOrder(c, loss, known)

PrSpec == PrInit /\ [][PrNext]_prVars

-----------------------------------------------------------------------------
\* Workers that judge at the same time overshoot a cap by at most one position
\* for each worker but one: what the engine's comment tolerates for two of
\* them, and not more although entries of other workers, with and without
\* limits, open and close between a check and its open.
CapsHoldUpToWorkers ==
    LET slack == Cardinality(PrWorkers) - 1
        held == HeldBy(PrGuarded)
        biggest == Max({PrSize[c] : c \in PrConfigs})
    IN  /\ Cardinality(held) <= PrMaxOpen + slack
        /\ \A c \in held :
              LET same == {o \in held : PrSymbol[o] = PrSymbol[c]}
              IN  /\ Cardinality(same) <= PrMaxSymbol + slack
                  /\ Cardinality({o \in same : prOpen[o] = "LONG"}) <= slack
                     \/ Cardinality({o \in same : prOpen[o] = "SHORT"}) <= slack
        /\ PrExposure(PrGuarded) <= PrCap + slack * biggest
=============================================================================
