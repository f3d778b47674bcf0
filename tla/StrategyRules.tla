---------------------------- MODULE StrategyRules ----------------------------
(***************************************************************************)
(* The pure decisions that govern a strategy: the promotion table and its  *)
(* KPI gate (promotion/), the KPI guard that pauses (risk/kpi_guard.py)    *)
(* and the volatility spike detector (sl_tp/kill_switch.py).  Percentages, *)
(* days and amounts are whole numbers; a column that is NULL is the model  *)
(* value Unset.                                                            *)
(***************************************************************************)
EXTENDS Integers

CONSTANTS
    Unset,            \* a nullable column or a measurement that is None
    HealthMinTrades   \* HEALTH_MIN_TRADES: below it a reading is noise

Stages == {"research", "sandbox", "validation", "live", "rejected", "archived"}

Triggers == {"submit_to_sandbox", "request_promotion", "gate_passed", "gate_failed",
             "demote", "reject", "archive"}

\* VALID_TRANSITIONS as the set of its edges; rejected and archived have none.
ValidTransitions ==
    {<<"research", "submit_to_sandbox", "sandbox">>,
     <<"research", "reject", "rejected">>,
     <<"research", "archive", "archived">>,
     <<"sandbox", "request_promotion", "validation">>,
     <<"sandbox", "reject", "rejected">>,
     <<"sandbox", "archive", "archived">>,
     <<"validation", "gate_passed", "live">>,
     <<"validation", "gate_failed", "sandbox">>,
     <<"validation", "archive", "archived">>,
     <<"live", "demote", "sandbox">>,
     <<"live", "archive", "archived">>}

CanTransition(stage, trigger) ==
    \E next \in Stages : <<stage, trigger, next>> \in ValidTransitions

\* Only where CanTransition holds: the code raises InvalidPromotionError elsewhere.
ApplyTransition(stage, trigger) ==
    CHOOSE next \in Stages : <<stage, trigger, next>> \in ValidTransitions

-----------------------------------------------------------------------------
\* health_from_trades: below the floor the class is insufficient_data and the
\* statistical metrics are reported as zero, whatever the trades were.
Health(sample, winRate, maxDd) ==
    IF sample < HealthMinTrades
    THEN [class |-> "insufficient_data", sample |-> sample, winRate |-> 0, maxDd |-> 0]
    ELSE [class |-> "judged", sample |-> sample, winRate |-> winRate, maxDd |-> maxDd]

Reliable(health) ==
    health.class # "insufficient_data" /\ health.sample >= HealthMinTrades

\* _resolve: a missing threshold of the gate means its built-in default.
Resolve(value, default) == IF value = Unset THEN default ELSE value

\* No risk row is the row with every threshold unset.
GateCriteria(gate, defaults) ==
    [minTrades |-> Resolve(gate.minTrades, defaults.minTrades),
     minDays |-> Resolve(gate.minDays, defaults.minDays),
     minWinRate |-> Resolve(gate.minWinRate, defaults.minWinRate),
     maxDd |-> Resolve(gate.maxDd, defaults.maxDd)]

\* evaluate_promotion_gate: the four criteria must all pass, and the two
\* statistical ones count only on a reliable sample.
EvaluatePromotionGate(health, criteria, sandboxDays) ==
    LET reliable == Reliable(health) /\ health.sample >= criteria.minTrades
    IN  /\ reliable
        /\ sandboxDays >= criteria.minDays
        /\ reliable /\ health.winRate >= criteria.minWinRate
        /\ reliable /\ health.maxDd <= criteria.maxDd

-----------------------------------------------------------------------------
\* evaluate_kpi_guard, daily loss: not gated by the sample size.
DailyLossBreaches(guard, todayPnl, balance) ==
    LET loss == -todayPnl
    IN  {r \in {"daily_loss"} : guard.maxLoss # Unset /\ loss >= guard.maxLoss}
        \cup {r \in {"daily_loss_pct"} :
                /\ guard.maxLossPct # Unset /\ loss > 0
                /\ balance # Unset /\ balance > 0
                /\ loss * 100 >= guard.maxLossPct * balance}

\* evaluate_kpi_guard, statistics: only on a reliable sample.
StatisticalBreaches(guard, health) ==
    IF Reliable(health) /\ (guard.minTrades # Unset => health.sample >= guard.minTrades)
    THEN {r \in {"max_dd"} : guard.maxDd # Unset /\ health.maxDd >= guard.maxDd}
         \cup {r \in {"min_win_rate"} :
                 guard.minWinRate # Unset /\ health.winRate < guard.minWinRate}
    ELSE {}

\* Mutant: the daily loss too is judged on a reliable sample only.
GuardOnReliable(guard, health, todayPnl, balance) ==
    IF ~guard.on \/ ~Reliable(health) THEN {}
    ELSE DailyLossBreaches(guard, todayPnl, balance) \cup StatisticalBreaches(guard, health)

\* The rules that are breached; the strategy is paused iff there is one.
EvaluateKpiGuard(guard, health, todayPnl, balance) ==
    IF ~guard.on THEN {}
    ELSE DailyLossBreaches(guard, todayPnl, balance) \cup StatisticalBreaches(guard, health)

-----------------------------------------------------------------------------
\* detect_volatility_spike: two independent branches; a missing measurement or
\* threshold, or a baseline that is not positive, never closes.
Magnitude(x) == IF x < 0 THEN -x ELSE x

DetectVolatilitySpike(atr, baseline, mult, move, moveLimit) ==
    \/ /\ mult # Unset /\ atr # Unset /\ baseline # Unset
       /\ baseline > 0 /\ atr >= mult * baseline
    \/ /\ moveLimit # Unset /\ move # Unset
       /\ Magnitude(move) >= moveLimit
=============================================================================
