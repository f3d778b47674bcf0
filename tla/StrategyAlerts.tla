---------------------------- MODULE StrategyAlerts ----------------------------
(***************************************************************************)
(* What the platform tells the owner of a strategy unasked: the anomaly    *)
(* detector over its closed trades, the sweep that runs it, the sweep that *)
(* reports a passed promotion gate, and the freshness sweep over the       *)
(* analyses behind it.  z-scores are kept as fractions of integers.        *)
(***************************************************************************)
EXTENDS Integers, Sequences, SequencesExt

CONSTANTS
    AlPnls,      \* realised results of a trade
    AlTrades,    \* bound: closed trades
    AlWindow,    \* anomaly window
    AlZ,         \* z threshold, in tenths
    AlCooldown,  \* ticks before the same alert may be raised again
    AlTicks,     \* bound: clock
    AlMaxAge     \* freshness threshold, in ticks

\* Results are signed amounts; settings.anomaly_window and the threshold are
\* configured positive.
ASSUME AlertsAssumption == AlPnls \subseteq Int /\ AlWindow \in Nat \ {0} /\ AlZ \in Nat

VARIABLES
    alTrades,    \* [pnl, day] of the closed trades, oldest first
    alNow,       \* clock
    alAnalysis,  \* when the latest analysis was completed, -1: none
    alStatus,    \* agent_freshness_status: "unknown" before the first sweep
    alLast,      \* when each kind of alert was last raised
    alSweep      \* the alert a sweep is about to raise

alVars == <<alTrades, alNow, alAnalysis, alStatus, alLast, alSweep>>

AlKinds == {"anomaly", "promotion_ready"}

AlInit ==
    /\ alTrades = <<>> /\ alNow = 0 /\ alAnalysis = -1 /\ alStatus = "unknown"
    /\ alLast = [k \in AlKinds |-> -1 - AlCooldown] /\ alSweep = "idle"

-----------------------------------------------------------------------------
(* The detector.  A score is [dev, sq, den]: z^2 = sq / den, signed as dev. *)

Sum(s) == FoldLeft(LAMBDA a, b : a + b, 0, s)
Squares(s) == [i \in DOMAIN s |-> s[i] * s[i]]
LastOf(s, n) == SubSeq(s, Len(s) - n + 1, Len(s))

\* Mutant: the spread of the whole population, not of a sample.
PopulationZ(s, x) ==
    LET n == Len(s)
        dev == n * x - Sum(s)
    IN  [dev |-> dev, sq |-> dev * dev, den |-> n * Sum(Squares(s)) - Sum(s) * Sum(s)]

\* The deviation of x from the mean of s in sample standard deviations; no
\* score, den = 0, without spread.
ZScore(s, x) ==
    LET n == Len(s)
        dev == n * x - Sum(s)
    IN  [dev |-> dev, sq |-> dev * dev * (n - 1),
         den |-> n * (n * Sum(Squares(s)) - Sum(s) * Sum(s))]

\* |z| >= num / den
BeyondBand(z, num, den) == z.den > 0 /\ z.sq * den * den >= num * num * z.den
Severity(z) == IF BeyondBand(z, 3 * AlZ, 20) THEN "critical" ELSE "warning"
Findings(metric, z, fires) == IF fires THEN {<<metric, Severity(z)>>} ELSE {}

\* _last_rolling_z; no score before the window is full.
RollingZ(s) == IF Len(s) < AlWindow THEN [dev |-> 0, sq |-> 0, den |-> 0]
               ELSE ZScore(LastOf(s, AlWindow), s[Len(s)])

DetectPnl(pnls) ==
    LET z == RollingZ(pnls) IN Findings("pnl", z, BeyondBand(z, AlZ, 10))

Equity(pnls) == [i \in DOMAIN pnls |-> Sum(SubSeq(pnls, 1, i))]
Drawdown(pnls) ==
    LET equity == Equity(pnls)
    IN  [i \in DOMAIN pnls |-> Max({equity[j] : j \in 1..i}) - equity[i]]
Velocity(pnls) ==
    LET depth == Drawdown(pnls) IN [i \in 1..Len(pnls) - 1 |-> depth[i + 1] - depth[i]]

DetectDrawdownVelocity(pnls) ==
    LET z == RollingZ(Velocity(pnls))
    IN  Findings("drawdown", z, z.dev > 0 /\ BeyondBand(z, AlZ, 10))

\* Wins in each full window, against the whole history of such windows.
WinRates(pnls) == [i \in 1..Len(pnls) - AlWindow + 1 |->
    Sum([j \in 1..AlWindow |-> IF pnls[i + j - 1] > 0 THEN 1 ELSE 0])]

DetectWinRateCollapse(pnls) ==
    IF Len(pnls) < AlWindow + 1 THEN {}
    ELSE LET rates == WinRates(pnls)
             z == ZScore(rates, rates[Len(rates)])
         IN  Findings("win_rate", z, z.dev < 0 /\ BeyondBand(z, AlZ, 10))

\* Trades per day on which any closed, against an exponentially weighted mean
\* (alpha = 1/2: weights 2^i over 2^n - 1), the residuals over a common
\* denominator.
Weighted(c, n) == Sum([i \in 1..n |-> c[i] * 2^(i - 1)])
Weights(n) == 2^n - 1
Residuals(c) ==
    LET all == FoldLeft(LAMBDA a, n : a * Weights(n), 1, [n \in DOMAIN c |-> n])
    IN  [n \in DOMAIN c |-> (c[n] * Weights(n) - Weighted(c, n)) * (all \div Weights(n))]

DetectTradeFrequency(counts) ==
    IF Len(counts) < 2 THEN {}
    ELSE LET res == Residuals(counts)
             spread == ZScore(res, 0)
             n == Len(res)
             z == [spread EXCEPT !.dev = res[n], !.sq = res[n] * res[n] * n * n * (n - 1)]
         IN  Findings("frequency", z, BeyondBand(z, AlZ, 10))

\* _load_anomaly_series
Pnls == [i \in DOMAIN alTrades |-> alTrades[i].pnl]
Days == {alTrades[i].day : i \in DOMAIN alTrades}
BucketCounts ==
    LET days == SetToSortSeq(Days, <)
    IN  [d \in DOMAIN days |-> Len(SelectSeq(alTrades, LAMBDA t : t.day = days[d]))]

DetectAnomalies == DetectPnl(Pnls) \cup DetectDrawdownVelocity(Pnls)
                   \cup DetectWinRateCollapse(Pnls) \cup DetectTradeFrequency(BucketCounts)

-----------------------------------------------------------------------------
(* The sweeps, over a strategy that is running.                            *)

CloseTrade(pnl) ==
    /\ Len(alTrades) < AlTrades
    /\ alTrades' = Append(alTrades, [pnl |-> pnl, day |-> alNow])
    /\ UNCHANGED <<alNow, alAnalysis, alStatus, alLast, alSweep>>

AnalysisCompletes ==
    /\ alAnalysis' = alNow
    /\ UNCHANGED <<alTrades, alNow, alStatus, alLast, alSweep>>

AlTick ==
    /\ alNow < AlTicks
    /\ alNow' = alNow + 1
    /\ UNCHANGED <<alTrades, alAnalysis, alStatus, alLast, alSweep>>

\* An alert of the kind lies within the cooldown.
AlertedRecently(kind) == alLast[kind] >= alNow - AlCooldown

SweepFinds(kind) ==
    /\ alSweep = "idle" /\ ~AlertedRecently(kind)
    /\ alSweep' = kind
    /\ UNCHANGED <<alTrades, alNow, alAnalysis, alStatus, alLast>>

SweepStrategyAnomalies == DetectAnomalies # {} /\ SweepFinds("anomaly")
\* The gate's verdict is StrategyLifecycle's.
SweepPromotionGates == SweepFinds("promotion_ready")

\* The event is committed with the time of its insertion, or the sweep goes on
\* without it.
SweepEmits(ok) ==
    /\ alSweep # "idle"
    /\ alLast' = IF ok THEN [alLast EXCEPT ![alSweep] = alNow] ELSE alLast
    /\ alSweep' = "idle"
    /\ UNCHANGED <<alTrades, alNow, alAnalysis, alStatus>>

\* is_fresh: the bound is inclusive, no analysis is never fresh.
IsFresh(at, now) == at >= 0 /\ now - at <= AlMaxAge

\* The rows of the profile and of its agents, with one clock; a stale one comes
\* with its data_stale event, in the same commit.
SweepAgentFreshness ==
    /\ alStatus' = IF IsFresh(alAnalysis, alNow) THEN "fresh" ELSE "stale"
    /\ UNCHANGED <<alTrades, alNow, alAnalysis, alLast, alSweep>>

AlNext ==
    \/ \E pnl \in AlPnls : CloseTrade(pnl)
    \/ AnalysisCompletes
    \/ AlTick
    \/ SweepStrategyAnomalies
    \/ SweepPromotionGates
    \/ \E ok \in BOOLEAN : SweepEmits(ok)
    \/ SweepAgentFreshness

AlSpec == AlInit /\ [][AlNext]_alVars

-----------------------------------------------------------------------------
\* An alert is earned: a history shorter than the window raises none of the
\* trade metrics, and because the last trade is part of the window it is judged
\* by, a rolling metric stays below (w - 1) / sqrt(w) and is never critical
\* under a threshold whose 1.5-fold lies above that.
AlertsAreEarned ==
    \A f \in DetectAnomalies :
        /\ f[1] # "frequency" => Len(alTrades) >= AlWindow
        /\ f[1] \in {"pnl", "drawdown"} /\ 9 * AlZ * AlZ * AlWindow > 400 * (AlWindow - 1) * (AlWindow - 1)
           => f[2] = "warning"
=============================================================================
