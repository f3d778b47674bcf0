------------------------------ MODULE AiOverlay ------------------------------
(***************************************************************************)
(* The AI trend overlay of one strategy.  An entry reads the latest        *)
(* analysis once; the side lock judges it at once, the stop's multiplier   *)
(* and the RSI watchers are set from it when the position is opened, some  *)
(* awaits later.  Meanwhile analyses arrive, in any order, the user edits  *)
(* the overlay and time passes.                                            *)
(***************************************************************************)
EXTENDS Integers, Sequences

CONSTANTS
    OvHistory,      \* bound: analyses written
    OvClock,        \* bound: clock
    OvMaxAge,       \* stale_max_minutes
    OvStrengths,    \* strengths of a trend, in halves, 0 among them
    OvMinStrength,  \* min_strength, in halves
    OvRange,        \* atr_scale_range, in percent: <<low, high>>
    OvMaxShift,     \* rsi_max_shift
    OvWatcher       \* the thresholds of an RSI watcher: <<lower, upper>>

\* AiOverlayConfig's bounds, in the units above; thresholds inside the range
\* shift_watcher_condition_threshold calls meaningful, the lower one first.
ASSUME OverlayAssumption ==
    /\ OvStrengths \subseteq 0..2 /\ OvMinStrength \in 0..2
    /\ OvRange \in (10..100) \X (100..300) /\ OvMaxShift \in 0..20
    /\ OvWatcher \in (0..100) \X (0..100) /\ OvWatcher[1] <= OvWatcher[2]

VARIABLES
    ovRows,      \* personal_analysis_history, in the order of insertion
    ovConfig,    \* the phases the stored overlay config turns on, none if it is disabled
    ovEntry,     \* the entry under way: [side, phases, trend], trend 0: no snapshot
    ovPos,       \* the open position, as built at its entry
    ovNow        \* clock

ovVars == <<ovRows, ovConfig, ovEntry, ovPos, ovNow>>

OvPhases == {"lock", "atr", "rsi"}
NoEntry == [side |-> "none", phases |-> {}, trend |-> 0]
NoOverlaid == [side |-> "none", phases |-> {}, trend |-> 0, factor |-> 100, watcher |-> OvWatcher]

OvInit ==
    /\ ovRows = <<>> /\ ovConfig = {}
    /\ ovEntry = NoEntry /\ ovPos = NoOverlaid /\ ovNow = 0

-----------------------------------------------------------------------------
\* resolve_ai_trend: the row inserted last, if it holds a trend and the trend
\* was computed recently enough; 0 for None.
ResolveAiTrend ==
    LET n == Len(ovRows)
    IN  IF n > 0 /\ ovRows[n].direction # "none" /\ ovNow - ovRows[n].computed <= OvMaxAge
        THEN n ELSE 0

\* The strength a trend has in the formulas, in halves.
EffectiveStrength(r) ==
    IF ovRows[r].direction = "flat" \/ ovRows[r].strength < OvMinStrength
    THEN 0 ELSE ovRows[r].strength

Aligned(r, side) == (ovRows[r].direction = "up") <=> (side = "long")

ShouldBlockEntry(r, side) == EffectiveStrength(r) > 0 /\ ~Aligned(r, side)

Clamp(low, high, x) == IF x < low THEN low ELSE IF x > high THEN high ELSE x

\* The factor on the strategy's own multiplier, in percent.
ScaleAtrMultiplier(r, side) ==
    LET s == EffectiveStrength(r)
        factor == IF Aligned(r, side) THEN 100 + (s * (OvRange[2] - 100)) \div 2
                  ELSE 100 - (s * (100 - OvRange[1])) \div 2
    IN  IF s = 0 THEN 100 ELSE Clamp(OvRange[1], OvRange[2], factor)

\* Python's round of halves/2: a half goes to the even neighbour.
RoundHalfEven(halves) ==
    LET low == halves \div 2
    IN  IF halves % 2 = 0 \/ low % 2 = 0 THEN low ELSE low + 1

RsiShift(r) ==
    LET sign == IF ovRows[r].direction = "up" THEN 1 ELSE -1
    IN  RoundHalfEven(sign * EffectiveStrength(r) * OvMaxShift)

ShiftWatcher(shift) == [i \in 1..2 |-> Clamp(0, 100, OvWatcher[i] + shift)]

-----------------------------------------------------------------------------
\* A signal, itself an analysis, starts an entry, which reads the config and, if
\* a phase is on, the trend; the side lock ends an entry against it.
OvEnter(side) ==
    /\ ovRows # <<>> /\ ovEntry = NoEntry /\ ovPos = NoOverlaid
    /\ LET trend == IF ovConfig # {} THEN ResolveAiTrend ELSE 0
       IN  /\ ~("lock" \in ovConfig /\ trend # 0 /\ ShouldBlockEntry(trend, side))
           /\ ovEntry' = [side |-> side, phases |-> ovConfig, trend |-> trend]
    /\ UNCHANGED <<ovRows, ovConfig, ovPos, ovNow>>

\* Mutant: the trend is looked up again for the later phases.
TrendReread == ResolveAiTrend

TrendInUse == ovEntry.trend

\* Behind the risk check and the sizing the position is built.
OvOpen ==
    /\ ovEntry # NoEntry
    /\ LET r == TrendInUse
       IN  ovPos' = [side |-> ovEntry.side, phases |-> ovEntry.phases, trend |-> r,
                     factor |-> IF "atr" \in ovEntry.phases /\ r # 0
                                THEN ScaleAtrMultiplier(r, ovEntry.side) ELSE 100,
                     watcher |-> IF "rsi" \in ovEntry.phases /\ r # 0
                                 THEN ShiftWatcher(RsiShift(r)) ELSE OvWatcher]
    /\ ovEntry' = NoEntry
    /\ UNCHANGED <<ovRows, ovConfig, ovNow>>

\* The risk engine, the sizing or the order refuses.
OvRefused ==
    /\ ovEntry # NoEntry
    /\ ovEntry' = NoEntry
    /\ UNCHANGED <<ovRows, ovConfig, ovPos, ovNow>>

OvCloses ==
    /\ ovPos # NoOverlaid
    /\ ovPos' = NoOverlaid
    /\ UNCHANGED <<ovRows, ovConfig, ovEntry, ovNow>>

\* An analysis is stored some time after Core has computed it.  One without a
\* trend has no strength either.
AnalysisStored(direction, strength, computed) ==
    /\ Len(ovRows) < OvHistory /\ computed <= ovNow
    /\ direction = "none" => strength = 0
    /\ ovRows' = Append(ovRows, [direction |-> direction, strength |-> strength, computed |-> computed])
    /\ UNCHANGED <<ovConfig, ovEntry, ovPos, ovNow>>

UpdateOverlayConfig(phases) ==
    /\ ovConfig' = phases
    /\ UNCHANGED <<ovRows, ovEntry, ovPos, ovNow>>

OvTick ==
    /\ ovNow < OvClock
    /\ ovNow' = ovNow + 1
    /\ UNCHANGED <<ovRows, ovConfig, ovEntry, ovPos>>

OvNext ==
    \/ \E side \in {"long", "short"} : OvEnter(side)
    \/ OvOpen \/ OvRefused \/ OvCloses \/ OvTick
    \/ \E direction \in {"up", "down", "flat", "none"}, strength \in OvStrengths, computed \in 0..OvClock :
          AnalysisStored(direction, strength, computed)
    \/ \E phases \in SUBSET OvPhases : UpdateOverlayConfig(phases)

OvSpec == OvInit /\ [][OvNext]_ovVars

-----------------------------------------------------------------------------
\* Every phase works off the same snapshot: an entry the side lock let through
\* never has its stop tightened by a trend that came later, stop and watchers
\* follow one direction, that of the analysis the position is traced to, and
\* both stay inside the user's envelope.
OneTrendPerEntry ==
    LET p == ovPos
        moved == p.watcher[1] - OvWatcher[1]
        up == p.trend # 0 /\ ovRows[p.trend].direction = "up"
    IN  /\ "lock" \in p.phases => p.factor >= 100
        /\ p.factor # 100 => (p.factor > 100 <=> (up <=> p.side = "long"))
        /\ moved # 0 => (moved > 0 <=> up)
        /\ p.factor \in OvRange[1]..OvRange[2]
        /\ p.watcher[1] <= p.watcher[2] /\ moved \in -OvMaxShift..OvMaxShift

\* resolve_ai_trend returns the freshest valid trend there is: an entry that
\* goes without one found none that was fresh.
FreshestTrendUsed ==
    [][\A side \in {"long", "short"} :
         (OvEnter(side) /\ ovConfig # {}) =>
            (ovEntry'.trend = 0 =>
               \A r \in 1..Len(ovRows) :
                  ovRows[r].direction # "none" => ovNow - ovRows[r].computed > OvMaxAge)]_ovVars
=============================================================================
