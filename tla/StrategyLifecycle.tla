-------------------------- MODULE StrategyLifecycle --------------------------
(***************************************************************************)
(* The life of one strategy (an AutoTradeConfig with its risk row and its  *)
(* exchange account) under everybody who governs it at once: requests of   *)
(* the user, the guard crons, the volatility kill switch of the realtime   *)
(* process, and the signal worker that enters positions.                   *)
(*                                                                         *)
(* Each of them has its own database session.  A row that a session has    *)
(* already loaded is not read again by a later SELECT ... FOR UPDATE, and  *)
(* a write sends only the columns that differ from the loaded copy, so the *)
(* sessions below carry the copy they decide on.                           *)
(***************************************************************************)
EXTENDS StrategyRules, Sequences

CONSTANTS
    Sessions,       \* user sessions of the API that may be active at once
    Contents,       \* editable content: records [profile, size]
    Risks,          \* risk rows: [guard, gate, kill]
    NoRisk,         \* no risk row
    Keep,           \* a save whose payload omits the risk block
    Kpis,           \* readings: [sample, winRate, maxDd, pnl, balance]
    Ticks,          \* measurements: [atr, baseline, move]
    GateDefaults,   \* the built-in criteria of the promotion gate
    DdHaltPct,      \* portfolio_dd_halt_threshold_pct, Unset when switched off
    MaxDays,        \* bound: days of sandbox tenure counted
    MaxRevs         \* bound: saves

\* There is something to save and something to read; the bounds are numbers.
ASSUME LifecycleAssumption ==
    Contents # {} /\ Kpis # {} /\ MaxDays \in Nat /\ MaxRevs \in Nat

VARIABLES
    cfg,     \* the row: exists enabled running stage latched content risk days
    mode,    \* mode of the exchange credential
    revs,    \* AutoTradeConfigRevision rows, oldest first
    api,     \* per user session: where it stands and what it has loaded
    cron,    \* the guard sweep's session
    trip,    \* the kill switch's session
    wrk,     \* the worker: idle, or holding the row lock
    kpi,     \* what compute_strategy_health would read now
    pos,     \* does the strategy hold an open position?
    saves,   \* saves so far
    drift    \* history: a risk row was applied in bulk since the last revision

lcVars == <<cfg, mode, revs, api, cron, trip, wrk, kpi, pos, saves, drift>>

Row == [exists : BOOLEAN, enabled : BOOLEAN, running : BOOLEAN,
        stage : {"sandbox", "live"}, latched : BOOLEAN,
        content : Contents, risk : Risks \cup {NoRisk}, days : 0..MaxDays]

Snapshots == [enabled : BOOLEAN, content : Contents, risk : Risks \cup {NoRisk}]

\* A session keeps of its copy of the row what its later steps still read.
Saving == [pc : {"risk", "revise"}, enabled : BOOLEAN, content : Contents,
           risk : Risks \cup {Keep}]
Flipping == [pc : {"flip"}, start : {TRUE}, enabled : BOOLEAN,
             stage : {"sandbox", "live"}, latched : BOOLEAN]
            \cup [pc : {"flip"}, start : {FALSE}]
Resting == [pc |-> "idle"]
AtRest == [pc |-> "idle", running |-> FALSE, latched |-> FALSE, raced |-> FALSE]

LifecycleTypeOK ==
    /\ cfg \in Row
    /\ mode \in {"demo", "real"}
    /\ revs \in Seq(Snapshots)
    /\ api \in [Sessions -> Saving \cup Flipping \cup {Resting}]
    /\ cron \in {"idle", "kpi", "dd"}
    /\ trip \in [pc : {"idle", "closing", "latching"}, running : BOOLEAN,
                latched : BOOLEAN, raced : BOOLEAN]
    /\ wrk \in {"idle", "permitted", "managing"}
    /\ kpi \in Kpis /\ pos \in BOOLEAN
    /\ saves \in 0..MaxRevs /\ drift \in BOOLEAN

-----------------------------------------------------------------------------
NoRow == [exists |-> FALSE, enabled |-> FALSE, running |-> FALSE, stage |-> "sandbox",
          latched |-> FALSE, content |-> CHOOSE c \in Contents : TRUE,
          risk |-> NoRisk, days |-> 0]

\* FOR UPDATE waits while the worker's transaction holds the row.
RowFree == wrk = "idle"

\* The columns of a missing risk row: every threshold is unset.
NoGuard == [on |-> FALSE, maxLoss |-> Unset, maxLossPct |-> Unset,
            minTrades |-> Unset, maxDd |-> Unset, minWinRate |-> Unset]
NoGate == [minTrades |-> Unset, minDays |-> Unset, minWinRate |-> Unset, maxDd |-> Unset]

GuardOf(row) == IF row.risk = NoRisk THEN NoGuard ELSE row.risk.guard
GateOf(row) == IF row.risk = NoRisk THEN NoGate ELSE row.risk.gate

\* A price tick on which the switch of this row, if it has one, trips.
Spikes(row, t) ==
    /\ row.risk # NoRisk /\ row.risk.kill.on
    /\ DetectVolatilitySpike(t.atr, t.baseline, row.risk.kill.mult,
                             t.move, row.risk.kill.moveLimit)

HealthNow(k) == Health(k.sample, k.winRate, k.maxDd)

\* apply_kpi_guard: does the guard of this row ask for a pause on this reading?
Breached(row, k) == EvaluateKpiGuard(GuardOf(row), HealthNow(k), k.pnl, k.balance) # {}

\* evaluate_promotion: the gate on the row's own thresholds and tenure.
MayPromote(row) ==
    EvaluatePromotionGate(HealthNow(kpi), GateCriteria(GateOf(row), GateDefaults), row.days)

SnapshotOf(row) == [enabled |-> row.enabled, content |-> row.content, risk |-> row.risk]

-----------------------------------------------------------------------------
\* upsert_config: create a stopped sandbox strategy, or rewrite the content.
\* The risk block and the revision follow in transactions of their own.
Saved(e, c) ==
    IF ~cfg.exists
    THEN [NoRow EXCEPT !.exists = TRUE, !.enabled = e, !.content = c]
    ELSE [cfg EXCEPT !.enabled = e, !.running = @ /\ e, !.content = c]

ProfileFree(c) == cfg.exists /\ c.profile # cfg.content.profile => ~cfg.running /\ ~pos

UpsertConfig(a, e, c, r) ==
    /\ api[a].pc = "idle" /\ RowFree /\ saves < MaxRevs
    /\ ProfileFree(c)
    /\ saves' = saves + 1
    /\ cfg' = Saved(e, c)
    /\ api' = [api EXCEPT ![a] = [pc |-> "risk", enabled |-> e, content |-> c, risk |-> r]]
    /\ UNCHANGED <<mode, revs, cron, trip, wrk, kpi, pos, drift>>

\* rollback_config: the same save, with the snapshot of an older revision.  A
\* snapshot without risk limits is a payload that omits the block.
RollbackConfig(a) ==
    \E i \in DOMAIN revs :
        LET snap == revs[i]
        IN  UpsertConfig(a, snap.enabled, snap.content,
                         IF snap.risk = NoRisk THEN Keep ELSE snap.risk)

\* _apply_risk_config: a full replacement, no lock on the config row.
ApplyRiskConfig(a) ==
    /\ api[a].pc = "risk"
    /\ cfg' = [cfg EXCEPT !.risk = IF api[a].risk = Keep THEN @ ELSE api[a].risk]
    /\ api' = [api EXCEPT ![a].pc = "revise"]
    /\ UNCHANGED <<mode, revs, cron, trip, wrk, kpi, pos, saves, drift>>

\* _record_config_revision: the risk row as it is now, the rest as this
\* session saved it; nothing is recorded when the latest revision says the same.
Recorded(snap) == IF revs # <<>> /\ revs[Len(revs)] = snap THEN revs ELSE Append(revs, snap)

\* Mutant: the revision records the payload's limits, not the stored ones.
RecordPayloadRisk(a) ==
    /\ api[a].pc = "revise"
    /\ revs' = Recorded([enabled |-> api[a].enabled, content |-> api[a].content,
                         risk |-> IF api[a].risk = Keep THEN NoRisk ELSE api[a].risk])
    /\ api' = [api EXCEPT ![a] = Resting]
    /\ drift' = FALSE
    /\ UNCHANGED <<cfg, mode, cron, trip, wrk, kpi, pos, saves>>

RecordConfigRevision(a) ==
    /\ api[a].pc = "revise"
    /\ revs' = Recorded([enabled |-> api[a].enabled, content |-> api[a].content,
                         risk |-> cfg.risk])
    /\ api' = [api EXCEPT ![a] = Resting]
    /\ drift' = FALSE
    /\ UNCHANGED <<cfg, mode, cron, trip, wrk, kpi, pos, saves>>

\* apply_risk_config_to_all_strategies: the risk row only, no revision.
ApplyRiskToAll(r) ==
    /\ cfg.exists /\ cfg.risk # r
    /\ cfg' = [cfg EXCEPT !.risk = r]
    /\ drift' = TRUE
    /\ UNCHANGED <<mode, revs, api, cron, trip, wrk, kpi, pos, saves>>

-----------------------------------------------------------------------------
\* set_running, decided on a loaded copy of the row.  Starting clears the latch,
\* but only if the copy has it set: an unchanged column is not written.
MayStart(row) == row.enabled /\ (row.stage # "live" => mode = "demo")

Flipped(row, start) ==
    [cfg EXCEPT !.running = start,
                !.latched = IF start /\ row.latched THEN FALSE ELSE @]

Started == trip' = [trip EXCEPT !.raced = @ \/ trip.pc # "idle"]

SetRunning(start) ==
    /\ cfg.exists /\ RowFree
    /\ start => MayStart(cfg)
    /\ cfg' = Flipped(cfg, start)
    /\ IF start THEN Started ELSE UNCHANGED trip
    /\ UNCHANGED <<mode, revs, api, cron, wrk, kpi, pos, saves, drift>>

\* set_running_bulk: the copies are loaded first, the disabled ones and those
\* already in the wanted state are skipped, the others go through set_running.
BulkLoad(a, start) ==
    /\ api[a].pc = "idle" /\ cfg.exists
    /\ start => cfg.enabled
    /\ cfg.running # start
    /\ api' = [api EXCEPT ![a] =
                 IF start THEN [pc |-> "flip", start |-> TRUE, enabled |-> cfg.enabled,
                                stage |-> cfg.stage, latched |-> cfg.latched]
                 ELSE [pc |-> "flip", start |-> FALSE]]
    /\ UNCHANGED <<cfg, mode, revs, cron, trip, wrk, kpi, pos, saves, drift>>

BulkFlip(a) ==
    /\ api[a].pc = "flip" /\ RowFree
    /\ IF api[a].start => MayStart(api[a])
       THEN /\ cfg' = Flipped(api[a], api[a].start)
            /\ IF api[a].start THEN Started ELSE UNCHANGED trip
       ELSE UNCHANGED <<cfg, trip>>
    /\ api' = [api EXCEPT ![a] = Resting]
    /\ UNCHANGED <<mode, revs, cron, wrk, kpi, pos, saves, drift>>

\* promote_strategy: sandbox -> validation -> live, if the gate lets it.
PromoteStrategy ==
    /\ cfg.exists /\ RowFree /\ cfg.stage = "sandbox" /\ MayPromote(cfg)
    /\ cfg' = [cfg EXCEPT !.stage = ApplyTransition(
                                       ApplyTransition(@, "request_promotion"), "gate_passed")]
    /\ UNCHANGED <<mode, revs, api, cron, trip, wrk, kpi, pos, saves, drift>>

\* demote_strategy: back to the sandbox, stopped, the tenure clock restarted.
\* Mutant: demoted without the row lock.
DemoteUnlocked ==
    /\ cfg.exists /\ CanTransition(cfg.stage, "demote")
    /\ cfg' = [cfg EXCEPT !.stage = ApplyTransition(@, "demote"), !.running = FALSE,
                          !.days = 0]
    /\ UNCHANGED <<mode, revs, api, cron, trip, wrk, kpi, pos, saves, drift>>

DemoteStrategy ==
    /\ cfg.exists /\ RowFree /\ CanTransition(cfg.stage, "demote")
    /\ cfg' = [cfg EXCEPT !.stage = ApplyTransition(@, "demote"), !.running = FALSE,
                          !.days = 0]
    /\ UNCHANGED <<mode, revs, api, cron, trip, wrk, kpi, pos, saves, drift>>

\* ExchangeCredentialsService.update_account looks at no strategy.
UpdateAccountMode ==
    /\ mode' = IF mode = "demo" THEN "real" ELSE "demo"
    /\ UNCHANGED <<cfg, revs, api, cron, trip, wrk, kpi, pos, saves, drift>>

-----------------------------------------------------------------------------
\* sweep_kpi_guards and sweep_portfolio_dd_guards: load the running strategy,
\* compute, then pause it on that copy.
SweepLoad(kind) ==
    /\ cron = "idle" /\ cfg.exists /\ cfg.enabled /\ cfg.running
    /\ kind = "dd" => DdHaltPct # Unset
    /\ cron' = kind
    /\ UNCHANGED <<cfg, mode, revs, api, trip, wrk, kpi, pos, saves, drift>>

\* _auto_pause_strategy: the lock is taken, but the caller's copy decides; the
\* copy a sweep has loaded is a running one.
AutoPaused(copyRuns) == [cfg EXCEPT !.running = @ /\ ~copyRuns]

SweepPauses(kind) ==
    \/ kind = "kpi" /\ Breached(cfg, kpi)
    \/ kind = "dd" /\ kpi.maxDd >= DdHaltPct

SweepJudge(kind) ==
    /\ cron = kind /\ RowFree
    /\ cfg' = IF SweepPauses(kind) THEN AutoPaused(TRUE) ELSE cfg
    /\ cron' = "idle"
    /\ UNCHANGED <<mode, revs, api, trip, wrk, kpi, pos, saves, drift>>

\* One strategy's failure is rolled back and the sweep goes on.
SweepFails ==
    /\ cron # "idle" /\ RowFree
    /\ cron' = "idle"
    /\ UNCHANGED <<cfg, mode, revs, api, trip, wrk, kpi, pos, saves, drift>>

-----------------------------------------------------------------------------
\* kill_switch_close_position: the position is locked and the config is loaded;
\* the flatten that follows commits, so nothing is locked while it runs.
TripLoad ==
    /\ trip.pc = "idle" /\ pos /\ \E t \in Ticks : Spikes(cfg, t)
    /\ trip' = [pc |-> "closing", running |-> cfg.running,
                latched |-> cfg.latched, raced |-> FALSE]
    /\ UNCHANGED <<cfg, mode, revs, api, cron, wrk, kpi, pos, saves, drift>>

TripClose(ok) ==
    /\ trip.pc = "closing"
    /\ pos' = (pos /\ ~ok)
    /\ trip' = [trip EXCEPT !.pc = "latching"]
    /\ UNCHANGED <<cfg, mode, revs, api, cron, wrk, kpi, saves, drift>>

\* Pause on the loaded copy and set the latch, whether or not the close worked.
\* Mutant: a copy that was not running is taken to need no latch either.
LatchedIfRunning ==
    IF trip.running THEN [AutoPaused(TRUE) EXCEPT !.latched = TRUE] ELSE cfg

Latched == [AutoPaused(trip.running) EXCEPT !.latched = IF trip.latched THEN @ ELSE TRUE]

TripLatch ==
    /\ trip.pc = "latching" /\ RowFree
    /\ cfg' = Latched
    /\ trip' = AtRest
    /\ UNCHANGED <<mode, revs, api, cron, wrk, kpi, pos, saves, drift>>

-----------------------------------------------------------------------------
\* process_signal_queue on a report of this strategy: the row is locked until
\* the batch commits.  A non-live strategy on a real account is turned away.
MayEnter == cfg.stage # "live" => mode = "demo"

WorkerTake ==
    /\ wrk = "idle" /\ cfg.exists /\ cfg.enabled /\ cfg.running
    /\ ~pos => MayEnter
    /\ wrk' = IF pos THEN "managing" ELSE "permitted"
    /\ UNCHANGED <<cfg, mode, revs, api, cron, trip, kpi, pos, saves, drift>>

WorkerEnter ==
    /\ wrk = "permitted"
    /\ pos' = TRUE /\ wrk' = "idle"
    /\ UNCHANGED <<cfg, mode, revs, api, cron, trip, kpi, saves, drift>>

\* The signal, the overlay or the risk engine says no; or the position stays.
WorkerDone ==
    /\ wrk # "idle"
    /\ wrk' = "idle"
    /\ UNCHANGED <<cfg, mode, revs, api, cron, trip, kpi, pos, saves, drift>>

\* _maybe_auto_pause_after_close: the guard runs in the closing transaction, on
\* the reading the closed trade leaves.  The kill switch locks the position row
\* until its flatten commits.
WorkerClose(k) ==
    /\ wrk = "managing" /\ pos /\ trip.pc # "closing"
    /\ pos' = FALSE /\ kpi' = k /\ wrk' = "idle"
    /\ cfg' = IF Breached(cfg, k) THEN AutoPaused(cfg.running) ELSE cfg
    /\ UNCHANGED <<mode, revs, api, cron, trip, saves, drift>>

\* Fills are synced, a day passes.
KpiMoves(k) ==
    /\ k # kpi /\ kpi' = k
    /\ UNCHANGED <<cfg, mode, revs, api, cron, trip, wrk, pos, saves, drift>>

DayPasses ==
    /\ cfg.exists /\ cfg.stage = "sandbox" /\ cfg.days < MaxDays
    /\ cfg' = [cfg EXCEPT !.days = @ + 1]
    /\ UNCHANGED <<mode, revs, api, cron, trip, wrk, kpi, pos, saves, drift>>

-----------------------------------------------------------------------------
LifecycleInit ==
    /\ cfg = NoRow /\ mode = "demo" /\ revs = <<>>
    /\ api = [a \in Sessions |-> Resting]
    /\ cron = "idle" /\ trip = AtRest
    /\ wrk = "idle" /\ kpi = (CHOOSE k \in Kpis : TRUE)
    /\ pos = FALSE /\ saves = 0 /\ drift = FALSE

UserStep ==
    \/ \E a \in Sessions :
        \/ \E e \in BOOLEAN, c \in Contents, r \in Risks \cup {Keep} : UpsertConfig(a, e, c, r)
        \/ RollbackConfig(a)
        \/ ApplyRiskConfig(a)
        \/ RecordConfigRevision(a)
        \/ \E start \in BOOLEAN : BulkLoad(a, start)
        \/ BulkFlip(a)
    \/ \E r \in Risks : ApplyRiskToAll(r)
    \/ \E start \in BOOLEAN : SetRunning(start)
    \/ PromoteStrategy
    \/ DemoteStrategy
    \/ UpdateAccountMode

SweepStep ==
    \/ \E kind \in {"kpi", "dd"} : SweepLoad(kind) \/ SweepJudge(kind)
    \/ SweepFails

TradeStep ==
    \/ TripLoad
    \/ \E ok \in BOOLEAN : TripClose(ok)
    \/ TripLatch
    \/ WorkerTake
    \/ WorkerEnter
    \/ WorkerDone
    \/ \E k \in Kpis : WorkerClose(k)
    \/ \E k \in Kpis : KpiMoves(k)
    \/ DayPasses

LifecycleNext == UserStep \/ SweepStep \/ TradeStep

\* The 5-minute cron ticks for ever, and the failure of one sweep is not the
\* failure of all of them; PostgreSQL grants row locks in turn; a batch commits.
LifecycleFairness ==
    /\ SF_lcVars(SweepLoad("kpi"))
    /\ SF_lcVars(SweepJudge("kpi"))
    /\ SF_lcVars(SweepJudge("dd"))
    /\ WF_lcVars(WorkerDone)

LifecycleSpec == LifecycleInit /\ [][LifecycleNext]_lcVars /\ LifecycleFairness

-----------------------------------------------------------------------------
LicenceOf(row) ==
    IF ~(row.exists /\ row.enabled /\ row.running) THEN "none"
    ELSE IF row.stage = "live" THEN "any" ELSE "demo"

Mandate == INSTANCE EntryMandate
           WITH licence <- LicenceOf(cfg), account <- mode,
                permit <- (wrk = "permitted"), exposed <- pos

\* Whatever the user, the sweeps and the kill switch do to the strategy from
\* their stale copies, a new position is opened only under a licence (enabled,
\* running, and live or on demo money) that held when the worker took the row
\* and that nobody changed before the order: the lifecycle implements
\* EntryMandate.  This is what the second, locked check in the order path adds
\* to the check in set_running.
EntriesAreMandated == Mandate!MandateSpec

\* When no save is under way the newest revision is what is saved: the risk row
\* written by a transaction of its own, the revision recorded by a third, the
\* hash dedup and the rollback that re-saves an old one never leave the history
\* behind the strategy.  Only limits applied to all strategies at once, which
\* records no revision, may be missing from it until the next save.
RevisionsComplete ==
    cfg.exists /\ (\A a \in Sessions : api[a].pc \notin {"risk", "revise"})
    => /\ revs # <<>>
       /\ LET last == revs[Len(revs)]
          IN  IF drift THEN [last EXCEPT !.risk = cfg.risk] = SnapshotOf(cfg)
              ELSE last = SnapshotOf(cfg)

\* When the kill switch is done the strategy is stopped and latched, unless a
\* user started it after the switch loaded it; the flatten in between commits
\* and may fail, a sweep or the user may have stopped the strategy meanwhile.
TripHalts ==
    [][trip.pc = "latching" /\ trip'.pc = "idle" /\ ~trip.raced
       => ~cfg'.running /\ cfg'.latched]_lcVars

\* Today's realized loss has reached the limit of the strategy's guard.
LossReached ==
    /\ GuardOf(cfg).on /\ GuardOf(cfg).maxLoss # Unset
    /\ -kpi.pnl >= GuardOf(cfg).maxLoss

\* A strategy that has lost its daily limit does not keep running, however
\* small its sample: however often it is started again, and although sweeps
\* fail, some sweep stops it again.
BreachPauses == <>[]LossReached => []<>(~cfg.running)
=============================================================================
