----------------------- MODULE StrategyLifecycleProofs -----------------------
(***************************************************************************)
(* Proofs about StrategyLifecycle, for any number of user sessions and any *)
(* contents, limits, readings and ticks: the types, what the kill switch   *)
(* leaves behind, the completeness of the revision history while saves do  *)
(* not overlap, and the refinement of EntryMandate.                        *)
(***************************************************************************)
EXTENDS StrategyLifecycle, TLAPS

-----------------------------------------------------------------------------
(* The promotion table.                                                    *)

LEMMA PromotedIsLive ==
    ApplyTransition(ApplyTransition("sandbox", "request_promotion"), "gate_passed") = "live"
<1>1. ApplyTransition("sandbox", "request_promotion") = "validation"
  BY DEF ApplyTransition, ValidTransitions, Stages
<1>2. ApplyTransition("validation", "gate_passed") = "live"
  BY DEF ApplyTransition, ValidTransitions, Stages
<1> QED
  BY <1>1, <1>2

LEMMA DemotedIsSandbox ==
    ASSUME NEW s, CanTransition(s, "demote")
    PROVE  ApplyTransition(s, "demote") = "sandbox"
BY DEF ApplyTransition, CanTransition, ValidTransitions, Stages

-----------------------------------------------------------------------------
(* Types.                                                                  *)

LEMMA NoRowTyped == NoRow \in Row
BY LifecycleAssumption DEF NoRow, Row

LEMMA InitTyped == LifecycleInit => LifecycleTypeOK
<1> SUFFICES ASSUME LifecycleInit PROVE LifecycleTypeOK
  OBVIOUS
<1>1. (CHOOSE k \in Kpis : TRUE) \in Kpis
  BY LifecycleAssumption
<1>2. 0 \in 0..MaxRevs
  BY LifecycleAssumption
<1>3. api \in [Sessions -> Saving \cup Flipping \cup {Resting}]
  BY DEF LifecycleInit
<1>4. trip \in [pc : {"idle", "closing", "latching"}, running : BOOLEAN,
                latched : BOOLEAN, raced : BOOLEAN]
  BY DEF LifecycleInit, AtRest
<1>5. revs \in Seq(Snapshots)
  BY DEF LifecycleInit
<1> QED
  BY <1>1, <1>2, <1>3, <1>4, <1>5, NoRowTyped DEF LifecycleInit, LifecycleTypeOK

LEMMA SavedTyped ==
    ASSUME LifecycleTypeOK, NEW e \in BOOLEAN, NEW c \in Contents
    PROVE  Saved(e, c) \in Row
BY NoRowTyped DEF LifecycleTypeOK, Saved, Row

LEMMA UpsertTyped ==
    ASSUME LifecycleTypeOK, NEW a \in Sessions, NEW e \in BOOLEAN, NEW c \in Contents,
           NEW r \in Risks \cup {Keep}, UpsertConfig(a, e, c, r)
    PROVE  LifecycleTypeOK'
<1>1. saves' \in 0..MaxRevs
  BY LifecycleAssumption DEF LifecycleTypeOK, UpsertConfig
<1>2. cfg' \in Row
  BY SavedTyped DEF UpsertConfig
<1>3. api' \in [Sessions -> Saving \cup Flipping \cup {Resting}]
  BY DEF LifecycleTypeOK, UpsertConfig, Saving
<1> QED
  BY <1>1, <1>2, <1>3 DEF LifecycleTypeOK, UpsertConfig

\* A rollback saves the snapshot of an older revision.
LEMMA RollbackSaves ==
    ASSUME LifecycleTypeOK, NEW a \in Sessions, RollbackConfig(a)
    PROVE  \E e \in BOOLEAN, c \in Contents, r \in Risks \cup {Keep} : UpsertConfig(a, e, c, r)
<1>1. PICK i \in DOMAIN revs :
          UpsertConfig(a, revs[i].enabled, revs[i].content,
                       IF revs[i].risk = NoRisk THEN Keep ELSE revs[i].risk)
  BY DEF RollbackConfig
<1>2. revs[i] \in Snapshots
  BY <1>1 DEF LifecycleTypeOK
<1> QED
  BY <1>1, <1>2 DEF Snapshots

LEMMA RecordedTyped ==
    ASSUME LifecycleTypeOK, NEW snap \in Snapshots
    PROVE  Recorded(snap) \in Seq(Snapshots)
BY DEF LifecycleTypeOK, Recorded

LEMMA FlippedTyped ==
    ASSUME LifecycleTypeOK, NEW row, NEW start \in BOOLEAN
    PROVE  Flipped(row, start) \in Row
BY DEF LifecycleTypeOK, Flipped, Row

LEMMA AutoPausedTyped ==
    ASSUME LifecycleTypeOK, NEW b PROVE AutoPaused(b) \in Row
BY DEF LifecycleTypeOK, AutoPaused, Row

LEMMA StartedTyped ==
    ASSUME LifecycleTypeOK, Started
    PROVE  trip' \in [pc : {"idle", "closing", "latching"}, running : BOOLEAN,
                      latched : BOOLEAN, raced : BOOLEAN]
BY DEF LifecycleTypeOK, Started

\* What a session carries follows from where it stands.
LEMMA SessionCases ==
    ASSUME LifecycleTypeOK, NEW a \in Sessions
    PROVE  \/ api[a] \in Saving /\ api[a].pc \in {"risk", "revise"}
           \/ api[a].pc = "flip" /\ api[a].start \in BOOLEAN
           \/ api[a].pc = "idle"
<1>1. api[a] \in Saving \/ api[a] \in Flipping \/ api[a] = Resting
  BY DEF LifecycleTypeOK
<1>2. CASE api[a] \in Saving
  BY <1>2 DEF Saving
<1>3. CASE api[a] \in Flipping
  BY <1>3 DEF Flipping
<1>4. CASE api[a] = Resting
  BY <1>4 DEF Resting
<1> QED
  BY <1>1, <1>2, <1>3, <1>4

LEMMA BulkFlipTyped ==
    ASSUME LifecycleTypeOK, NEW a \in Sessions, BulkFlip(a)
    PROVE  LifecycleTypeOK'
<1>1. api[a].start \in BOOLEAN
  BY SessionCases DEF BulkFlip
<1>2. cfg' \in Row
  BY <1>1, FlippedTyped DEF LifecycleTypeOK, BulkFlip
<1>3. api' \in [Sessions -> Saving \cup Flipping \cup {Resting}]
  BY DEF LifecycleTypeOK, BulkFlip
<1>4. trip' \in [pc : {"idle", "closing", "latching"}, running : BOOLEAN,
                 latched : BOOLEAN, raced : BOOLEAN]
  BY StartedTyped DEF LifecycleTypeOK, BulkFlip
<1> QED
  BY <1>2, <1>3, <1>4 DEF LifecycleTypeOK, BulkFlip

LEMMA UserTyped == ASSUME LifecycleTypeOK, UserStep PROVE LifecycleTypeOK'
<1>1. ASSUME NEW a \in Sessions, ApplyRiskConfig(a) PROVE LifecycleTypeOK'
  <2>1. api[a] \in Saving
    BY <1>1, SessionCases DEF ApplyRiskConfig
  <2>2. cfg' \in Row
    BY <1>1, <2>1 DEF LifecycleTypeOK, ApplyRiskConfig, Saving, Row
  <2>3. api' \in [Sessions -> Saving \cup Flipping \cup {Resting}]
    BY <1>1, <2>1 DEF LifecycleTypeOK, ApplyRiskConfig, Saving
  <2> QED
    BY <1>1, <2>2, <2>3 DEF LifecycleTypeOK, ApplyRiskConfig
<1>2. ASSUME NEW a \in Sessions, RecordConfigRevision(a) PROVE LifecycleTypeOK'
  <2>1. api[a] \in Saving
    BY <1>2, SessionCases DEF RecordConfigRevision
  <2>2. [enabled |-> api[a].enabled, content |-> api[a].content, risk |-> cfg.risk] \in Snapshots
    BY <2>1 DEF LifecycleTypeOK, Saving, Row, Snapshots
  <2>3. revs' \in Seq(Snapshots)
    BY <1>2, <2>2, RecordedTyped DEF RecordConfigRevision
  <2>4. api' \in [Sessions -> Saving \cup Flipping \cup {Resting}]
    BY <1>2 DEF LifecycleTypeOK, RecordConfigRevision
  <2> QED
    BY <1>2, <2>3, <2>4 DEF LifecycleTypeOK, RecordConfigRevision
<1>3. ASSUME NEW a \in Sessions, NEW start \in BOOLEAN, BulkLoad(a, start)
      PROVE  LifecycleTypeOK'
  <2>1. api' \in [Sessions -> Saving \cup Flipping \cup {Resting}]
    BY <1>3 DEF LifecycleTypeOK, BulkLoad, Flipping, Row
  <2> QED
    BY <1>3, <2>1 DEF LifecycleTypeOK, BulkLoad
<1>4. ASSUME NEW r \in Risks, ApplyRiskToAll(r) PROVE LifecycleTypeOK'
  <2>1. cfg' \in Row
    BY <1>4 DEF LifecycleTypeOK, ApplyRiskToAll, Row
  <2> QED
    BY <1>4, <2>1 DEF LifecycleTypeOK, ApplyRiskToAll
<1>5. ASSUME NEW start \in BOOLEAN, SetRunning(start) PROVE LifecycleTypeOK'
  <2>1. cfg' \in Row
    BY <1>5, FlippedTyped DEF SetRunning
  <2>2. trip' \in [pc : {"idle", "closing", "latching"}, running : BOOLEAN,
                   latched : BOOLEAN, raced : BOOLEAN]
    BY <1>5, StartedTyped DEF LifecycleTypeOK, SetRunning
  <2> QED
    BY <1>5, <2>1, <2>2 DEF LifecycleTypeOK, SetRunning
<1>6. CASE PromoteStrategy
  <2>1. cfg' \in Row
    BY <1>6, PromotedIsLive DEF LifecycleTypeOK, PromoteStrategy, Row
  <2> QED
    BY <1>6, <2>1 DEF LifecycleTypeOK, PromoteStrategy
<1>7. CASE DemoteStrategy
  <2>1. cfg' = [cfg EXCEPT !.stage = "sandbox", !.running = FALSE, !.days = 0]
    BY <1>7, DemotedIsSandbox DEF DemoteStrategy
  <2>2. 0 \in 0..MaxDays
    BY LifecycleAssumption
  <2>3. cfg' \in Row
    BY <2>1, <2>2 DEF LifecycleTypeOK, Row
  <2> QED
    BY <1>7, <2>3 DEF LifecycleTypeOK, DemoteStrategy
<1>8. CASE UpdateAccountMode
  BY <1>8 DEF LifecycleTypeOK, UpdateAccountMode
<1> QED
  BY <1>1, <1>2, <1>3, <1>4, <1>5, <1>6, <1>7, <1>8, UpsertTyped, RollbackSaves, BulkFlipTyped
     DEF UserStep

LEMMA SweepTyped == ASSUME LifecycleTypeOK, SweepStep PROVE LifecycleTypeOK'
<1>1. ASSUME NEW kind \in {"kpi", "dd"}, SweepLoad(kind) PROVE LifecycleTypeOK'
  BY <1>1 DEF LifecycleTypeOK, SweepLoad
<1>2. ASSUME NEW kind \in {"kpi", "dd"}, SweepJudge(kind) PROVE LifecycleTypeOK'
  <2>1. cfg' \in Row
    BY <1>2, AutoPausedTyped DEF LifecycleTypeOK, SweepJudge
  <2> QED
    BY <1>2, <2>1 DEF LifecycleTypeOK, SweepJudge
<1>3. CASE SweepFails
  BY <1>3 DEF LifecycleTypeOK, SweepFails
<1> QED
  BY <1>1, <1>2, <1>3 DEF SweepStep

LEMMA TradeTyped == ASSUME LifecycleTypeOK, TradeStep PROVE LifecycleTypeOK'
<1>1. CASE TripLoad
  BY <1>1 DEF LifecycleTypeOK, TripLoad, Row
<1>2. ASSUME NEW ok \in BOOLEAN, TripClose(ok) PROVE LifecycleTypeOK'
  BY <1>2 DEF LifecycleTypeOK, TripClose
<1>3. CASE TripLatch
  <2>1. cfg' \in Row
    BY <1>3 DEF LifecycleTypeOK, TripLatch, Latched, AutoPaused, Row
  <2> QED
    BY <1>3, <2>1 DEF LifecycleTypeOK, TripLatch, AtRest
<1>4. CASE WorkerTake
  BY <1>4 DEF LifecycleTypeOK, WorkerTake
<1>5. CASE WorkerEnter
  BY <1>5 DEF LifecycleTypeOK, WorkerEnter
<1>6. CASE WorkerDone
  BY <1>6 DEF LifecycleTypeOK, WorkerDone
<1>7. ASSUME NEW k \in Kpis, WorkerClose(k) PROVE LifecycleTypeOK'
  <2>1. cfg' \in Row
    BY <1>7, AutoPausedTyped DEF LifecycleTypeOK, WorkerClose
  <2> QED
    BY <1>7, <2>1 DEF LifecycleTypeOK, WorkerClose
<1>8. ASSUME NEW k \in Kpis, KpiMoves(k) PROVE LifecycleTypeOK'
  BY <1>8 DEF LifecycleTypeOK, KpiMoves
<1>9. CASE DayPasses
  <2>1. cfg.days + 1 \in 0..MaxDays
    BY <1>9, LifecycleAssumption DEF LifecycleTypeOK, DayPasses, Row
  <2>2. cfg' \in Row
    BY <1>9, <2>1 DEF LifecycleTypeOK, DayPasses, Row
  <2> QED
    BY <1>9, <2>2 DEF LifecycleTypeOK, DayPasses
<1> QED
  BY <1>1, <1>2, <1>3, <1>4, <1>5, <1>6, <1>7, <1>8, <1>9 DEF TradeStep

LEMMA StutterTyped == ASSUME LifecycleTypeOK, UNCHANGED lcVars PROVE LifecycleTypeOK'
BY DEF LifecycleTypeOK, lcVars

\* Every variable of the lifecycle keeps its type, whatever the sessions carry.
THEOREM TypeCorrect == LifecycleSpec => []LifecycleTypeOK
<1>1. LifecycleTypeOK /\ [LifecycleNext]_lcVars => LifecycleTypeOK'
  BY UserTyped, SweepTyped, TradeTyped, StutterTyped DEF LifecycleNext
<1> QED
  BY <1>1, InitTyped, PTL DEF LifecycleSpec

-----------------------------------------------------------------------------
(* The inductive invariant.                                                *)

\* Nobody holds, latches or trades a strategy that was never saved.
UnsavedInv ==
    ~cfg.exists => /\ ~cfg.latched /\ ~pos /\ trip.pc = "idle"
                   /\ \A a \in Sessions : api[a].pc = "idle"

\* The worker has let an entry through: there is a strategy, and no position.
PermitInv == wrk = "permitted" => cfg.exists /\ ~pos

\* Until somebody starts the strategy under it, the kill switch's copy is no
\* older than it must be: a strategy that runs was running when it was loaded,
\* and a latch the copy has is still set.
SwitchInv ==
    trip.pc # "idle" /\ ~trip.raced
    => (cfg.running => trip.running) /\ (trip.latched => cfg.latched)

IInv == LifecycleTypeOK /\ UnsavedInv /\ PermitInv /\ SwitchInv

LEMMA InitInv == LifecycleInit => IInv
BY InitTyped
   DEF LifecycleInit, IInv, UnsavedInv, PermitInv, SwitchInv, NoRow, AtRest, Resting

\* A step that leaves the worker, the position, the sessions and the switch as
\* they are, and neither starts nor unlatches nor unmakes the strategy.
LEMMA QuietStep ==
    ASSUME IInv, UNCHANGED <<wrk, pos, trip>>,
           cfg'.exists = cfg.exists,
           cfg'.running => cfg.running, cfg.latched <=> cfg'.latched,
           \A a \in Sessions : cfg.exists \/ api'[a].pc = api[a].pc
    PROVE  UnsavedInv' /\ PermitInv' /\ SwitchInv'
BY DEF IInv, UnsavedInv, PermitInv, SwitchInv

LEMMA UpsertInv ==
    ASSUME IInv, NEW a \in Sessions, NEW e \in BOOLEAN, NEW c \in Contents,
           NEW r \in Risks \cup {Keep}, UpsertConfig(a, e, c, r)
    PROVE  UnsavedInv' /\ PermitInv' /\ SwitchInv'
<1>1. cfg'.exists /\ UNCHANGED <<wrk, pos, trip>>
  BY NoRowTyped DEF IInv, LifecycleTypeOK, UpsertConfig, Saved, Row
<1>2. CASE cfg.exists
  <2>1. (cfg'.running => cfg.running) /\ cfg'.latched = cfg.latched
    BY <1>2 DEF IInv, LifecycleTypeOK, UpsertConfig, Saved, Row
  <2> QED
    BY <1>1, <1>2, <2>1 DEF IInv, UnsavedInv, PermitInv, SwitchInv
<1>3. CASE ~cfg.exists
  BY <1>1, <1>3 DEF IInv, UnsavedInv, PermitInv, SwitchInv
<1> QED
  BY <1>2, <1>3

\* Starting, by a copy or by the row itself.
LEMMA FlippedInv ==
    ASSUME IInv, NEW row, NEW start \in BOOLEAN, cfg.exists,
           cfg' = Flipped(row, start),
           IF start THEN Started ELSE UNCHANGED trip,
           UNCHANGED <<wrk, pos>>
    PROVE  UnsavedInv' /\ PermitInv' /\ SwitchInv'
<1>1. cfg'.exists /\ cfg'.running = start
  BY DEF IInv, LifecycleTypeOK, Flipped, Row
<1>2. CASE start
  <2>1. trip'.pc # "idle" => trip'.raced
    BY <1>2 DEF IInv, LifecycleTypeOK, Started
  <2> QED
    BY <1>1, <2>1 DEF IInv, UnsavedInv, PermitInv, SwitchInv
<1>3. CASE ~start
  <2>1. cfg'.latched = cfg.latched
    BY <1>3 DEF IInv, LifecycleTypeOK, Flipped, Row
  <2> QED
    BY <1>1, <1>3, <2>1 DEF IInv, UnsavedInv, PermitInv, SwitchInv
<1> QED
  BY <1>2, <1>3

LEMMA UserInv == ASSUME IInv, UserStep PROVE UnsavedInv' /\ PermitInv' /\ SwitchInv'
<1> DEFINE Goal == UnsavedInv' /\ PermitInv' /\ SwitchInv'
<1>0. LifecycleTypeOK /\ UnsavedInv
  BY DEF IInv
<1>1. ASSUME NEW a \in Sessions, ApplyRiskConfig(a) PROVE Goal
  <2>1. /\ cfg'.exists = cfg.exists /\ cfg'.running = cfg.running
        /\ cfg'.latched = cfg.latched /\ cfg.exists
    BY <1>0, <1>1 DEF LifecycleTypeOK, UnsavedInv, ApplyRiskConfig, Row
  <2> QED
    BY <1>1, <2>1, QuietStep DEF ApplyRiskConfig
<1>2. ASSUME NEW a \in Sessions, RecordConfigRevision(a) PROVE Goal
  <2>1. cfg.exists
    BY <1>0, <1>2 DEF UnsavedInv, RecordConfigRevision
  <2> QED
    BY <1>2, <2>1, QuietStep DEF RecordConfigRevision
<1>3. ASSUME NEW a \in Sessions, NEW start \in BOOLEAN, BulkLoad(a, start) PROVE Goal
  BY <1>3, QuietStep DEF BulkLoad
<1>4. ASSUME NEW a \in Sessions, BulkFlip(a) PROVE Goal
  <2>1. cfg.exists /\ api[a].start \in BOOLEAN
    BY <1>0, <1>4, SessionCases DEF UnsavedInv, BulkFlip
  <2>2. CASE api[a].start => MayStart(api[a])
    <3>1. /\ cfg' = Flipped(api[a], api[a].start)
          /\ IF api[a].start THEN Started ELSE UNCHANGED trip
          /\ UNCHANGED <<wrk, pos>>
      BY <1>4, <2>2 DEF BulkFlip
    <3> QED
      BY <2>1, <3>1, FlippedInv
  <2>3. CASE ~(api[a].start => MayStart(api[a]))
    BY <1>4, <2>1, <2>3, QuietStep DEF BulkFlip
  <2> QED
    BY <2>2, <2>3
<1>5. ASSUME NEW r \in Risks, ApplyRiskToAll(r) PROVE Goal
  <2>1. /\ cfg'.exists = cfg.exists /\ cfg'.running = cfg.running
        /\ cfg'.latched = cfg.latched
    BY <1>0, <1>5 DEF LifecycleTypeOK, ApplyRiskToAll, Row
  <2> QED
    BY <1>5, <2>1, QuietStep DEF ApplyRiskToAll
<1>6. ASSUME NEW start \in BOOLEAN, SetRunning(start) PROVE Goal
  <2>1. /\ cfg.exists /\ cfg' = Flipped(cfg, start)
        /\ IF start THEN Started ELSE UNCHANGED trip
        /\ UNCHANGED <<wrk, pos>>
    BY <1>6 DEF SetRunning
  <2> QED
    BY <2>1, FlippedInv
<1>7. CASE PromoteStrategy
  <2>1. /\ cfg'.exists = cfg.exists /\ cfg'.running = cfg.running
        /\ cfg'.latched = cfg.latched
    BY <1>0, <1>7 DEF LifecycleTypeOK, PromoteStrategy, Row
  <2> QED
    BY <1>7, <2>1, QuietStep DEF PromoteStrategy
<1>8. CASE DemoteStrategy
  <2>1. /\ cfg'.exists = cfg.exists /\ cfg'.running = FALSE
        /\ cfg'.latched = cfg.latched
    BY <1>0, <1>8 DEF LifecycleTypeOK, DemoteStrategy, Row
  <2> QED
    BY <1>8, <2>1, QuietStep DEF DemoteStrategy
<1>9. CASE UpdateAccountMode
  BY <1>9, QuietStep DEF UpdateAccountMode
<1>10. ASSUME NEW a \in Sessions, RollbackConfig(a) PROVE Goal
  BY <1>0, <1>10, RollbackSaves, UpsertInv
<1> QED
  BY <1>1, <1>2, <1>3, <1>4, <1>5, <1>6, <1>7, <1>8, <1>9, <1>10, UpsertInv DEF UserStep

LEMMA AutoPausedQuiet ==
    ASSUME LifecycleTypeOK, NEW b \in BOOLEAN
    PROVE  /\ AutoPaused(b).exists = cfg.exists
           /\ AutoPaused(b).running = (cfg.running /\ ~b)
           /\ AutoPaused(b).latched = cfg.latched
BY DEF LifecycleTypeOK, AutoPaused, Row

LEMMA SweepInv == ASSUME IInv, SweepStep PROVE UnsavedInv' /\ PermitInv' /\ SwitchInv'
<1> DEFINE Goal == UnsavedInv' /\ PermitInv' /\ SwitchInv'
<1>1. ASSUME NEW kind \in {"kpi", "dd"}, SweepLoad(kind) PROVE Goal
  BY <1>1, QuietStep DEF SweepLoad
<1>2. ASSUME NEW kind \in {"kpi", "dd"}, SweepJudge(kind) PROVE Goal
  <2>1. /\ cfg'.exists = cfg.exists /\ (cfg'.running => cfg.running)
        /\ cfg'.latched = cfg.latched
    BY <1>2, AutoPausedQuiet DEF IInv, SweepJudge
  <2> QED
    BY <1>2, <2>1, QuietStep DEF SweepJudge
<1>3. CASE SweepFails
  BY <1>3, QuietStep DEF SweepFails
<1> QED
  BY <1>1, <1>2, <1>3 DEF SweepStep

LEMMA TradeInv == ASSUME IInv, TradeStep PROVE UnsavedInv' /\ PermitInv' /\ SwitchInv'
<1> DEFINE Goal == UnsavedInv' /\ PermitInv' /\ SwitchInv'
<1>0. LifecycleTypeOK /\ UnsavedInv /\ PermitInv /\ SwitchInv
  BY DEF IInv
<1>1. CASE TripLoad
  BY <1>0, <1>1 DEF UnsavedInv, PermitInv, SwitchInv, TripLoad
<1>2. ASSUME NEW ok \in BOOLEAN, TripClose(ok) PROVE Goal
  <2>1. /\ trip'.pc = "latching" /\ trip'.running = trip.running
        /\ trip'.latched = trip.latched /\ trip'.raced = trip.raced
    BY <1>0, <1>2 DEF LifecycleTypeOK, TripClose
  <2> QED
    BY <1>0, <1>2, <2>1 DEF UnsavedInv, PermitInv, SwitchInv, TripClose
<1>3. CASE TripLatch
  <2>1. cfg.exists /\ cfg'.exists
    BY <1>0, <1>3
       DEF LifecycleTypeOK, UnsavedInv, TripLatch, Latched, AutoPaused, Row
  <2> QED
    BY <1>0, <1>3, <2>1 DEF UnsavedInv, PermitInv, SwitchInv, TripLatch, AtRest
<1>4. CASE WorkerTake
  BY <1>0, <1>4 DEF UnsavedInv, PermitInv, SwitchInv, WorkerTake
<1>5. CASE WorkerEnter
  BY <1>0, <1>5 DEF UnsavedInv, PermitInv, SwitchInv, WorkerEnter
<1>6. CASE WorkerDone
  BY <1>0, <1>6 DEF UnsavedInv, PermitInv, SwitchInv, WorkerDone
<1>7. ASSUME NEW k \in Kpis, WorkerClose(k) PROVE Goal
  <2>1. /\ cfg'.exists = cfg.exists /\ (cfg'.running => cfg.running)
        /\ cfg'.latched = cfg.latched
    BY <1>0, <1>7, AutoPausedQuiet DEF LifecycleTypeOK, Row, WorkerClose
  <2> QED
    BY <1>0, <1>7, <2>1 DEF UnsavedInv, PermitInv, SwitchInv, WorkerClose
<1>8. ASSUME NEW k \in Kpis, KpiMoves(k) PROVE Goal
  BY <1>8, QuietStep DEF KpiMoves
<1>9. CASE DayPasses
  <2>1. /\ cfg'.exists = cfg.exists /\ cfg'.running = cfg.running
        /\ cfg'.latched = cfg.latched
    BY <1>0, <1>9 DEF LifecycleTypeOK, DayPasses, Row
  <2> QED
    BY <1>9, <2>1, QuietStep DEF DayPasses
<1> QED
  BY <1>1, <1>2, <1>3, <1>4, <1>5, <1>6, <1>7, <1>8, <1>9 DEF TradeStep

LEMMA StepInv == IInv /\ [LifecycleNext]_lcVars => IInv'
<1> SUFFICES ASSUME IInv, [LifecycleNext]_lcVars PROVE IInv'
  OBVIOUS
<1>1. LifecycleTypeOK'
  BY UserTyped, SweepTyped, TradeTyped, StutterTyped DEF IInv, LifecycleNext
<1>2. CASE UNCHANGED lcVars
  BY <1>1, <1>2, QuietStep DEF lcVars, IInv
<1> QED
  BY <1>1, <1>2, UserInv, SweepInv, TradeInv DEF LifecycleNext, IInv

LEMMA Invariance == LifecycleSpec => []IInv
BY InitInv, StepInv, PTL DEF LifecycleSpec

-----------------------------------------------------------------------------
\* What the kill switch leaves behind: the strategy stopped and latched, unless
\* somebody started it after the switch loaded it.
THEOREM KillSwitchHalts == LifecycleSpec => TripHalts
<1> DEFINE Halts == trip.pc = "latching" /\ trip'.pc = "idle" /\ ~trip.raced
                    => ~cfg'.running /\ cfg'.latched
<1>1. IInv /\ LifecycleNext => Halts
  <2> SUFFICES ASSUME IInv, LifecycleNext, trip.pc = "latching", trip'.pc = "idle", ~trip.raced
               PROVE  ~cfg'.running /\ cfg'.latched
    OBVIOUS
  <2>0. LifecycleTypeOK /\ SwitchInv
    BY DEF IInv
  <2>1. CASE TripLatch
    BY <2>0, <2>1 DEF LifecycleTypeOK, SwitchInv, TripLatch, Latched, AutoPaused, Row
  <2>2. CASE trip' = trip
    BY <2>2
  <2>3. CASE Started
    BY <2>0, <2>3 DEF LifecycleTypeOK, Started
  <2>4. ASSUME NEW ok \in BOOLEAN, TripClose(ok) PROVE FALSE
    BY <2>4 DEF TripClose
  <2>5. TripLatch \/ trip' = trip \/ Started \/ \E ok \in BOOLEAN : TripClose(ok)
    <3>1. CASE UserStep
      <4>1. \A a, e, c, r : UpsertConfig(a, e, c, r) => trip' = trip
        BY DEF UpsertConfig
      <4> QED
        BY <3>1, <4>1
           DEF UserStep, RollbackConfig, ApplyRiskConfig, RecordConfigRevision, BulkLoad,
               BulkFlip, ApplyRiskToAll, SetRunning, PromoteStrategy, DemoteStrategy,
               UpdateAccountMode
    <3>2. CASE SweepStep
      BY <3>2 DEF SweepStep, SweepLoad, SweepJudge, SweepFails
    <3>3. CASE TradeStep
      BY <3>3 DEF TradeStep, TripLoad, WorkerTake, WorkerEnter, WorkerDone, WorkerClose,
                  KpiMoves, DayPasses
    <3> QED
      BY <3>1, <3>2, <3>3 DEF LifecycleNext
  <2> QED
    BY <2>1, <2>2, <2>3, <2>4, <2>5
<1>2. IInv /\ [LifecycleNext]_lcVars => [Halts]_lcVars
  BY <1>1
<1> QED
  BY <1>2, Invariance, PTL DEF LifecycleSpec, TripHalts

-----------------------------------------------------------------------------
(* The revision history.                                                   *)

\* Session a has written a save whose revision it has not recorded yet.
UnderSave(a) == api[a].pc \in {"risk", "revise"}

\* No two sessions are inside a save together.
SavesApart == \A a, b \in Sessions : UnderSave(a) /\ UnderSave(b) => a = b

\* What a session is about to record is what the row holds.
SavedInv ==
    \A a \in Sessions : UnderSave(a) => /\ cfg.enabled = api[a].enabled
                                      /\ cfg.content = api[a].content

HistoryInv == SavedInv /\ RevisionsComplete

LEMMA InitHistory == LifecycleInit => HistoryInv
<1> SUFFICES ASSUME LifecycleInit PROVE HistoryInv
  OBVIOUS
<1>1. \A a \in Sessions : ~UnderSave(a)
  BY DEF LifecycleInit, UnderSave, Resting
<1>2. ~cfg.exists
  BY DEF LifecycleInit, NoRow
<1> QED
  BY <1>1, <1>2 DEF HistoryInv, SavedInv, RevisionsComplete

\* A step that touches neither what a snapshot is made of nor a save.
LEMMA QuietHistory ==
    ASSUME HistoryInv, UNCHANGED <<revs, drift>>,
           cfg'.exists = cfg.exists, SnapshotOf(cfg)' = SnapshotOf(cfg),
           cfg'.enabled = cfg.enabled, cfg'.content = cfg.content, cfg'.risk = cfg.risk,
           \A a \in Sessions : UnderSave(a)' = UnderSave(a)
                               /\ (UnderSave(a) => api'[a] = api[a])
    PROVE  HistoryInv'
<1>1. SavedInv'
  BY DEF HistoryInv, SavedInv
<1>2. (\A a \in Sessions : api'[a].pc \notin {"risk", "revise"})
      => \A a \in Sessions : api[a].pc \notin {"risk", "revise"}
  BY DEF UnderSave
<1>3. RevisionsComplete'
  BY <1>2 DEF HistoryInv, RevisionsComplete
<1> QED
  BY <1>1, <1>3 DEF HistoryInv

LEMMA UpsertHistory ==
    ASSUME IInv, HistoryInv, SavesApart', NEW a \in Sessions, NEW e \in BOOLEAN,
           NEW c \in Contents, NEW r \in Risks \cup {Keep}, UpsertConfig(a, e, c, r)
    PROVE  HistoryInv'
<1>1. /\ api'[a] = [pc |-> "risk", enabled |-> e, content |-> c, risk |-> r]
      /\ \A b \in Sessions \ {a} : api'[b] = api[b]
  BY DEF IInv, LifecycleTypeOK, UpsertConfig
<1>2. UnderSave(a)'
  BY <1>1 DEF UnderSave
<1>3. \A b \in Sessions \ {a} : ~UnderSave(b)'
  BY <1>2 DEF SavesApart
<1>4. cfg'.enabled = e /\ cfg'.content = c
  BY DEF IInv, LifecycleTypeOK, UpsertConfig, Saved, Row, NoRow
<1>5. SavedInv'
  BY <1>1, <1>3, <1>4 DEF SavedInv
<1>6. RevisionsComplete'
  BY <1>2 DEF RevisionsComplete, UnderSave
<1> QED
  BY <1>5, <1>6 DEF HistoryInv

LEMMA LastRecorded ==
    ASSUME LifecycleTypeOK, NEW snap \in Snapshots
    PROVE  Recorded(snap) # <<>> /\ Recorded(snap)[Len(Recorded(snap))] = snap
<1>1. CASE revs # <<>> /\ revs[Len(revs)] = snap
  BY <1>1 DEF Recorded
<1>2. CASE ~(revs # <<>> /\ revs[Len(revs)] = snap)
  <2>1. Recorded(snap) = Append(revs, snap)
    BY <1>2 DEF Recorded
  <2>2. revs \in Seq(Snapshots)
    BY DEF LifecycleTypeOK
  <2>3. Len(Append(revs, snap)) = Len(revs) + 1 /\ Append(revs, snap)[Len(revs) + 1] = snap
    BY <2>2
  <2>4. Append(revs, snap) # <<>>
    BY <2>2, <2>3
  <2> QED
    BY <2>1, <2>3, <2>4
<1> QED
  BY <1>1, <1>2

LEMMA RecordHistory ==
    ASSUME IInv, HistoryInv, NEW a \in Sessions, RecordConfigRevision(a)
    PROVE  HistoryInv'
<1> DEFINE snap == [enabled |-> api[a].enabled, content |-> api[a].content, risk |-> cfg.risk]
<1>0. LifecycleTypeOK /\ UnderSave(a) /\ api[a] \in Saving
  BY SessionCases DEF IInv, RecordConfigRevision, UnderSave
<1>1. snap \in Snapshots
  BY <1>0 DEF LifecycleTypeOK, Saving, Row, Snapshots
<1>2. snap = SnapshotOf(cfg)
  BY <1>0 DEF HistoryInv, SavedInv, SnapshotOf
<1>3. revs' # <<>> /\ revs'[Len(revs')] = snap /\ ~drift' /\ cfg' = cfg
  BY <1>0, <1>1, LastRecorded DEF RecordConfigRevision
<1>4. RevisionsComplete'
  BY <1>2, <1>3 DEF RevisionsComplete, SnapshotOf
<1>5. /\ \A b \in Sessions \ {a} : api'[b] = api[b]
      /\ ~UnderSave(a)'
  BY <1>0 DEF LifecycleTypeOK, RecordConfigRevision, UnderSave, Resting
<1>6. SavedInv'
  BY <1>3, <1>5 DEF HistoryInv, SavedInv, UnderSave
<1> QED
  BY <1>4, <1>6 DEF HistoryInv

\* The risk row is replaced beside a save, or for all strategies at once.
LEMMA RiskHistory ==
    ASSUME IInv, HistoryInv, UserStep,
           \/ \E a \in Sessions : ApplyRiskConfig(a)
           \/ \E r \in Risks : ApplyRiskToAll(r)
    PROVE  HistoryInv'
<1>0. LifecycleTypeOK
  BY DEF IInv
<1>1. ASSUME NEW a \in Sessions, ApplyRiskConfig(a) PROVE HistoryInv'
  <2>1. UnderSave(a) /\ UnderSave(a)' /\ api[a] \in Saving
        /\ api'[a] = [api[a] EXCEPT !.pc = "revise"]
        /\ \A b \in Sessions \ {a} : api'[b] = api[b]
    BY <1>0, <1>1, SessionCases DEF LifecycleTypeOK, ApplyRiskConfig, UnderSave, Saving
  <2>2. cfg'.enabled = cfg.enabled /\ cfg'.content = cfg.content
    BY <1>0, <1>1 DEF LifecycleTypeOK, ApplyRiskConfig, Row
  <2>3. api'[a].enabled = api[a].enabled /\ api'[a].content = api[a].content
    BY <2>1 DEF Saving
  <2>4. SavedInv'
    BY <2>1, <2>2, <2>3, ZenonT(60) DEF HistoryInv, SavedInv, UnderSave
  <2>5. RevisionsComplete'
    BY <2>1 DEF RevisionsComplete, UnderSave
  <2> QED
    BY <2>4, <2>5 DEF HistoryInv
<1>2. ASSUME NEW r \in Risks, ApplyRiskToAll(r) PROVE HistoryInv'
  <2>1. /\ cfg.exists /\ cfg'.enabled = cfg.enabled /\ cfg'.content = cfg.content
        /\ drift' /\ UNCHANGED <<api, revs>>
    BY <1>0, <1>2 DEF LifecycleTypeOK, ApplyRiskToAll, Row
  <2>2. SavedInv'
    BY <2>1 DEF HistoryInv, SavedInv, UnderSave
  <2>3. ASSUME \A a \in Sessions : api'[a].pc \notin {"risk", "revise"}
        PROVE  revs # <<>> /\ [revs[Len(revs)] EXCEPT !.risk = cfg'.risk] = SnapshotOf(cfg')
    <3>1. revs # <<>> /\ (IF drift THEN [revs[Len(revs)] EXCEPT !.risk = cfg.risk] = SnapshotOf(cfg)
                          ELSE revs[Len(revs)] = SnapshotOf(cfg))
      BY <2>1, <2>3 DEF HistoryInv, RevisionsComplete
    <3>2. revs[Len(revs)] \in Snapshots
      BY <1>0, <3>1 DEF LifecycleTypeOK
    <3>3. revs[Len(revs)].enabled = cfg.enabled /\ revs[Len(revs)].content = cfg.content
      BY <3>1, <3>2 DEF Snapshots, SnapshotOf
    <3> QED
      BY <2>1, <3>1, <3>2, <3>3 DEF Snapshots, SnapshotOf
  <2>4. RevisionsComplete'
    BY <2>1, <2>3 DEF RevisionsComplete
  <2> QED
    BY <2>2, <2>4 DEF HistoryInv
<1> QED
  BY <1>1, <1>2

\* What a snapshot is made of is changed by saves and by limits only.
LEMMA OtherHistory ==
    ASSUME IInv, HistoryInv,
           UNCHANGED <<revs, drift>>,
           \/ UNCHANGED cfg
           \/ \E row : \E start \in BOOLEAN : cfg' = Flipped(row, start)
           \/ \E b \in BOOLEAN : cfg' = AutoPaused(b)
           \/ cfg' = Latched
           \/ \E n : cfg' = [cfg EXCEPT !.days = n]
           \/ \E st : cfg' = [cfg EXCEPT !.stage = st]
           \/ \E st : cfg' = [cfg EXCEPT !.stage = st, !.running = FALSE, !.days = 0],
           \A a \in Sessions : UnderSave(a)' = UnderSave(a)
                               /\ (UnderSave(a) => api'[a] = api[a])
    PROVE  HistoryInv'
<1>1. /\ cfg'.exists = cfg.exists /\ cfg'.enabled = cfg.enabled
      /\ cfg'.content = cfg.content /\ cfg'.risk = cfg.risk
  BY DEF IInv, LifecycleTypeOK, Flipped, AutoPaused, Latched, Row
<1>2. SnapshotOf(cfg)' = SnapshotOf(cfg)
  BY <1>1 DEF SnapshotOf
<1> QED
  BY <1>1, <1>2, QuietHistory

LEMMA UserHistory ==
    ASSUME IInv, HistoryInv, SavesApart', UserStep PROVE HistoryInv'
<1>0. LifecycleTypeOK
  BY DEF IInv
<1>1. ASSUME NEW a \in Sessions, RollbackConfig(a) PROVE HistoryInv'
  BY <1>0, <1>1, RollbackSaves, UpsertHistory
<1>2. ASSUME NEW a \in Sessions, NEW start \in BOOLEAN, BulkLoad(a, start) PROVE HistoryInv'
  <2>1. \A b \in Sessions : UnderSave(b)' = UnderSave(b)
                            /\ (UnderSave(b) => api'[b] = api[b])
    <3>1. ~UnderSave(a) /\ api'[a].pc = "flip" /\ \A b \in Sessions \ {a} : api'[b] = api[b]
      BY <1>0, <1>2 DEF LifecycleTypeOK, BulkLoad, UnderSave
    <3> QED
      BY <3>1 DEF UnderSave
  <2> QED
    BY <1>2, <2>1, OtherHistory DEF BulkLoad
<1>3. ASSUME NEW a \in Sessions, BulkFlip(a) PROVE HistoryInv'
  <2>1. \A b \in Sessions : UnderSave(b)' = UnderSave(b)
                            /\ (UnderSave(b) => api'[b] = api[b])
    <3>1. ~UnderSave(a) /\ api'[a].pc = "idle" /\ \A b \in Sessions \ {a} : api'[b] = api[b]
      BY <1>0, <1>3 DEF LifecycleTypeOK, BulkFlip, UnderSave, Resting
    <3> QED
      BY <3>1 DEF UnderSave
  <2>2. api[a].start \in BOOLEAN
    BY <1>0, <1>3, SessionCases DEF BulkFlip
  <2>3. UNCHANGED cfg \/ cfg' = Flipped(api[a], api[a].start)
    BY <1>3 DEF BulkFlip
  <2> QED
    BY <1>3, <2>1, <2>2, <2>3, OtherHistory DEF BulkFlip
<1>4. ASSUME NEW start \in BOOLEAN, SetRunning(start) PROVE HistoryInv'
  BY <1>4, OtherHistory DEF SetRunning, UnderSave
<1>5. CASE PromoteStrategy
  <2>1. \E st : cfg' = [cfg EXCEPT !.stage = st]
    BY <1>5 DEF PromoteStrategy
  <2> QED
    BY <1>5, <2>1, OtherHistory DEF PromoteStrategy, UnderSave
<1>6. CASE DemoteStrategy
  <2>1. \E st : cfg' = [cfg EXCEPT !.stage = st, !.running = FALSE, !.days = 0]
    BY <1>6 DEF DemoteStrategy
  <2> QED
    BY <1>6, <2>1, OtherHistory DEF DemoteStrategy, UnderSave
<1>7. CASE UpdateAccountMode
  BY <1>7, OtherHistory DEF UpdateAccountMode, UnderSave
<1> QED
  BY <1>1, <1>2, <1>3, <1>4, <1>5, <1>6, <1>7, UpsertHistory, RecordHistory, RiskHistory
     DEF UserStep

LEMMA SweepHistory == ASSUME IInv, HistoryInv, SweepStep PROVE HistoryInv'
<1>1. ASSUME NEW kind \in {"kpi", "dd"}, SweepLoad(kind) PROVE HistoryInv'
  BY <1>1, OtherHistory DEF SweepLoad, UnderSave
<1>2. ASSUME NEW kind \in {"kpi", "dd"}, SweepJudge(kind) PROVE HistoryInv'
  BY <1>2, OtherHistory DEF SweepJudge, UnderSave
<1>3. CASE SweepFails
  BY <1>3, OtherHistory DEF SweepFails, UnderSave
<1> QED
  BY <1>1, <1>2, <1>3 DEF SweepStep

LEMMA TradeHistory == ASSUME IInv, HistoryInv, TradeStep PROVE HistoryInv'
<1>1. cfg.running \in BOOLEAN
  BY DEF IInv, LifecycleTypeOK, Row
<1>2. UNCHANGED <<revs, drift, api>>
  BY DEF TradeStep, TripLoad, TripClose, TripLatch, WorkerTake, WorkerEnter, WorkerDone,
         WorkerClose, KpiMoves, DayPasses
<1>3. \/ UNCHANGED cfg \/ cfg' = AutoPaused(cfg.running) \/ cfg' = Latched
      \/ \E n : cfg' = [cfg EXCEPT !.days = n]
  <2>1. CASE DayPasses
    BY <2>1 DEF DayPasses
  <2>2. CASE ~DayPasses
    BY <2>2 DEF TradeStep, TripLoad, TripClose, TripLatch, WorkerTake, WorkerEnter, WorkerDone,
                WorkerClose, KpiMoves
  <2> QED
    BY <2>1, <2>2
<1> QED
  BY <1>1, <1>2, <1>3, OtherHistory DEF UnderSave

LEMMA StutterHistory == ASSUME IInv, HistoryInv, UNCHANGED lcVars PROVE HistoryInv'
BY OtherHistory DEF lcVars, UnderSave

\* While no two sessions save the strategy at the same time, its revision
\* history is complete, whatever else is done to it in between.
THEOREM HistoryComplete == LifecycleSpec /\ []SavesApart => []RevisionsComplete
<1>1. IInv /\ HistoryInv /\ SavesApart' /\ [LifecycleNext]_lcVars => HistoryInv'
  BY UserHistory, SweepHistory, TradeHistory, StutterHistory DEF LifecycleNext
<1>2. HistoryInv => RevisionsComplete
  BY DEF HistoryInv
<1> QED
  BY <1>1, <1>2, InitHistory, Invariance, PTL DEF LifecycleSpec

\* With a single session, as in the runs, saves cannot overlap.
THEOREM OneSessionHistory ==
    ASSUME NEW s, Sessions = {s}
    PROVE  LifecycleSpec => []RevisionsComplete
<1>1. SavesApart
  BY DEF SavesApart
<1>2. []SavesApart
  BY <1>1, PTL
<1> QED
  BY <1>2, HistoryComplete, PTL

-----------------------------------------------------------------------------
(* EntryMandate.                                                           *)

LEMMA InitMandate == LifecycleInit => Mandate!MandateInit
BY DEF LifecycleInit, Mandate!MandateInit, Mandate!Accounts, LicenceOf, NoRow

LEMMA LicenceTyped == LicenceOf(cfg) \in Mandate!Licences
BY DEF LicenceOf, Mandate!Licences

\* Under the row lock, or on columns that grant nothing, nobody takes the
\* licence from an entry that is under way.
LEMMA GovernStep ==
    ASSUME UNCHANGED <<mode, wrk, pos>>, wrk # "permitted" \/ LicenceOf(cfg)' = LicenceOf(cfg)
    PROVE  Mandate!Govern \/ UNCHANGED Mandate!MandateVars
<1>1. LicenceOf(cfg)' \in Mandate!Licences
  BY DEF LicenceOf, Mandate!Licences
<1> QED
  BY <1>1 DEF Mandate!Govern, Mandate!MandateVars

LEMMA UserMandate ==
    ASSUME IInv, UserStep PROVE Mandate!MandateNext \/ UNCHANGED Mandate!MandateVars
<1> DEFINE Goal == Mandate!MandateNext \/ UNCHANGED Mandate!MandateVars
<1>0. cfg \in Row
  BY DEF IInv, LifecycleTypeOK
<1>1. CASE UpdateAccountMode
  <2>1. mode' \in Mandate!Accounts /\ UNCHANGED <<cfg, wrk, pos>>
    BY <1>1 DEF UpdateAccountMode, Mandate!Accounts
  <2>2. Mandate!SwitchAccount
    BY <2>1 DEF Mandate!SwitchAccount
  <2> QED
    BY <2>2 DEF Mandate!MandateNext
<1>2. CASE ~UpdateAccountMode
  <2>1. UNCHANGED <<mode, wrk, pos>>
    BY <1>2 DEF UserStep, UpsertConfig, RollbackConfig, ApplyRiskConfig, RecordConfigRevision,
                BulkLoad, BulkFlip, ApplyRiskToAll, SetRunning, PromoteStrategy, DemoteStrategy
  <2>2. wrk # "permitted" \/ LicenceOf(cfg)' = LicenceOf(cfg)
    <3>1. ASSUME NEW a \in Sessions, ApplyRiskConfig(a) PROVE LicenceOf(cfg)' = LicenceOf(cfg)
      BY <1>0, <3>1 DEF ApplyRiskConfig, LicenceOf, Row
    <3>2. ASSUME NEW r \in Risks, ApplyRiskToAll(r) PROVE LicenceOf(cfg)' = LicenceOf(cfg)
      BY <1>0, <3>2 DEF ApplyRiskToAll, LicenceOf, Row
    <3>3. ASSUME NEW a \in Sessions,
                 RecordConfigRevision(a) \/ \E start \in BOOLEAN : BulkLoad(a, start)
          PROVE  LicenceOf(cfg)' = LicenceOf(cfg)
      BY <3>3 DEF RecordConfigRevision, BulkLoad
    <3> QED
      BY <1>2, <3>1, <3>2, <3>3
         DEF UserStep, UpsertConfig, RollbackConfig, BulkFlip, SetRunning, PromoteStrategy,
             DemoteStrategy, RowFree
  <2> QED
    BY <2>1, <2>2, GovernStep DEF Mandate!MandateNext
<1> QED
  BY <1>1, <1>2

LEMMA SweepMandate ==
    ASSUME SweepStep PROVE Mandate!MandateNext \/ UNCHANGED Mandate!MandateVars
<1>1. UNCHANGED <<mode, wrk, pos>>
  BY DEF SweepStep, SweepLoad, SweepJudge, SweepFails
<1>2. wrk # "permitted" \/ LicenceOf(cfg)' = LicenceOf(cfg)
  BY DEF SweepStep, SweepLoad, SweepJudge, SweepFails, RowFree
<1> QED
  BY <1>1, <1>2, GovernStep DEF Mandate!MandateNext

LEMMA TradeMandate ==
    ASSUME IInv, TradeStep PROVE Mandate!MandateNext \/ UNCHANGED Mandate!MandateVars
<1> DEFINE Goal == Mandate!MandateNext \/ UNCHANGED Mandate!MandateVars
<1>0. LifecycleTypeOK /\ PermitInv
  BY DEF IInv
<1>1. CASE TripLoad
  BY <1>1, GovernStep DEF TripLoad, Mandate!MandateNext
<1>2. ASSUME NEW ok \in BOOLEAN, TripClose(ok) PROVE Goal
  <2>1. UNCHANGED <<cfg, mode, wrk>> /\ pos' = (pos /\ ~ok)
    BY <1>2 DEF TripClose
  <2>2. CASE pos' = pos
    BY <2>1, <2>2, GovernStep DEF Mandate!MandateNext
  <2>3. CASE pos' # pos
    <3>1. pos = TRUE /\ pos' = FALSE /\ wrk # "permitted"
      BY <1>0, <2>1, <2>3 DEF LifecycleTypeOK, PermitInv
    <3>2. Mandate!Leave
      BY <2>1, <3>1 DEF Mandate!Leave
    <3> QED
      BY <3>2 DEF Mandate!MandateNext
  <2> QED
    BY <2>2, <2>3
<1>3. CASE TripLatch
  BY <1>3, GovernStep DEF TripLatch, RowFree, Mandate!MandateNext
<1>4. CASE WorkerTake
  <2>1. CASE pos
    BY <1>4, <2>1 DEF WorkerTake, Mandate!MandateVars
  <2>2. CASE ~pos
    <3>1. Mandate!Covers
      BY <1>4, <2>2 DEF WorkerTake, MayEnter, LicenceOf, Mandate!Covers
    <3>2. Mandate!Authorise
      BY <1>4, <2>2, <3>1 DEF WorkerTake, Mandate!Authorise
    <3> QED
      BY <3>2 DEF Mandate!MandateNext
  <2> QED
    BY <2>1, <2>2
<1>5. CASE WorkerEnter
  BY <1>5 DEF WorkerEnter, Mandate!Enter, Mandate!MandateNext
<1>6. CASE WorkerDone
  <2>1. CASE wrk = "permitted"
    BY <1>6, <2>1 DEF WorkerDone, Mandate!GiveUp, Mandate!MandateNext
  <2>2. CASE wrk # "permitted"
    BY <1>6, <2>2 DEF WorkerDone, Mandate!MandateVars
  <2> QED
    BY <2>1, <2>2
<1>7. ASSUME NEW k \in Kpis, WorkerClose(k) PROVE Goal
  <2>1. LicenceOf(cfg)' \in {LicenceOf(cfg), "none"}
    <3>1. cfg' = cfg \/ cfg' = AutoPaused(cfg.running)
      BY <1>7 DEF WorkerClose
    <3>2. cfg.running \in BOOLEAN
      BY <1>0 DEF LifecycleTypeOK, Row
    <3>3. CASE cfg' = AutoPaused(cfg.running)
      <4>1. cfg'.running = FALSE
        BY <1>0, <3>2, <3>3, AutoPausedQuiet
      <4> QED
        BY <4>1 DEF LicenceOf
    <3> QED
      BY <3>1, <3>3
  <2>2. Mandate!Leave
    BY <1>7, <2>1 DEF WorkerClose, Mandate!Leave
  <2> QED
    BY <2>2 DEF Mandate!MandateNext
<1>8. ASSUME NEW k \in Kpis, KpiMoves(k) PROVE Goal
  BY <1>8, GovernStep DEF KpiMoves, Mandate!MandateNext
<1>9. CASE DayPasses
  <2>1. LicenceOf(cfg)' = LicenceOf(cfg)
    BY <1>0, <1>9 DEF LifecycleTypeOK, DayPasses, LicenceOf, Row
  <2> QED
    BY <1>9, <2>1, GovernStep DEF DayPasses, Mandate!MandateNext
<1> QED
  BY <1>1, <1>2, <1>3, <1>4, <1>5, <1>6, <1>7, <1>8, <1>9 DEF TradeStep

\* Whatever sessions, sweeps and the kill switch do from their stale copies, a
\* position is opened only under a licence that covered the account when the
\* worker took the row and that held until the order.
THEOREM LifecycleImplementsMandate == LifecycleSpec => EntriesAreMandated
<1>1. IInv /\ [LifecycleNext]_lcVars => [Mandate!MandateNext]_(Mandate!MandateVars)
  <2> SUFFICES ASSUME IInv, [LifecycleNext]_lcVars
               PROVE  Mandate!MandateNext \/ UNCHANGED Mandate!MandateVars
    OBVIOUS
  <2>1. CASE UNCHANGED lcVars
    BY <2>1 DEF lcVars, Mandate!MandateVars
  <2> QED
    BY <2>1, UserMandate, SweepMandate, TradeMandate DEF LifecycleNext
<1> QED
  BY <1>1, InitMandate, Invariance, PTL
     DEF LifecycleSpec, EntriesAreMandated, Mandate!MandateSpec
=============================================================================
