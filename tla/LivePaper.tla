------------------------------ MODULE LivePaper ------------------------------
(***************************************************************************)
(* Live paper trading of one user: every poll replays the strategy over    *)
(* the candles there are and books the trades closed since the cursor.     *)
(* Candles arrive late, the user plays, stops and switches strategies, and *)
(* a poll may break off half way.                                          *)
(***************************************************************************)
EXTENDS Integers, FiniteSets, FiniteSetsExt

CONSTANTS
    LpTrades,     \* the trades a replay of each strategy finds: [strategy, exit]
    LpClock,      \* bound: clock
    LpRevisions   \* bound: strategy revisions

\* A replay is of finitely many candles, whose times are positive.
ASSUME PaperAssumption ==
    IsFiniteSet(LpTrades) /\ \A t \in LpTrades : t.exit \in Nat

VARIABLES
    lpProfile,    \* [strategy, revision, running, cursor]; cursor -1: None
    lpBook,       \* live_paper_trades: <<revision, trade>>
    lpStart,      \* last paper_started of this revision, -1: none
    lpSince,      \* history: since when the current run counts
    lpNow,        \* clock
    lpCandle      \* last candle the market data has

lpVars == <<lpProfile, lpBook, lpStart, lpSince, lpNow, lpCandle>>

LpStrategies == {t.strategy : t \in LpTrades}

LpInit ==
    /\ \E s \in LpStrategies :
          lpProfile = [strategy |-> s, revision |-> 1, running |-> FALSE, cursor |-> -1]
    /\ lpBook = {} /\ lpStart = -1 /\ lpSince = -1 /\ lpNow = 0 /\ lpCandle = 0

LpTick ==
    /\ lpNow < LpClock
    /\ lpNow' = lpNow + 1
    /\ UNCHANGED <<lpProfile, lpBook, lpStart, lpSince, lpCandle>>

CandleArrives ==
    /\ lpCandle < lpNow
    /\ lpCandle' = lpCandle + 1
    /\ UNCHANGED <<lpProfile, lpBook, lpStart, lpSince, lpNow>>

-----------------------------------------------------------------------------
\* The closed trades of a replay that lie beyond the cursor and not in the
\* future.
DueTrades == {t \in LpTrades : /\ t.strategy = lpProfile.strategy
                               /\ t.exit <= lpCandle /\ t.exit > lpProfile.cursor}

\* Mutant: everything up to now counts as processed.
CursorAtNow(due) == lpNow

CursorAfter(due) == Max({lpProfile.cursor} \cup {t.exit : t \in due})

\* One row per trade and revision: a second insert is passed over.
Booked(due) == lpBook \cup {<<lpProfile.revision, t>> : t \in due}

Poll ==
    /\ lpProfile.running
    /\ lpBook' = Booked(DueTrades)
    /\ lpProfile' = [lpProfile EXCEPT !.cursor = CursorAfter(DueTrades)]
    /\ UNCHANGED <<lpStart, lpSince, lpNow, lpCandle>>

\* An error ends the replay; what it booked is committed with the error event.
PollBreaks(done) ==
    /\ lpProfile.running /\ done \subseteq DueTrades
    /\ lpBook' = Booked(done)
    /\ UNCHANGED <<lpProfile, lpStart, lpSince, lpNow, lpCandle>>

SetRunning(on) ==
    /\ lpProfile' = [lpProfile EXCEPT !.running = on,
                        !.cursor = IF on /\ ~lpProfile.running THEN lpNow ELSE @]
    /\ IF on /\ ~lpProfile.running THEN lpStart' = lpNow /\ lpSince' = lpNow
       ELSE UNCHANGED <<lpStart, lpSince>>
    /\ UNCHANGED <<lpBook, lpNow, lpCandle>>

\* The old strategy is caught up with first, running or not; the new revision
\* goes on from now, or from nowhere if stopped.
SwitchStrategy(s) ==
    /\ s # lpProfile.strategy /\ lpProfile.revision < LpRevisions
    /\ lpBook' = Booked(DueTrades)
    /\ lpProfile' = [lpProfile EXCEPT !.strategy = s, !.revision = @ + 1,
                        !.cursor = IF lpProfile.running THEN lpNow ELSE -1]
    /\ lpStart' = -1 /\ lpSince' = lpNow
    /\ UNCHANGED <<lpNow, lpCandle>>

LpNext ==
    \/ LpTick \/ CandleArrives
    \/ Poll
    \/ \E done \in SUBSET LpTrades : PollBreaks(done)
    \/ \E on \in BOOLEAN : SetRunning(on)
    \/ \E s \in LpStrategies : SwitchStrategy(s)

LpSpec == LpInit /\ [][LpNext]_lpVars

-----------------------------------------------------------------------------
\* _build_metrics counts the rows of the revision since its last start.
CountedTrades == {t \in LpTrades : <<lpProfile.revision, t>> \in lpBook
                                   /\ (lpStart = -1 \/ t.exit > lpStart)}

\* While it runs, what the metrics count up to the cursor is what the strategy
\* closed since it was played or switched to: nothing of an earlier run, of
\* another strategy or from before the start, and no trade lost because its
\* candle came late or a poll broke off.
PaperBooksComplete ==
    lpProfile.running =>
        {t \in CountedTrades : t.exit <= lpProfile.cursor}
        = {t \in LpTrades : /\ t.strategy = lpProfile.strategy
                            /\ t.exit > lpSince /\ t.exit <= lpProfile.cursor}
=============================================================================
