------------------------- MODULE MCStrategyLifecycle -------------------------
(***************************************************************************)
(* One strategy, two profiles to save, one set of limits to give it, and a *)
(* losing and a winning reading: the losing one is too small a sample for  *)
(* the statistics and exactly at the daily limit.                          *)
(***************************************************************************)
EXTENDS StrategyLifecycle

MCContents == [profile : {1, 2}, size : {1}]

Guarded == [guard |-> [on |-> TRUE, maxLoss |-> 5, maxLossPct |-> Unset,
                       minTrades |-> Unset, maxDd |-> 30, minWinRate |-> Unset],
            gate |-> [minTrades |-> Unset, minDays |-> 1, minWinRate |-> Unset,
                      maxDd |-> Unset],
            kill |-> [on |-> TRUE, mult |-> 3, moveLimit |-> Unset]]
MCRisks == {Guarded}

MCKpis == {[sample |-> 3, winRate |-> 0, maxDd |-> 40, pnl |-> -5, balance |-> 100],
           [sample |-> 20, winRate |-> 60, maxDd |-> 10, pnl |-> 4, balance |-> 100]}

MCTicks == {[atr |-> 2, baseline |-> 1, move |-> -9],
            [atr |-> 3, baseline |-> 1, move |-> Unset]}

MCDefaults == [minTrades |-> 20, minDays |-> 7, minWinRate |-> 50, maxDd |-> 25]
=============================================================================
