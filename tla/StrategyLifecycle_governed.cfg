SPECIFICATION LifecycleSpec
CONSTANTS
 Unset = Unset
 HealthMinTrades = 10
 Sessions = {s1}
 s1 = s1
 Contents <- MCContents
 Risks <- MCRisks
 NoRisk = NoRisk
 Keep = Keep
 Kpis <- MCKpis
 Ticks <- MCTicks
 GateDefaults <- MCDefaults
 DdHaltPct = 40
 MaxDays = 1
 MaxRevs = 2
CHECK_DEADLOCK FALSE
INVARIANT RevisionsComplete
PROPERTY TripHalts EntriesAreMandated 
