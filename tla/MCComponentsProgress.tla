----------------------- MODULE MCComponentsProgress -----------------------
(***************************************************************************)
(* The components whose correctness is that something happens in the end,  *)
(* side by side for TLC: a behaviour is one of the component that `part`   *)
(* names, while the others rest.  They share no variable.                  *)
(***************************************************************************)
EXTENDS WsConnection, VenueStream, PersonalAnalysis, Notifications, PositionClose

VARIABLE part

\* A ladder of a quarter, a quarter and a half.
MCShares == <<1, 1, 2>>

\* Where the components that have something to do at once rest meanwhile: the
\* stream is up, the position is closed.
StreamIsUp ==
    /\ stream = "live" /\ connected = TRUE /\ reconnecting = FALSE
    /\ attempts = 0 /\ pc = "idle" /\ losses = 0 /\ failures = 0 /\ tried = 0

PositionIsClosed ==
    /\ pcVenue = [qty |-> 0, orders |-> {}, stop |-> NoStopOrder, filled |-> PcRungs]
    /\ pcRow = [open |-> FALSE, qty |-> 0, fired |-> PcRungs, stop |-> 0]
    /\ pcPass = PcIdle /\ pcClose = PcIdle /\ pcTask = PcIdle /\ pcCloses = 0

ProgressInit ==
    /\ part \in {"connection", "stream", "analysis", "notifications", "close"}
    /\ IF part = "connection" THEN Init ELSE StreamIsUp
    /\ IF part = "close" THEN PcInit ELSE PositionIsClosed
    /\ VsInit /\ (part # "stream" => vsVenue = "binance")
    /\ PaInit /\ NtInit

ProgressNext ==
    /\ \/ part = "connection" /\ Next /\ UNCHANGED <<vsVars, paVars, ntVars, pcVars>>
       \/ part = "stream" /\ VsNext /\ UNCHANGED <<vars, paVars, ntVars, pcVars>>
       \/ part = "analysis" /\ PaNext /\ UNCHANGED <<vars, vsVars, ntVars, pcVars>>
       \/ part = "notifications" /\ NtNext /\ UNCHANGED <<vars, vsVars, paVars, pcVars>>
       \/ part = "close" /\ PcNext /\ UNCHANGED <<vars, vsVars, paVars, ntVars>>
    /\ UNCHANGED part

ProgressSpec == ProgressInit /\ [][ProgressNext]_<<part, vars, vsVars, paVars, ntVars, pcVars>>

-----------------------------------------------------------------------------
(* What each component reaches under its own fairness; the others rest.    *)

\* A loss the WebSocket manager has noticed is repaired, and its handler ends.
LossesAreRepaired == part = "connection" /\ Fairness => NoticedLossRepaired /\ HandlerEnds

\* A Binance stream that has gone silent is noticed.
SilencesAreNoticed == part = "stream" /\ VsFairness => SilenceIsNoticed

\* The workers' jobs come to an end: every analysis with its report or as
\* failed, every notification sent, skipped or given up.
WorkerJobsEnd ==
    /\ part = "analysis" /\ PaFairness => JobsEnd
    /\ part = "notifications" /\ NtFairness => NotificationsSettle

\* Every flat position is closed in the database for good.
AllFlatPositionsClose == part = "close" /\ PcFairness => FlatPositionsAreClosed
=============================================================================
