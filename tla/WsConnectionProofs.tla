------------------------- MODULE WsConnectionProofs -------------------------
(***************************************************************************)
(* Proofs about WsConnection, for every number of reconnect attempts, the  *)
(* jobs of PersonalAnalysis and the deliveries of Notifications, for every *)
(* number of workers, jobs and events, and about these components side by  *)
(* side in MCComponentsProgress: what each never does alone it never does  *)
(* there.                                                                  *)
(***************************************************************************)
EXTENDS VenueProofs, MCComponentsProgress

\* The flag is up exactly while the handler runs, and the handler's count of
\* attempts is within the manager's.
HandlerInv ==
    /\ reconnecting <=> pc # "idle"
    /\ pc # "idle" => tried <= attempts

\* The inductive invariant.
IInv == TypeOK /\ HandlerInv /\ DisconnectedHasNoStream

LEMMA ZeroTyped == 0 \in 0 .. MaxAttempts /\ 0 \in 0 .. MaxLosses /\ 0 \in 0 .. MaxFailures
BY ConnectionAssumption

LEMMA InitInv == Init => IInv
BY ZeroTyped
   DEF Init, IInv, TypeOK, HandlerInv, DisconnectedHasNoStream, Running

LEMMA FailTyped ==
    ASSUME TypeOK, Fail
    PROVE  losses' \in 0 .. MaxLosses /\ failures' \in 0 .. MaxFailures
BY ConnectionAssumption DEF TypeOK, Fail

LEMMA StreamEndsInv == ASSUME IInv, StreamEnds PROVE IInv'
<1>1. losses' \in 0 .. MaxLosses
  BY ConnectionAssumption DEF StreamEnds, IInv, TypeOK
<1>2. CASE reconnecting
  BY <1>1, <1>2, ConnectionAssumption
     DEF StreamEnds, flags, IInv, TypeOK, HandlerInv, DisconnectedHasNoStream, Running
<1>3. CASE ~reconnecting
  <2>1. 0 <= attempts
    BY ConnectionAssumption DEF IInv, TypeOK
  <2>2. /\ stream' = "ended" /\ reconnecting' = TRUE /\ connected' = FALSE
        /\ pc' = "marking" /\ tried' = 0 /\ UNCHANGED <<attempts, failures>>
    BY <1>3 DEF StreamEnds
  <2>3. TypeOK'
    BY <1>1, <2>2, ZeroTyped DEF IInv, TypeOK
  <2> QED
    BY <2>1, <2>2, <2>3 DEF IInv, HandlerInv, DisconnectedHasNoStream, Running
<1> QED
  BY <1>2, <1>3

LEMMA MarkPositionsInv == ASSUME IInv, MarkPositions PROVE IInv'
BY FailTyped, ConnectionAssumption
   DEF MarkPositions, Leave, bounded, IInv, TypeOK, HandlerInv, DisconnectedHasNoStream, Running

LEMMA BackoffInv == ASSUME IInv, Backoff PROVE IInv'
<1>1. attempts' \in 0 .. MaxAttempts /\ tried' \in 0 .. MaxAttempts /\ tried' <= attempts'
  BY ConnectionAssumption DEF Backoff, MayRetry, IInv, TypeOK, HandlerInv
<1> QED
  BY <1>1 DEF Backoff, flags, bounded, IInv, TypeOK, HandlerInv, DisconnectedHasNoStream, Running

LEMMA GiveUpInv == ASSUME IInv, GiveUp PROVE IInv'
BY DEF GiveUp, flags, bounded, IInv, TypeOK, HandlerInv, DisconnectedHasNoStream, Running

LEMMA SubscribeInv == ASSUME IInv, Subscribe PROVE IInv'
BY FailTyped
   DEF Subscribe, Subscribed, SubscribeFails, bounded, IInv, TypeOK, HandlerInv,
       DisconnectedHasNoStream, Running

LEMMA SyncInv == ASSUME IInv, Sync PROVE IInv'
BY FailTyped, ZeroTyped
   DEF Sync, Leave, bounded, IInv, TypeOK, HandlerInv, DisconnectedHasNoStream, Running

LEMMA HydrateInv == ASSUME IInv, Hydrate PROVE IInv'
BY FailTyped, ZeroTyped
   DEF Hydrate, MayHydrate, Subscribed, SubscribeFails, bounded, IInv, TypeOK, HandlerInv,
       DisconnectedHasNoStream, Running

LEMMA StepInv == IInv /\ [Next]_vars => IInv'
<1> SUFFICES ASSUME IInv, [Next]_vars PROVE IInv'
  OBVIOUS
<1>1. CASE Connect
  BY <1>1
     DEF Connect, flags, bounded, IInv, TypeOK, HandlerInv, DisconnectedHasNoStream, Running
<1>2. CASE EmergencyCloseAll
  BY <1>2
     DEF EmergencyCloseAll, Leave, bounded, IInv, TypeOK, HandlerInv,
         DisconnectedHasNoStream, Running
<1>3. CASE UNCHANGED vars
  BY <1>3
     DEF vars, flags, bounded, IInv, TypeOK, HandlerInv, DisconnectedHasNoStream, Running
<1> QED
  BY <1>1, <1>2, <1>3, StreamEndsInv, MarkPositionsInv, BackoffInv, GiveUpInv, SubscribeInv,
     SyncInv, HydrateInv DEF Next

LEMMA Invariance == Spec => []IInv
BY InitInv, StepInv, PTL DEF Spec

\* Every variable of the connection keeps its type; the attempts stay within
\* _max_reconnect_attempts.
THEOREM TypeCorrect == Spec => []TypeOK
<1>1. IInv => TypeOK
  BY DEF IInv
<1> QED
  BY <1>1, Invariance, PTL

\* A manager that says it is disconnected has no running stream.
THEOREM NoHiddenStream == Spec => []DisconnectedHasNoStream
<1>1. IInv => DisconnectedHasNoStream
  BY DEF IInv
<1> QED
  BY <1>1, Invariance, PTL

-----------------------------------------------------------------------------
(* PersonalAnalysis: what a pass holds of a job and what the database has.  *)

PaRow(r) == r = [status |-> r.status, attempt |-> r.attempt, cleaned |-> r.cleaned]

\* A row a pass has locked is neither new nor given up, and it is closed in the
\* pass's copy when its report is stored or is with the pass.
PaPassOK(c, job, stored) ==
    /\ c = [todo |-> c.todo, rows |-> c.rows, reports |-> c.reports]
    /\ c.todo \subseteq DOMAIN c.rows /\ c.reports \subseteq DOMAIN c.rows
    /\ DOMAIN c.rows \subseteq PaJobs
    /\ \A j \in DOMAIN c.rows :
           /\ PaRow(c.rows[j]) /\ job[j].status \in {"pending", "completed"}
           /\ c.rows[j].status = "completed" <=> j \in stored \cup c.reports

PaInv ==
    /\ DOMAIN paJob = PaJobs /\ DOMAIN paPass = PaWorkers
    /\ \A j \in PaJobs : PaRow(paJob[j])
    /\ ReportsMatchJobs
    /\ \A w \in PaWorkers : PaPassOK(paPass[w], paJob, paReports)
    /\ \A v, w \in PaWorkers : v # w => DOMAIN paPass[v].rows \cap DOMAIN paPass[w].rows = {}

LEMMA IdlePass ==
    ASSUME NEW job, NEW stored
    PROVE  PaPassOK(PaIdle, job, stored) /\ DOMAIN PaIdle.rows = {}
<1>1. DOMAIN <<>> = {}
  OBVIOUS
<1> QED
  BY <1>1 DEF PaIdle, PaPassOK

LEMMA InitAnalysis == PaInit => PaInv
<1> SUFFICES ASSUME PaInit PROVE PaInv
  OBVIOUS
<1>1. \A w \in PaWorkers : PaPassOK(paPass[w], paJob, paReports) /\ DOMAIN paPass[w].rows = {}
  BY IdlePass DEF PaInit
<1> QED
  BY <1>1 DEF PaInit, PaInv, PaRow, NoPaJob, ReportsMatchJobs

\* A pass moves on with the rows it has, or fewer.
PassMoved(w, c) ==
    /\ DOMAIN paPass' = DOMAIN paPass /\ UNCHANGED <<paJob, paReports>>
    /\ \A v \in PaWorkers : paPass'[v] = IF v = w THEN c ELSE paPass[v]
    /\ PaPassOK(c, paJob, paReports)
    /\ \A v \in PaWorkers : v # w => DOMAIN c.rows \cap DOMAIN paPass[v].rows = {}

LEMMA PassMoves ==
    ASSUME PaInv, NEW w \in PaWorkers, NEW c, PassMoved(w, c)
    PROVE  PaInv'
<1> USE DEF PassMoved
<1>1. /\ DOMAIN paPass' = PaWorkers /\ paPass'[w] = c
      /\ \A v \in PaWorkers : v # w => paPass'[v] = paPass[v]
  BY DEF PaInv
<1>2. \A v \in PaWorkers : PaPassOK(paPass'[v], paJob', paReports')
  BY <1>1 DEF PaInv
<1>3. \A u, v \in PaWorkers : u # v => DOMAIN paPass'[u].rows \cap DOMAIN paPass'[v].rows = {}
  BY <1>1 DEF PaInv
<1>4. DOMAIN paJob' = PaJobs /\ (\A j \in PaJobs : PaRow(paJob'[j])) /\ ReportsMatchJobs'
  BY DEF PaInv, ReportsMatchJobs
<1> QED
  BY <1>1, <1>2, <1>3, <1>4 DEF PaInv

LEMMA SubmitKeeps == ASSUME PaInv, NEW j \in PaJobs, PaSubmit(j) PROVE PaInv'
<1>1. /\ paJob[j].status = "none" /\ UNCHANGED <<paReports, paPass>>
      /\ paJob' = [paJob EXCEPT ![j] = [status |-> "pending", attempt |-> 1, cleaned |-> FALSE]]
  BY DEF PaSubmit
<1>2. DOMAIN paJob' = PaJobs /\ \A k \in PaJobs : PaRow(paJob'[k]) /\ (k # j => paJob'[k] = paJob[k])
  BY <1>1 DEF PaInv, PaRow
<1>3. j \notin paReports /\ paJob'[j].status = "pending"
  BY <1>1 DEF PaInv, ReportsMatchJobs
<1>4. \A w \in PaWorkers : PaPassOK(paPass'[w], paJob', paReports')
  <2> SUFFICES ASSUME NEW w \in PaWorkers PROVE PaPassOK(paPass[w], paJob', paReports)
    BY <1>1
  <2>1. PaPassOK(paPass[w], paJob, paReports)
    BY DEF PaInv
  <2> QED
    BY <1>1, <1>2, <2>1 DEF PaPassOK
<1>5. ReportsMatchJobs'
  BY <1>1, <1>2, <1>3 DEF PaInv, ReportsMatchJobs
<1> QED
  BY <1>1, <1>2, <1>4, <1>5 DEF PaInv

LEMMA PollStartKeeps == ASSUME PaInv, NEW w \in PaWorkers, PollStart(w) PROVE PaInv'
<1> DEFINE mine == {j \in PaJobs \ PaLocked : PaActive(paJob[j]) \/ PaUncleaned(paJob[j])}
           c == [todo |-> mine, rows |-> [j \in mine |-> paJob[j]], reports |-> {}]
<1>1. /\ DOMAIN paPass' = DOMAIN paPass /\ UNCHANGED <<paJob, paReports>>
      /\ \A v \in PaWorkers : paPass'[v] = IF v = w THEN c ELSE paPass[v]
  BY DEF PollStart, PaInv
<1>2. PaPassOK(c, paJob, paReports)
  BY DEF PaInv, PaPassOK, ReportsMatchJobs, PaActive, PaUncleaned
<1>3. \A v \in PaWorkers : v # w => DOMAIN c.rows \cap DOMAIN paPass[v].rows = {}
  BY DEF PaLocked
<1> HIDE DEF c
<1>4. PassMoved(w, c)
  BY <1>1, <1>2, <1>3 DEF PassMoved
<1> QED
  BY <1>4, PassMoves

\* A row of a pass is rewritten, with its report or without.
LEMMA RowMoves ==
    ASSUME PaInv, NEW w \in PaWorkers, NEW j \in paPass[w].todo, NEW row, PaRow(row), NEW reports,
           paPass' = [paPass EXCEPT ![w].todo = @ \ {j}, ![w].reports = reports,
                                    ![w].rows[j] = row],
           UNCHANGED <<paJob, paReports>>,
           \/ /\ reports = paPass[w].reports
              /\ row.status = "completed" <=> paPass[w].rows[j].status = "completed"
           \/ reports = paPass[w].reports \cup {j} /\ row.status = "completed"
    PROVE  PaInv'
<1>1. PaPassOK(paPass[w], paJob, paReports)
  BY DEF PaInv
<1> DEFINE c == [todo |-> paPass[w].todo \ {j}, rows |-> [paPass[w].rows EXCEPT ![j] = row],
                 reports |-> reports]
<1>2. /\ DOMAIN paPass' = DOMAIN paPass
      /\ \A v \in PaWorkers : paPass'[v] = IF v = w THEN c ELSE paPass[v]
  <2>1. PICK b : b = paPass[w]
    OBVIOUS
  <2>2. DOMAIN paPass' = DOMAIN paPass /\ \A v \in PaWorkers : v # w => paPass'[v] = paPass[v]
    BY DEF PaInv
  <2>3. paPass'[w] = [b EXCEPT !.todo = b.todo \ {j}, !.reports = reports,
                               !.rows = [b.rows EXCEPT ![j] = row]]
    BY <1>1, <2>1 DEF PaInv, PaPassOK
  <2>4. b = [todo |-> b.todo, rows |-> b.rows, reports |-> b.reports]
    BY <1>1, <2>1 DEF PaPassOK
  <2>5. paPass'[w] = [todo |-> b.todo \ {j}, rows |-> [b.rows EXCEPT ![j] = row], reports |-> reports]
    BY <2>3, <2>4
  <2> QED BY <2>1, <2>2, <2>5
<1>3. j \in DOMAIN paPass[w].rows /\ DOMAIN c.rows = DOMAIN paPass[w].rows
  BY <1>1 DEF PaPassOK
<1>4. \A k \in DOMAIN c.rows : c.rows[k] = IF k = j THEN row ELSE paPass[w].rows[k]
  BY <1>3
<1>5. PaPassOK(c, paJob, paReports)
  BY <1>1, <1>3, <1>4 DEF PaPassOK
<1>6. \A v \in PaWorkers : v # w => DOMAIN c.rows \cap DOMAIN paPass[v].rows = {}
  BY <1>3 DEF PaInv
<1> HIDE DEF c
<1>7. PICK d : d = c
  OBVIOUS
<1>8. PassMoved(w, d)
  BY <1>2, <1>5, <1>6, <1>7 DEF PassMoved
<1> QED
  BY <1>8, PassMoves

LEMMA Settles ==
    ASSUME PaInv, NEW w \in PaWorkers, NEW j \in paPass[w].todo, NEW row, PaRow(row), NEW core,
           PaSettle(w, j, row, core),
           row.status = "completed" <=> paPass[w].rows[j].status = "completed"
    PROVE  PaInv'
<1>1. PaPassOK(paPass[w], paJob, paReports) /\ w \in DOMAIN paPass
  BY DEF PaInv
<1>2. paPass' = [paPass EXCEPT ![w].todo = @ \ {j}, ![w].reports = paPass[w].reports,
                               ![w].rows[j] = row]
  BY <1>1 DEF PaSettle, PaPassOK
<1> QED
  BY <1>2, RowMoves DEF PaSettle

LEMMA Erred ==
    ASSUME NEW r, PaRow(r), PaActive(r)
    PROVE  PaRow(MarkTransientError(r)) /\ MarkTransientError(r).status \in {"failed", "pending"}
<1> DEFINE attempt == IF r.attempt >= PaAttempts THEN r.attempt ELSE r.attempt + 1
<1>1. PICK n : n = attempt
  OBVIOUS
<1>2. PICK s \in {"failed", "pending"} : s = IF attempt >= PaAttempts THEN "failed" ELSE "pending"
  OBVIOUS
<1>3. MarkTransientError(r) = [status |-> s, attempt |-> n, cleaned |-> r.cleaned]
  <2> HIDE DEF attempt
  <2>1. MarkTransientError(r) = [r EXCEPT !.attempt = n, !.status = s]
    BY <1>1, <1>2 DEF MarkTransientError, attempt
  <2> QED BY <2>1 DEF PaRow
<1> HIDE DEF attempt
<1> QED
  BY <1>3 DEF PaRow

LEMMA StatusFailsKeeps == ASSUME PaInv, NEW w \in PaWorkers, StatusFails(w) PROVE PaInv'
<1> DEFINE batch == {j \in paPass[w].todo : PaActive(paPass[w].rows[j])}
           rows == [j \in DOMAIN paPass[w].rows |->
                      IF j \in batch THEN MarkTransientError(paPass[w].rows[j])
                      ELSE paPass[w].rows[j]]
           c == [todo |-> paPass[w].todo \ batch, rows |-> rows, reports |-> paPass[w].reports]
<1>1. PaPassOK(paPass[w], paJob, paReports) /\ w \in DOMAIN paPass
  BY DEF PaInv
<1>2. /\ DOMAIN paPass' = DOMAIN paPass /\ UNCHANGED <<paJob, paReports>>
      /\ \A v \in PaWorkers : paPass'[v] = IF v = w THEN c ELSE paPass[v]
  <2>1. PICK b : b = paPass[w]
    OBVIOUS
  <2>2. /\ paPass' = [paPass EXCEPT ![w].todo = @ \ batch, ![w].rows = rows]
        /\ UNCHANGED <<paJob, paReports>>
    BY DEF StatusFails
  <2> HIDE DEF batch, rows
  <2>3. DOMAIN paPass' = DOMAIN paPass /\ \A v \in PaWorkers : v # w => paPass'[v] = paPass[v]
    BY <2>2 DEF PaInv
  <2>4. paPass'[w] = [b EXCEPT !.todo = b.todo \ batch, !.rows = rows]
    BY <1>1, <2>1, <2>2
  <2>5. b = [todo |-> b.todo, rows |-> b.rows, reports |-> b.reports]
    BY <1>1, <2>1 DEF PaPassOK
  <2>6. paPass'[w] = [todo |-> b.todo \ batch, rows |-> rows, reports |-> b.reports]
    BY <2>4, <2>5
  <2> QED BY <2>1, <2>2, <2>3, <2>6
<1>3. \A j \in batch : PaRow(paPass[w].rows[j]) /\ PaActive(paPass[w].rows[j])
  BY <1>1 DEF PaPassOK
<1>4. \A j \in batch : PaRow(rows[j]) /\ rows[j].status # "completed"
  <2> TAKE j \in batch
  <2>1. rows[j] = MarkTransientError(paPass[w].rows[j])
    BY <1>1 DEF PaPassOK
  <2>2. PaRow(paPass[w].rows[j]) /\ PaActive(paPass[w].rows[j])
    BY <1>3
  <2> QED BY <2>1, <2>2, Erred
<1>5. \A j \in batch : paPass[w].rows[j].status # "completed"
  BY <1>3 DEF PaActive
<1>6. \A j \in DOMAIN rows \ batch : rows[j] = paPass[w].rows[j]
  OBVIOUS
<1>7. DOMAIN rows = DOMAIN paPass[w].rows
  OBVIOUS
<1>8. PaPassOK(c, paJob, paReports)
  <2> HIDE DEF batch, rows
  <2> QED BY <1>1, <1>4, <1>5, <1>6, <1>7 DEF PaPassOK
<1>9. \A v \in PaWorkers : v # w => DOMAIN c.rows \cap DOMAIN paPass[v].rows = {}
  BY <1>7 DEF PaInv
<1> HIDE DEF c
<1>10. PassMoved(w, c)
  BY <1>2, <1>8, <1>9 DEF PassMoved
<1> QED
  BY <1>10, PassMoves

LEMMA PollJobKeeps ==
    ASSUME PaInv, NEW w \in PaWorkers, NEW j \in paPass[w].todo, PollJob(w, j)
    PROVE  PaInv'
<1>1. PaPassOK(paPass[w], paJob, paReports) /\ w \in DOMAIN paPass
  BY DEF PaInv
<1>2. PICK row : row = paPass[w].rows[j]
  OBVIOUS
<1>3. PaRow(row)
  BY <1>1, <1>2 DEF PaPassOK
<1>4. CASE CleanupCompletedJob(w, j)
  <2>1. PICK out \in DeleteOutcomes(j) : PaSettle(w, j, [row EXCEPT !.cleaned = out.deleted], out.core)
    BY <1>2, <1>4 DEF CleanupCompletedJob
  <2>2. PaRow([row EXCEPT !.cleaned = out.deleted]) /\ [row EXCEPT !.cleaned = out.deleted].status = row.status
    BY <1>3 DEF PaRow
  <2> QED BY <1>2, <2>1, <2>2, Settles
<1>5. CASE StillPending(w, j)
  BY <1>2, <1>3, <1>5, Settles DEF StillPending
<1>6. CASE ResultFails(w, j)
  <2>1. PaActive(row) /\ PaSettle(w, j, MarkTransientError(row), paCore[j])
    BY <1>2, <1>6 DEF ResultFails
  <2>2. PaRow(MarkTransientError(row)) /\ MarkTransientError(row).status # "completed"
    BY <1>3, <2>1, Erred
  <2>3. row.status # "completed"
    BY <2>1 DEF PaActive
  <2> QED BY <1>2, <2>1, <2>2, <2>3, Settles
<1>7. CASE \E out \in DeleteOutcomes(j) : ProcessCompletedJob(w, j, out)
  <2>1. PICK out \in DeleteOutcomes(j) : ProcessCompletedJob(w, j, out)
    BY <1>7
  <2>2. PICK closed : closed = [row EXCEPT !.status = "completed", !.cleaned = out.deleted]
    OBVIOUS
  <2>3. PaRow(closed) /\ closed.status = "completed"
    BY <1>3, <2>2 DEF PaRow
  <2>4. /\ paPass' = [paPass EXCEPT ![w].todo = @ \ {j},
                                    ![w].reports = paPass[w].reports \cup {j},
                                    ![w].rows[j] = closed]
        /\ UNCHANGED <<paJob, paReports>>
    BY <1>1, <1>2, <2>1, <2>2 DEF ProcessCompletedJob, PaPassOK
  <2> QED BY <2>3, <2>4, RowMoves
<1>8. CASE ProcessFailedJob(w, j)
  <2>1. PaActive(row) /\ row.status # "completed"
    BY <1>2, <1>8 DEF ProcessFailedJob, PaActive
  <2>2. \/ PaSettle(w, j, [row EXCEPT !.status = "failed"], paCore[j])
        \/ PaSettle(w, j, [row EXCEPT !.attempt = @ + 1, !.status = "resubmitted"], "failed")
        \/ PaSettle(w, j, MarkTransientError(row), paCore[j])
    BY <1>2, <1>8 DEF ProcessFailedJob
  <2>3. PaRow(MarkTransientError(row)) /\ MarkTransientError(row).status # "completed"
    BY <1>3, <2>1, Erred
  <2>4. PICK again : again = [row EXCEPT !.attempt = @ + 1, !.status = "resubmitted"]
    OBVIOUS
  <2>5. PICK over : over = [row EXCEPT !.status = "failed"]
    OBVIOUS
  <2>6. PaRow(again) /\ again.status = "resubmitted" /\ PaRow(over) /\ over.status = "failed"
    BY <1>3, <2>4, <2>5 DEF PaRow
  <2> QED BY <1>2, <2>1, <2>2, <2>3, <2>4, <2>5, <2>6, Settles
<1> QED
  BY <1>4, <1>5, <1>6, <1>7, <1>8 DEF PollJob

\* What a commit leaves of a row.
LEMMA Committed ==
    ASSUME PaInv, NEW w \in PaWorkers, PollCommit(w)
    PROVE  /\ DOMAIN paJob' = PaJobs
           /\ \A j \in PaJobs \ DOMAIN paPass[w].rows : paJob'[j] = paJob[j]
           /\ \A j \in DOMAIN paPass[w].rows :
                  /\ PaRow(paJob'[j])
                  /\ paJob'[j].status = "completed" <=> j \in paReports'
                  /\ paJob[j].status \in {"pending", "completed"}
                  /\ paJob[j].status = "completed" => paJob'[j].status = "completed"
<1>1. PaPassOK(paPass[w], paJob, paReports)
  BY DEF PaInv
<1>2. PICK rows : rows = paPass[w].rows
  OBVIOUS
<1>3. paJob' = [j \in PaJobs |->
                  IF j \in {i \in DOMAIN rows : rows[i].status = "resubmitted"}
                  THEN [rows[j] EXCEPT !.status = "pending"]
                  ELSE IF j \in DOMAIN rows THEN rows[j] ELSE paJob[j]]
  BY <1>2 DEF PollCommit
<1>4. paReports' = paReports \cup paPass[w].reports
  BY DEF PollCommit
<1>5. ASSUME NEW j \in DOMAIN rows
      PROVE  /\ PaRow(paJob'[j])
             /\ paJob'[j].status = "completed" <=> j \in paReports'
             /\ paJob[j].status \in {"pending", "completed"}
             /\ paJob[j].status = "completed" => paJob'[j].status = "completed"
  <2>1. /\ j \in PaJobs /\ PaRow(rows[j]) /\ paJob[j].status \in {"pending", "completed"}
        /\ rows[j].status = "completed" <=> j \in paReports'
    BY <1>1, <1>2, <1>4 DEF PaPassOK
  <2>2. paJob[j].status = "completed" => j \in paReports'
    BY <1>4, <2>1 DEF PaInv, ReportsMatchJobs
  <2>3. CASE rows[j].status = "resubmitted"
    <3>1. PICK r : r = rows[j]
      OBVIOUS
    <3>2. paJob'[j] = [r EXCEPT !.status = "pending"]
      BY <1>3, <2>1, <2>3, <3>1
    <3>3. PaRow(paJob'[j]) /\ paJob'[j].status = "pending"
      BY <2>1, <3>1, <3>2 DEF PaRow
    <3> QED BY <2>1, <2>2, <2>3, <3>3
  <2>4. CASE rows[j].status # "resubmitted"
    <3>1. paJob'[j] = rows[j]
      BY <1>3, <2>1, <2>4
    <3>2. PICK k : k = rows[j]
      OBVIOUS
    <3>3. PaRow(k) /\ (k.status = "completed" <=> j \in paReports') /\ paJob'[j] = k
      BY <2>1, <3>1, <3>2
    <3> QED BY <2>1, <2>2, <3>3
  <2> QED BY <2>3, <2>4
<1>6. DOMAIN paJob' = PaJobs /\ \A j \in PaJobs \ DOMAIN rows : paJob'[j] = paJob[j]
  BY <1>3
<1> QED
  BY <1>2, <1>5, <1>6

LEMMA CommitKeeps == ASSUME PaInv, NEW w \in PaWorkers, PollCommit(w) PROVE PaInv'
<1>1. PaPassOK(paPass[w], paJob, paReports)
  BY DEF PaInv
<1>2. /\ paReports' = paReports \cup paPass[w].reports
      /\ paPass' = [paPass EXCEPT ![w] = PaIdle]
  BY DEF PollCommit
<1>3. /\ DOMAIN paPass' = PaWorkers /\ paPass'[w] = PaIdle
      /\ \A v \in PaWorkers : v # w => paPass'[v] = paPass[v]
  BY <1>2 DEF PaInv
<1>4. \A v \in PaWorkers : PaPassOK(paPass'[v], paJob', paReports')
  <2> TAKE v \in PaWorkers
  <2>1. CASE v = w
    BY <1>3, <2>1, IdlePass
  <2>2. CASE v # w
    <3>1. PaPassOK(paPass[v], paJob, paReports) /\ DOMAIN paPass[v].rows \cap DOMAIN paPass[w].rows = {}
      BY <2>2 DEF PaInv
    <3>2. \A j \in DOMAIN paPass[v].rows :
             paJob'[j] = paJob[j] /\ (j \in paReports' <=> j \in paReports)
      BY <1>1, <1>2, <3>1, Committed DEF PaPassOK
    <3> QED BY <1>3, <2>2, <3>1, <3>2 DEF PaPassOK
  <2> QED BY <2>1, <2>2
<1>5. \A u, v \in PaWorkers : u # v => DOMAIN paPass'[u].rows \cap DOMAIN paPass'[v].rows = {}
  BY <1>3, IdlePass DEF PaInv
<1>6. \A j \in PaJobs : PaRow(paJob'[j]) /\ (paJob'[j].status = "completed" <=> j \in paReports')
  <2> TAKE j \in PaJobs
  <2>1. CASE j \in DOMAIN paPass[w].rows
    BY <2>1, Committed
  <2>2. CASE j \notin DOMAIN paPass[w].rows
    <3>1. paJob'[j] = paJob[j] /\ (j \in paReports' <=> j \in paReports)
      BY <1>1, <1>2, <2>2, Committed DEF PaPassOK
    <3> QED BY <3>1 DEF PaInv, ReportsMatchJobs
  <2> QED BY <2>1, <2>2
<1>7. DOMAIN paJob' = PaJobs
  BY Committed
<1> QED
  BY <1>3, <1>4, <1>5, <1>6, <1>7 DEF PaInv, ReportsMatchJobs

LEMMA DiesKeeps == ASSUME PaInv, NEW w \in PaWorkers, PollDies(w) PROVE PaInv'
<1>1. PICK c : c = PaIdle
  OBVIOUS
<1>2. /\ DOMAIN paPass' = DOMAIN paPass /\ UNCHANGED <<paJob, paReports>>
      /\ \A v \in PaWorkers : paPass'[v] = IF v = w THEN c ELSE paPass[v]
  BY <1>1 DEF PollDies, PaInv
<1>3. PaPassOK(c, paJob, paReports) /\ DOMAIN c.rows = {}
  BY <1>1, IdlePass
<1>4. PassMoved(w, c)
  BY <1>2, <1>3 DEF PassMoved
<1> QED
  BY <1>4, PassMoves

\* Only the dispatch of a new job and the commit of a pass write job rows.
LEMMA OthersKeep == ASSUME PaInv, UNCHANGED <<paJob, paReports, paPass>> PROVE PaInv'
BY DEF PaInv, PaPassOK, PaRow, ReportsMatchJobs

LEMMA StepAnalysis ==
    ASSUME PaInv, [PaNext]_paVars
    PROVE  PaInv' /\ \A j \in PaJobs : PaEnded(j) => paJob'[j].status = paJob[j].status
<1>1. CASE UNCHANGED <<paJob, paReports, paPass>>
  BY <1>1, OthersKeep
<1>2. ASSUME NEW j \in PaJobs, PaSubmit(j)
      PROVE  PaInv' /\ \A k \in PaJobs : PaEnded(k) => paJob'[k].status = paJob[k].status
  <2>1. \A k \in PaJobs : PaEnded(k) => k # j
    BY <1>2 DEF PaSubmit, PaEnded
  <2>2. \A k \in PaJobs : k # j => paJob'[k] = paJob[k]
    BY <1>2 DEF PaSubmit, PaInv
  <2> QED BY <1>2, <2>1, <2>2, SubmitKeeps
<1>3. ASSUME NEW w \in PaWorkers,
             \/ PollStart(w) \/ StatusFails(w) \/ PollDies(w)
             \/ \E j \in paPass[w].todo : PollJob(w, j)
      PROVE  PaInv' /\ UNCHANGED paJob
  <2>1. UNCHANGED paJob
    BY <1>3 DEF PollStart, StatusFails, PollDies, PollJob, CleanupCompletedJob, StillPending,
                ResultFails, ProcessCompletedJob, ProcessFailedJob, PaSettle
  <2> QED BY <1>3, <2>1, PollStartKeeps, StatusFailsKeeps, DiesKeeps, PollJobKeeps
<1>4. ASSUME NEW w \in PaWorkers, PollCommit(w)
      PROVE  PaInv' /\ \A j \in PaJobs : PaEnded(j) => paJob'[j].status = paJob[j].status
  <2>1. \A j \in PaJobs : PaEnded(j) => paJob'[j].status = paJob[j].status
    <3> SUFFICES ASSUME NEW j \in PaJobs, PaEnded(j) PROVE paJob'[j].status = paJob[j].status
      OBVIOUS
    <3>1. CASE j \in DOMAIN paPass[w].rows
      BY <1>4, <3>1, Committed DEF PaEnded
    <3>2. CASE j \notin DOMAIN paPass[w].rows
      BY <1>4, <3>2, Committed
    <3> QED BY <3>1, <3>2
  <2> QED BY <1>4, <2>1, CommitKeeps
<1> QED
  BY <1>1, <1>2, <1>3, <1>4
     DEF PaNext, paVars, ProfileFallsDue, SetProfileActive, DispatchDueProfile, TriggerProfile,
         CoreForgets, CoreFinishes

LEMMA AnalysisKept == PaSpec => []PaInv
<1>1. PaInv /\ [PaNext]_paVars => PaInv'
  BY StepAnalysis
<1> QED
  BY <1>1, InitAnalysis, PTL DEF PaSpec

\* An analysis job is closed exactly when its report is stored, for any number
\* of workers whose passes overlap and die.
THEOREM ReportsMatch == PaSpec => []ReportsMatchJobs
<1>1. PaInv => ReportsMatchJobs
  BY DEF PaInv
<1> QED
  BY <1>1, AnalysisKept, PTL

\* A job that has ended stays as it ended: no pass works on a copy that another
\* pass has closed or given up.
THEOREM JobsStayEnded == PaSpec => JobsEndOnce
<1>1. PaInv /\ [PaNext]_paVars
        => [\A j \in PaJobs : PaEnded(j) => paJob'[j].status = paJob[j].status]_paVars
  BY StepAnalysis
<1> QED
  BY <1>1, AnalysisKept, PTL DEF PaSpec, JobsEndOnce

-----------------------------------------------------------------------------
(* Notifications: how far two passes that overlap exceed the limit.         *)

NtHas(c, e) == \E i \in 1 .. Len(c.todo) : c.todo[i] = e
NtHolds(c, e) == c.pc \in {"send", "commit"} /\ c.todo[1] = e

\* The count that a pass writes one more than: what it read, or is yet to read.
NtCount(c, e, now) == IF NtHolds(c, e) THEN c.held.attempts ELSE now

NtTodoOK(todo) ==
    /\ todo \in Seq(NtEvents)
    /\ \A i, k \in 1 .. Len(todo) : i < k => todo[i] < todo[k]

NtRowOK(r) == r = [status |-> r.status, attempts |-> r.attempts] /\ r.attempts \in Nat

NtPassOK(c) ==
    /\ NtTodoOK(c.todo)
    /\ c.pc \in {"idle", "claim", "send", "commit"}
    /\ c.pc = "idle" <=> c.todo = <<>>
    /\ c.pc \in {"send", "commit"} =>
           /\ c = [pc |-> c.pc, todo |-> c.todo, mute |-> c.mute, held |-> c.held, row |-> c.row]
           /\ NtRowOK(c.held) /\ NtRowOK(c.row)
           /\ c.pc = "send" => c.row.attempts = c.held.attempts
           /\ c.row.attempts \in {c.held.attempts, c.held.attempts + 1}
    /\ c.pc = "commit" => c.row.status # "none"

\* A row that was there when a pass read it is there still.
NtKnown(c, rows) ==
    c.pc \in {"send", "commit"} /\ c.held.status # "none" => rows[c.todo[1]].status # "none"

\* A pass that would count past the limit is the last one that has the event.
NtLimited(e, now, pass) ==
    /\ now <= NtAttempts + Cardinality(NtPasses) - 1
    /\ \A p \in NtPasses : NtHas(pass[p], e) /\ NtCount(pass[p], e, now) >= NtAttempts =>
           /\ NtCount(pass[p], e, now) = NtAttempts /\ now = NtAttempts
           /\ Cardinality(NtPasses) = 2
           /\ \A q \in NtPasses : q # p => ~NtHas(pass[q], e)

NtInv ==
    /\ ntRecent \subseteq NtEvents /\ IsFiniteSet(ntRecent)
    /\ DOMAIN ntRow = NtEvents /\ \A e \in NtEvents : NtRowOK(ntRow[e])
    /\ \A e \in NtEvents : ntRow[e].status = "none" => ntRow[e].attempts = 0
    /\ \A p \in NtPasses : NtKnown(ntPass[p], ntRow)
    /\ DOMAIN ntPass = NtPasses /\ \A p \in NtPasses : NtPassOK(ntPass[p])
    /\ \A e \in NtEvents : NtLimited(e, ntRow[e].attempts, ntPass)

NtCalm == NtAttempts > 0 /\ Cardinality(NtPasses) <= 2

LEMMA NtIdleOK ==
    NtPassOK(NtIdle) /\ (\A e : ~NtHas(NtIdle, e)) /\ \A rows : NtKnown(NtIdle, rows)
<1>1. NtIdle.todo = <<>> /\ NtIdle.pc = "idle" /\ Len(<<>>) = 0 /\ <<>> \in Seq(NtEvents)
  BY DEF NtIdle
<1> QED
  BY <1>1 DEF NtPassOK, NtTodoOK, NtHas, NtKnown

\* Two distinct passes are all there are.
LEMMA TwoPasses ==
    ASSUME NtCalm, NEW p \in NtPasses, NEW q \in NtPasses, p # q
    PROVE  NtPasses = {p, q} /\ Cardinality(NtPasses) = 2
<1>1. IsFiniteSet({p, q}) /\ Cardinality({p, q}) = 2
  <2>1. IsFiniteSet({p}) /\ Cardinality({p}) = 1
    BY FS_Singleton
  <2>2. IsFiniteSet({p} \cup {q}) /\ Cardinality({p} \cup {q}) = 2
    BY <2>1, FS_AddElement
  <2>3. {p} \cup {q} = {p, q}
    OBVIOUS
  <2> QED BY <2>2, <2>3
<1>2. IsFiniteSet(NtPasses)
  BY NotificationsAssumption
<1>3. /\ Cardinality({p, q}) <= Cardinality(NtPasses)
      /\ Cardinality(NtPasses) = Cardinality({p, q}) => NtPasses = {p, q}
  <2>1. {p, q} \in SUBSET NtPasses
    OBVIOUS
  <2> QED BY <1>2, <2>1, FS_Subset
<1>4. Cardinality(NtPasses) \in Nat
  BY <1>2, FS_CardinalityType
<1> QED
  BY <1>1, <1>3, <1>4 DEF NtCalm

LEMMA SomePass ==
    ASSUME NEW p \in NtPasses
    PROVE  Cardinality(NtPasses) \in Nat /\ Cardinality(NtPasses) >= 1
<1>1. IsFiniteSet(NtPasses)
  BY NotificationsAssumption
<1> QED
  BY <1>1, FS_CardinalityType, FS_EmptySet

LEMMA InitNotifications == ASSUME NtCalm, NtInit PROVE NtInv
<1>1. \A p \in NtPasses :
        /\ NtPassOK(ntPass[p]) /\ NtKnown(ntPass[p], ntRow)
        /\ \A e : ~NtHas(ntPass[p], e)
  BY NtIdleOK DEF NtInit
<1>2. Cardinality(NtPasses) \in Nat /\ NtAttempts \in Nat
  BY NotificationsAssumption, FS_CardinalityType
<1>3. 0 <= NtAttempts + Cardinality(NtPasses) - 1
  BY <1>2 DEF NtCalm
<1>4. \A e \in NtEvents : NtRowOK(ntRow[e]) /\ ntRow[e].attempts = 0
  BY DEF NtInit, NtNoRow, NtRowOK
<1>5. \A e \in NtEvents : NtLimited(e, ntRow[e].attempts, ntPass)
  BY <1>1, <1>3, <1>4 DEF NtLimited
<1> QED
  BY <1>1, <1>4, <1>5, FS_EmptySet DEF NtInit, NtInv

\* A pass moves on while the rows stay as they are: what it has it had already,
\* with the same count, or it begins below the limit.
LEMMA NtMoves ==
    ASSUME NtInv, NEW p \in NtPasses, NEW c, NtPassOK(c), NtKnown(c, ntRow), DOMAIN ntPass' = DOMAIN ntPass,
           \A q \in NtPasses : ntPass'[q] = IF q = p THEN c ELSE ntPass[q],
           UNCHANGED <<ntRecent, ntRow>>,
           \A e \in NtEvents : NtHas(c, e) =>
               \/ /\ NtHas(ntPass[p], e)
                  /\ NtCount(c, e, ntRow[e].attempts) = NtCount(ntPass[p], e, ntRow[e].attempts)
               \/ ntRow[e].attempts < NtAttempts /\ ~NtHolds(c, e)
    PROVE  NtInv'
<1>1. \A q \in NtPasses : NtPassOK(ntPass'[q]) /\ NtKnown(ntPass'[q], ntRow')
  BY DEF NtInv
<1>2. ASSUME NEW e \in NtEvents
      PROVE  NtLimited(e, ntRow'[e].attempts, ntPass')
  <2>1. PICK a : a = ntRow[e].attempts
    OBVIOUS
  <2>2. a \in Nat /\ NtLimited(e, a, ntPass) /\ ntRow'[e].attempts = a
    BY <2>1 DEF NtInv, NtRowOK
  <2>3. NtHas(c, e) => \/ NtHas(ntPass[p], e) /\ NtCount(c, e, a) = NtCount(ntPass[p], e, a)
                       \/ a < NtAttempts /\ NtCount(c, e, a) = a
    BY <2>1 DEF NtCount
  <2>4. ASSUME NEW q \in NtPasses, NtHas(ntPass'[q], e), NtCount(ntPass'[q], e, a) >= NtAttempts
        PROVE  /\ NtCount(ntPass'[q], e, a) = NtAttempts /\ a = NtAttempts
               /\ Cardinality(NtPasses) = 2
               /\ \A r \in NtPasses : r # q => ~NtHas(ntPass'[r], e)
    <3>0. NtAttempts \in Nat
      BY NotificationsAssumption
    <3>1. NtHas(ntPass[q], e) /\ NtCount(ntPass'[q], e, a) = NtCount(ntPass[q], e, a)
      BY <2>2, <2>3, <2>4, <3>0
    <3>2. /\ NtCount(ntPass[q], e, a) = NtAttempts /\ a = NtAttempts
          /\ Cardinality(NtPasses) = 2
          /\ \A r \in NtPasses : r # q => ~NtHas(ntPass[r], e)
      BY <2>2, <2>4, <3>1 DEF NtLimited
    <3>3. \A r \in NtPasses : r # q => ~NtHas(ntPass'[r], e)
      BY <2>3, <3>0, <3>2
    <3> QED BY <3>1, <3>2, <3>3
  <2> QED BY <2>2, <2>4 DEF NtLimited
<1> QED
  BY <1>1, <1>2 DEF NtInv

LEMMA StartsNt == ASSUME NtInv, NtCalm, NEW p \in NtPasses, StartPass(p) PROVE NtInv'
<1>1. PICK todo \in [1 .. Cardinality(Candidates) -> Candidates] :
        /\ \A i, j \in DOMAIN todo : i < j => todo[i] < todo[j]
        /\ ntPass' = [ntPass EXCEPT ![p] = [pc |-> "claim", todo |-> todo,
                                            mute |-> SkipReason(ntUser)]]
  BY DEF StartPass
<1>2. PICK c : c = [pc |-> "claim", todo |-> todo, mute |-> SkipReason(ntUser)]
  OBVIOUS
<1>3. Cardinality(Candidates) \in Nat /\ Cardinality(Candidates) > 0
  <2>1. Candidates \in SUBSET ntRecent /\ IsFiniteSet(ntRecent) /\ Candidates # {}
    BY DEF Candidates, NtInv, StartPass
  <2>2. IsFiniteSet(Candidates)
    BY <2>1, FS_Subset
  <2> QED BY <2>1, <2>2, FS_CardinalityType, FS_EmptySet
<1>4. Candidates \subseteq NtEvents
  BY DEF Candidates, NtInv
<1>5. todo \in Seq(NtEvents) /\ Len(todo) = Cardinality(Candidates)
  BY <1>1, <1>3, <1>4
<1>6. NtPassOK(c)
  <2>1. c.pc = "claim" /\ c.todo = todo
    BY <1>2
  <2>2. todo # <<>>
    BY <1>3, <1>5
  <2>3. DOMAIN todo = 1 .. Len(todo)
    BY <1>5
  <2> QED BY <1>1, <1>5, <2>1, <2>2, <2>3 DEF NtPassOK, NtTodoOK
<1>7. \A e \in NtEvents : NtHas(c, e) => ntRow[e].attempts < NtAttempts /\ ~NtHolds(c, e)
  <2> SUFFICES ASSUME NEW e \in NtEvents, NtHas(c, e)
               PROVE  ntRow[e].attempts < NtAttempts /\ ~NtHolds(c, e)
    OBVIOUS
  <2>1. e \in Candidates
    BY <1>1, <1>2, <1>5 DEF NtHas
  <2>2. ntRow[e].status = "none" => ntRow[e].attempts = 0
    BY DEF NtInv
  <2>3. NtAttempts \in Nat /\ NtAttempts > 0
    BY NotificationsAssumption DEF NtCalm
  <2> QED BY <1>2, <2>1, <2>2, <2>3 DEF NtHolds, Candidates
<1>8. /\ DOMAIN ntPass' = DOMAIN ntPass /\ UNCHANGED <<ntRecent, ntRow>>
      /\ \A q \in NtPasses : ntPass'[q] = IF q = p THEN c ELSE ntPass[q]
  BY <1>1, <1>2 DEF NtInv, StartPass
<1>9. NtKnown(c, ntRow)
  BY <1>2 DEF NtKnown
<1> QED
  BY <1>6, <1>7, <1>8, <1>9, NtMoves

LEMMA ClaimsNt == ASSUME NtInv, NEW p \in NtPasses, ClaimDelivery(p) PROVE NtInv'
<1>1. PICK b : b = ntPass[p]
  OBVIOUS
<1>2. NtPassOK(b) /\ b.pc = "claim"
  BY <1>1 DEF NtInv, ClaimDelivery
<1>3. /\ b.todo \in Seq(NtEvents) /\ Len(b.todo) >= 1 /\ 1 \in 1 .. Len(b.todo)
      /\ Head(b.todo) = b.todo[1] /\ b.todo[1] \in NtEvents
  <2>1. b.todo \in Seq(NtEvents) /\ b.todo # <<>>
    BY <1>2 DEF NtPassOK, NtTodoOK
  <2> QED BY <2>1
<1>4. PICK e \in NtEvents : e = b.todo[1]
  BY <1>3
<1>5. PICK row : row = ntRow[e]
  OBVIOUS
<1>6. PICK c : c = [pc |-> "send", todo |-> b.todo, mute |-> b.mute, held |-> row, row |-> row]
  OBVIOUS
<1>7. /\ DOMAIN ntPass' = DOMAIN ntPass /\ UNCHANGED <<ntRecent, ntRow>>
      /\ \A q \in NtPasses : ntPass'[q] = IF q = p THEN c ELSE ntPass[q]
  BY <1>1, <1>3, <1>4, <1>5, <1>6 DEF NtInv, ClaimDelivery, Current
<1>8. NtRowOK(row)
  BY <1>5 DEF NtInv
<1>9. NtPassOK(c)
  <2>1. NtTodoOK(c.todo) /\ c.todo # <<>>
    BY <1>2, <1>6 DEF NtPassOK
  <2> QED BY <1>6, <1>8, <2>1 DEF NtPassOK
<1>10. NtKnown(c, ntRow)
  BY <1>4, <1>5, <1>6 DEF NtKnown
<1>11. ASSUME NEW f \in NtEvents, NtHas(c, f)
       PROVE  NtHas(b, f) /\ NtCount(c, f, ntRow[f].attempts) = NtCount(b, f, ntRow[f].attempts)
  <2>1. NtHas(b, f)
    BY <1>6, <1>11 DEF NtHas
  <2>2. ~NtHolds(b, f) /\ (NtHolds(c, f) <=> f = e) /\ c.held.attempts = ntRow[e].attempts
    BY <1>2, <1>4, <1>5, <1>6 DEF NtHolds
  <2> QED BY <2>1, <2>2 DEF NtCount
<1> QED
  BY <1>1, <1>7, <1>9, <1>10, <1>11, NtMoves

\* A pass that ends early has no event any more.
LEMMA StopsNt == ASSUME NtInv, NEW p \in NtPasses, LosesRace(p) \/ PassDies(p) PROVE NtInv'
<1>1. PICK c : c = NtIdle
  OBVIOUS
<1>2. /\ DOMAIN ntPass' = DOMAIN ntPass /\ UNCHANGED <<ntRecent, ntRow>>
      /\ \A q \in NtPasses : ntPass'[q] = IF q = p THEN c ELSE ntPass[q]
  BY <1>1 DEF NtInv, LosesRace, PassDies
<1>3. NtPassOK(c) /\ NtKnown(c, ntRow) /\ \A e : ~NtHas(c, e)
  BY <1>1, NtIdleOK
<1> QED
  BY <1>2, <1>3, NtMoves

\* A result is recorded in the pass's copy of the row.
LEMMA SendsNt == ASSUME NtInv, NEW p \in NtPasses, SendStep(p) PROVE NtInv'
<1>1. PICK b : b = ntPass[p]
  OBVIOUS
<1>2. /\ NtPassOK(b) /\ NtKnown(b, ntRow) /\ b.pc = "send"
      /\ DOMAIN ntPass' = DOMAIN ntPass /\ UNCHANGED <<ntRecent, ntRow>>
      /\ \A q \in NtPasses : q # p => ntPass'[q] = ntPass[q]
  BY <1>1 DEF NtInv, SendStep, SendMessage, Skip
<1>3. /\ b = [pc |-> b.pc, todo |-> b.todo, mute |-> b.mute, held |-> b.held, row |-> b.row]
      /\ NtRowOK(b.held) /\ NtRowOK(b.row) /\ b.row.attempts = b.held.attempts
  BY <1>2 DEF NtPassOK
<1>4. PICK row, mute :
        /\ ntPass'[p] = [pc |-> "commit", todo |-> b.todo, mute |-> mute, held |-> b.held, row |-> row]
        /\ NtRowOK(row) /\ row.attempts \in {b.held.attempts, b.held.attempts + 1}
        /\ row.status # "none"
  <2>1. CASE Skip(p)
    <3>1. PICK r : r = [b.row EXCEPT !.status = "skipped"]
      OBVIOUS
    <3>2. ntPass'[p] = [b EXCEPT !.pc = "commit", !.row = r]
      BY <1>1, <1>3, <2>1, <3>1 DEF Skip, NtInv
    <3>3. ntPass'[p] = [pc |-> "commit", todo |-> b.todo, mute |-> b.mute, held |-> b.held, row |-> r]
      BY <1>3, <3>2
    <3>4. PICK s : s = b.row
      OBVIOUS
    <3>5. r = [status |-> "skipped", attempts |-> s.attempts]
      BY <1>3, <3>1, <3>4 DEF NtRowOK
    <3>6. NtRowOK(r) /\ r.attempts = b.held.attempts /\ r.status = "skipped"
      BY <1>3, <3>4, <3>5 DEF NtRowOK
    <3> QED BY <3>3, <3>6
  <2>2. ASSUME NEW result \in {"sent", "error", "forbidden"}, SendMessage(p, result)
        PROVE  \E row, mute :
                 /\ ntPass'[p] = [pc |-> "commit", todo |-> b.todo, mute |-> mute,
                                  held |-> b.held, row |-> row]
                 /\ NtRowOK(row) /\ row.attempts \in {b.held.attempts, b.held.attempts + 1}
                 /\ row.status # "none"
    <3>1. PICK r : r = RecordResult(b.row, result)
      OBVIOUS
    <3>2. PICK m : m = (result = "forbidden")
      OBVIOUS
    <3>3. ntPass'[p] = [b EXCEPT !.pc = "commit", !.row = r, !.mute = m]
      BY <1>1, <1>3, <2>2, <3>1, <3>2 DEF SendMessage, NtInv
    <3>4. ntPass'[p] = [pc |-> "commit", todo |-> b.todo, mute |-> m, held |-> b.held, row |-> r]
      BY <1>3, <3>3
    <3>5. b.row.attempts \in Nat
      BY <1>3 DEF NtRowOK
    <3>6. NtRowOK(r) /\ r.attempts = b.held.attempts + 1 /\ r.status # "none"
      BY <1>3, <3>1, <3>5 DEF RecordResult, NtRowOK
    <3> QED BY <3>4, <3>6
  <2> QED BY <2>1, <2>2 DEF SendStep
<1>5. PICK c : c = [pc |-> "commit", todo |-> b.todo, mute |-> mute, held |-> b.held, row |-> row]
  OBVIOUS
<1>6. \A q \in NtPasses : ntPass'[q] = IF q = p THEN c ELSE ntPass[q]
  BY <1>2, <1>4, <1>5
<1>7. NtPassOK(c)
  <2>1. NtTodoOK(c.todo) /\ c.todo # <<>>
    BY <1>2, <1>5 DEF NtPassOK
  <2> QED BY <1>3, <1>4, <1>5, <2>1 DEF NtPassOK
<1>8. NtKnown(c, ntRow)
  BY <1>2, <1>5 DEF NtKnown
<1>9. ASSUME NEW f \in NtEvents, NtHas(c, f)
      PROVE  NtHas(b, f) /\ NtCount(c, f, ntRow[f].attempts) = NtCount(b, f, ntRow[f].attempts)
  BY <1>2, <1>5, <1>9 DEF NtHas, NtHolds, NtCount
<1> QED
  BY <1>1, <1>2, <1>6, <1>7, <1>8, <1>9, NtMoves

\* What is left to do after the first event.
LEMMA Rest ==
    ASSUME NEW todo, NtTodoOK(todo), Len(todo) > 1
    PROVE  /\ NtTodoOK(Tail(todo)) /\ Tail(todo) # <<>>
           /\ \A i \in 1 .. Len(Tail(todo)) : Tail(todo)[i] # todo[1]
                                              /\ \E k \in 1 .. Len(todo) : Tail(todo)[i] = todo[k]
<1>1. todo \in Seq(NtEvents) /\ Len(todo) \in Nat
  BY DEF NtTodoOK
<1>2. /\ Tail(todo) \in Seq(NtEvents) /\ Len(Tail(todo)) = Len(todo) - 1
      /\ \A i \in 1 .. Len(todo) - 1 : Tail(todo)[i] = todo[i + 1]
  BY <1>1
<1>3. \A i \in 1 .. Len(todo) - 1 : i + 1 \in 1 .. Len(todo) /\ 1 \in 1 .. Len(todo) /\ 1 < i + 1
  BY <1>1
<1>4. \A i, k \in 1 .. Len(todo) - 1 : i < k => todo[i + 1] < todo[k + 1]
  BY <1>1, <1>3 DEF NtTodoOK
<1>5. \A i \in 1 .. Len(todo) - 1 : todo[1] < todo[i + 1]
  BY <1>3 DEF NtTodoOK
<1>6. \A i \in 1 .. Len(todo) : todo[i] \in Int
  <2> TAKE i \in 1 .. Len(todo)
  <2>1. todo[i] \in NtEvents
    BY <1>1
  <2> QED BY <2>1, NotificationsAssumption
<1>7. \A i \in 1 .. Len(todo) - 1 : todo[1] # todo[i + 1]
  BY <1>3, <1>5, <1>6
<1>8. PICK t : t = Tail(todo)
  OBVIOUS
<1>9. t \in Seq(NtEvents) /\ Len(t) = Len(todo) - 1 /\ Len(t) > 0
  BY <1>1, <1>2, <1>8
<1>10. \A i \in 1 .. Len(t) : t[i] = todo[i + 1] /\ i \in 1 .. Len(todo) - 1
  BY <1>2, <1>8, <1>9
<1>11. NtTodoOK(t)
  BY <1>4, <1>9, <1>10 DEF NtTodoOK
<1>12. t # <<>>
  BY <1>9
<1>13. \A i \in 1 .. Len(t) : t[i] # todo[1] /\ \E k \in 1 .. Len(todo) : t[i] = todo[k]
  BY <1>3, <1>7, <1>10
<1> QED
  BY <1>8, <1>11, <1>12, <1>13

\* A commit writes one more than the pass had read, or leaves the count alone.
LEMMA CommitsNt == ASSUME NtInv, NtCalm, NEW p \in NtPasses, CommitEvent(p) PROVE NtInv'
<1>1. PICK b : b = ntPass[p]
  OBVIOUS
<1>2. NtPassOK(b) /\ NtKnown(b, ntRow) /\ b.pc = "commit"
  BY <1>1 DEF NtInv, CommitEvent
<1>3. /\ b.todo \in Seq(NtEvents) /\ Len(b.todo) >= 1 /\ 1 \in 1 .. Len(b.todo)
      /\ Len(b.todo) # 1 => Len(b.todo) > 1
      /\ Head(b.todo) = b.todo[1] /\ b.todo[1] \in NtEvents
  <2>1. b.todo \in Seq(NtEvents) /\ b.todo # <<>>
    BY <1>2 DEF NtPassOK, NtTodoOK
  <2>2. Len(b.todo) \in Nat /\ Len(b.todo) >= 1
    BY <2>1
  <2>3. Len(b.todo) # 1 => Len(b.todo) > 1
    <3>1. PICK n \in Nat : n = Len(b.todo)
      BY <2>2
    <3>2. n >= 1 => (n # 1 => n > 1)
      OBVIOUS
    <3> QED BY <2>2, <3>1, <3>2
  <2> QED BY <2>1, <2>2, <2>3
<1>4. PICK e \in NtEvents : e = b.todo[1]
  BY <1>3
<1>5. PICK h \in Nat : h = b.held.attempts
  BY <1>2 DEF NtPassOK, NtRowOK
<1>6. PICK c : c = IF Len(b.todo) = 1 THEN NtIdle
                   ELSE [pc |-> "claim", todo |-> Tail(b.todo), mute |-> b.mute]
  OBVIOUS
<1>7. PICK row : row = [status |-> NtWritten(b.row.status, b.held.status, ntRow[e].status),
                        attempts |-> NtWritten(b.row.attempts, b.held.attempts, ntRow[e].attempts)]
  OBVIOUS
<1>8. /\ DOMAIN ntPass' = DOMAIN ntPass /\ UNCHANGED ntRecent
      /\ \A q \in NtPasses : ntPass'[q] = IF q = p THEN c ELSE ntPass[q]
  BY <1>1, <1>6 DEF NtInv, CommitEvent
<1>9. ntRow' = [ntRow EXCEPT ![e] = row]
  BY <1>1, <1>3, <1>4, <1>7 DEF CommitEvent, Current
<1>10. /\ DOMAIN ntRow' = NtEvents /\ ntRow'[e] = row
       /\ \A f \in NtEvents : f # e => ntRow'[f] = ntRow[f]
  BY <1>9 DEF NtInv
<1>11. PICK a \in Nat : a = ntRow[e].attempts
  BY DEF NtInv, NtRowOK
<1>12. row.attempts \in {a, h + 1}
  BY <1>2, <1>5, <1>7, <1>11 DEF NtPassOK, NtWritten
<1>13. row.status # "none"
  BY <1>2, <1>4, <1>7 DEF NtPassOK, NtKnown, NtWritten
<1>14. NtRowOK(row)
  BY <1>7, <1>12 DEF NtRowOK
<1>15. NtPassOK(c) /\ (\A rows : NtKnown(c, rows)) /\ c.pc \notin {"send", "commit"}
  <2>1. CASE Len(b.todo) = 1
    BY <1>6, <2>1, NtIdleOK DEF NtIdle
  <2>2. CASE Len(b.todo) # 1
    <3>1. c.pc = "claim" /\ c.todo = Tail(b.todo)
      BY <1>6, <2>2
    <3>2. NtTodoOK(c.todo) /\ c.todo # <<>>
      BY <1>2, <1>3, <2>2, <3>1, Rest DEF NtPassOK
    <3> QED BY <3>1, <3>2 DEF NtPassOK, NtKnown
  <2> QED BY <2>1, <2>2
<1>16. ~NtHas(c, e) /\ \A f \in NtEvents : NtHas(c, f) => NtHas(b, f)
  <2>1. CASE Len(b.todo) = 1
    BY <1>6, <2>1, NtIdleOK
  <2>2. CASE Len(b.todo) # 1
    <3>1. c.todo = Tail(b.todo)
      BY <1>6, <2>2
    <3>2. \A i \in 1 .. Len(c.todo) : c.todo[i] # e /\ \E k \in 1 .. Len(b.todo) : c.todo[i] = b.todo[k]
      BY <1>2, <1>3, <1>4, <2>2, <3>1, Rest DEF NtPassOK
    <3> QED BY <3>2 DEF NtHas
  <2> QED BY <2>1, <2>2
<1>17. \A q \in NtPasses : NtPassOK(ntPass'[q]) /\ NtKnown(ntPass'[q], ntRow')
  <2> TAKE q \in NtPasses
  <2>1. CASE q = p
    BY <1>8, <1>15, <2>1
  <2>2. CASE q # p
    <3>1. ntPass'[q] = ntPass[q] /\ NtPassOK(ntPass[q]) /\ NtKnown(ntPass[q], ntRow)
      BY <1>8, <2>2 DEF NtInv
    <3>2. PICK d : d = ntPass[q]
      OBVIOUS
    <3>3. d.pc \in {"send", "commit"} => d.todo[1] \in NtEvents
      <4> SUFFICES ASSUME d.pc \in {"send", "commit"} PROVE d.todo[1] \in NtEvents
        OBVIOUS
      <4>1. d.todo \in Seq(NtEvents) /\ d.todo # <<>>
        BY <3>1, <3>2 DEF NtPassOK, NtTodoOK
      <4> QED BY <4>1
    <3>4. NtKnown(d, ntRow')
      BY <1>10, <1>13, <3>1, <3>2, <3>3 DEF NtKnown
    <3> QED BY <3>1, <3>2, <3>4
  <2> QED BY <2>1, <2>2
<1>18. ASSUME NEW f \in NtEvents, f # e PROVE NtLimited(f, ntRow'[f].attempts, ntPass')
  <2>1. PICK n : n = ntRow[f].attempts
    OBVIOUS
  <2>2. ntRow'[f].attempts = n /\ NtLimited(f, n, ntPass)
    BY <1>10, <1>18, <2>1 DEF NtInv
  <2>3. NtHas(c, f) => NtHas(b, f) /\ NtCount(c, f, n) = NtCount(b, f, n)
    <3>1. ~NtHolds(b, f) /\ ~NtHolds(c, f)
      BY <1>4, <1>15, <1>18 DEF NtHolds
    <3> QED BY <1>16, <3>1 DEF NtCount
  <2>4. \A q \in NtPasses :
          NtHas(ntPass'[q], f) => /\ NtHas(ntPass[q], f)
                                  /\ NtCount(ntPass'[q], f, n) = NtCount(ntPass[q], f, n)
    BY <1>1, <1>8, <2>3
  <2> QED BY <2>2, <2>4 DEF NtLimited
<1>19. NtLimited(e, row.attempts, ntPass')
  <2>0. NtAttempts \in Nat /\ Cardinality(NtPasses) \in {1, 2} /\ NtLimited(e, a, ntPass)
    <3>1. Cardinality(NtPasses) \in Nat /\ 1 <= Cardinality(NtPasses) /\ Cardinality(NtPasses) <= 2
      BY SomePass DEF NtCalm
    <3> QED BY <1>11, <3>1, NotificationsAssumption DEF NtInv
  <2>1. NtHas(b, e) /\ NtCount(b, e, a) = h
    BY <1>2, <1>3, <1>4, <1>5 DEF NtHas, NtHolds, NtCount
  <2>2. h >= NtAttempts => /\ h = NtAttempts /\ Cardinality(NtPasses) = 2
                           /\ \A q \in NtPasses : q # p => ~NtHas(ntPass[q], e)
    BY <1>1, <2>0, <2>1 DEF NtLimited
  <2>3. row.attempts <= NtAttempts + Cardinality(NtPasses) - 1
    <3>1. a <= NtAttempts + Cardinality(NtPasses) - 1
      BY <2>0 DEF NtLimited
    <3> QED BY <1>12, <2>0, <2>2, <3>1
  <2>4. ASSUME NEW q \in NtPasses, NtHas(ntPass'[q], e),
               NtCount(ntPass'[q], e, row.attempts) >= NtAttempts
        PROVE  /\ NtCount(ntPass'[q], e, row.attempts) = NtAttempts /\ row.attempts = NtAttempts
               /\ Cardinality(NtPasses) = 2
               /\ \A r \in NtPasses : r # q => ~NtHas(ntPass'[r], e)
    <3>1. q # p /\ ntPass'[q] = ntPass[q]
      BY <1>8, <1>16, <2>4
    <3>2. NtPasses = {p, q} /\ Cardinality(NtPasses) = 2 /\ ~NtHas(ntPass'[p], e)
      BY <1>8, <1>16, <3>1, TwoPasses
    <3>3. h < NtAttempts
      BY <2>0, <2>2, <2>4, <3>1
    <3>4. ~(NtCount(ntPass[q], e, a) >= NtAttempts)
      BY <1>1, <2>0, <2>1, <2>4, <3>1 DEF NtLimited
    <3>5. ~NtHolds(ntPass[q], e)
      BY <2>4, <3>1, <3>4 DEF NtCount
    <3>6. row.attempts >= NtAttempts /\ ~(a >= NtAttempts)
      BY <2>4, <3>1, <3>4, <3>5 DEF NtCount
    <3>7. row.attempts = NtAttempts
      BY <1>12, <2>0, <3>3, <3>6
    <3>8. NtCount(ntPass'[q], e, row.attempts) = NtAttempts
      BY <3>1, <3>5, <3>7 DEF NtCount
    <3> QED BY <3>2, <3>7, <3>8
  <2> QED BY <2>3, <2>4 DEF NtLimited
<1>20. \A f \in NtEvents : NtLimited(f, ntRow'[f].attempts, ntPass')
  BY <1>10, <1>18, <1>19
<1>21. \A f \in NtEvents : NtRowOK(ntRow'[f]) /\ (ntRow'[f].status = "none" => ntRow'[f].attempts = 0)
  BY <1>10, <1>13, <1>14 DEF NtInv
<1> QED
  BY <1>8, <1>10, <1>17, <1>20, <1>21 DEF NtInv

LEMMA StepNotifications == ASSUME NtCalm, NtInv, [NtNext]_ntVars PROVE NtInv'
<1>1. CASE UNCHANGED <<ntRecent, ntRow, ntPass>>
  BY <1>1 DEF NtInv
<1>2. ASSUME NEW e \in NtEvents, EmitEvent(e) PROVE NtInv'
  <2>1. ntRecent' = ntRecent \cup {e} /\ UNCHANGED <<ntRow, ntPass>>
    BY <1>2 DEF EmitEvent
  <2>2. ntRecent' \subseteq NtEvents /\ IsFiniteSet(ntRecent')
    BY <2>1, FS_AddElement DEF NtInv
  <2> QED BY <2>1, <2>2 DEF NtInv
<1>3. ASSUME NEW p \in NtPasses, StartPass(p) \/ PassStep(p) \/ PassDies(p) PROVE NtInv'
  BY <1>3, StartsNt, ClaimsNt, StopsNt, SendsNt, CommitsNt DEF PassStep
<1> QED
  BY <1>1, <1>2, <1>3 DEF NtNext, ntVars, GenerateLink, CodeExpires, Unlink, HandleStart,
     UpdateSettings, UserWrites

\* The limit on attempts holds for two passes that overlap up to one attempt, for
\* any limit and number of events, although each may write an old count over the
\* other's.
THEOREM LimitOnAttempts == NtSpec => []AttemptsLimited
<1>1. CASE NtCalm
  <2>1. NtInit => NtInv
    BY <1>1, InitNotifications
  <2>2. NtInv /\ [NtNext]_ntVars => NtInv'
    BY <1>1, StepNotifications
  <2>3. NtInv => AttemptsLimited
    BY DEF NtInv, NtLimited, AttemptsLimited
  <2> QED BY <2>1, <2>2, <2>3, PTL DEF NtSpec
<1>2. CASE ~NtCalm
  <2>1. AttemptsLimited
    BY <1>2 DEF NtCalm, AttemptsLimited
  <2> QED BY <2>1, PTL
<1> QED
  BY <1>1, <1>2

-----------------------------------------------------------------------------
(* The components side by side: a component that rests does so in a state   *)
(* of its invariant, and a step of one is none of another.                  *)

ProgressInv == IInv /\ VsInv /\ CloseInv /\ PaInv /\ (NtCalm => NtInv)

LEMMA ProgressBegins == ProgressInit => ProgressInv
<1>1. StreamIsUp => IInv
  BY ZeroTyped DEF StreamIsUp, IInv, TypeOK, HandlerInv, DisconnectedHasNoStream, Running
<1>2. PositionIsClosed => CloseInv
  BY DEF PositionIsClosed, CloseInv, VenueShape, RowShape, Flat, PcIdle
<1> QED
  BY <1>1, <1>2, InitInv, InitClose, InitStream, InitAnalysis, InitNotifications
     DEF ProgressInit, ProgressInv

LEMMA ProgressStep ==
    ASSUME ProgressInv, [ProgressNext]_<<part, vars, vsVars, paVars, ntVars, pcVars>>
    PROVE  ProgressInv' /\ \A j \in PaJobs : PaEnded(j) => paJob'[j].status = paJob[j].status
<1>1. [Next]_vars /\ [VsNext]_vsVars /\ [PcNext]_pcVars /\ [PaNext]_paVars /\ [NtNext]_ntVars
  BY DEF ProgressNext
<1>2. /\ PaInv'
      /\ NtCalm => NtInv'
      /\ \A j \in PaJobs : PaEnded(j) => paJob'[j].status = paJob[j].status
  BY <1>1, StepAnalysis, StepNotifications DEF ProgressInv
<1> QED
  BY <1>1, <1>2, StepInv, StepStream, StepClose DEF ProgressInv, NtCalm

\* Beside each other the manager hides no stream, the streams' fills reach
\* their level and no other, a row is closed only when its position is, jobs have
\* their reports and stay ended, and attempts keep to their limit.
THEOREM ProgressIsSafe ==
    ProgressSpec => /\ [](DisconnectedHasNoStream /\ FillsReachTheirLevel /\ ClosedRowIsFlat)
                    /\ [](ReportsMatchJobs /\ AttemptsLimited) /\ JobsEndOnce
<1>1. VsInv => FillsReachTheirLevel
  BY Uncounted DEF VsInv, NoneMissing, FillsReachTheirLevel, Reached
<1>2. CloseInv => ClosedRowIsFlat
  BY DEF CloseInv, ClosedRowIsFlat, Flat
<1>3. (NtCalm => NtInv) => AttemptsLimited
  BY DEF NtInv, NtLimited, NtCalm, AttemptsLimited
<1>4. ProgressInv => /\ DisconnectedHasNoStream /\ FillsReachTheirLevel /\ ClosedRowIsFlat
                     /\ ReportsMatchJobs /\ AttemptsLimited
  BY <1>1, <1>2, <1>3 DEF ProgressInv, IInv, PaInv
<1>5. ProgressInv /\ [ProgressNext]_<<part, vars, vsVars, paVars, ntVars, pcVars>>
        => ProgressInv' /\ [\A j \in PaJobs : PaEnded(j) => paJob'[j].status = paJob[j].status]_paVars
  BY ProgressStep
<1> QED
  BY <1>4, <1>5, ProgressBegins, PTL DEF ProgressSpec, JobsEndOnce
=============================================================================
