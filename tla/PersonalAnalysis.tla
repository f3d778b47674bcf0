--------------------------- MODULE PersonalAnalysis ---------------------------
(***************************************************************************)
(* PersonalAnalysisService: profiles fall due and are sent to the Core     *)
(* analysis service as jobs; workers poll Core for them in passes, each    *)
(* one database transaction over the rows it could lock, while what it     *)
(* asks of Core takes effect at once.                                      *)
(***************************************************************************)
EXTENDS Integers, FiniteSets

CONSTANTS
    PaJobs,       \* job rows
    PaAttempts,   \* personal_analysis_max_attempts
    PaWorkers,    \* pollers
    PaDeaths      \* bound: passes cut off

VARIABLES
    paProfile,   \* [active, due]: the profile the jobs belong to
    paJob,       \* committed job rows
    paReports,   \* jobs with a committed history row (and its queued signals)
    paCore,      \* what Core holds under the row's core_job_id
    paPass,      \* the passes under way
    paDeaths     \* passes cut off so far

paVars == <<paProfile, paJob, paReports, paCore, paPass, paDeaths>>

PaIdle == [todo |-> {}, rows |-> <<>>, reports |-> {}]
NoPaJob == [status |-> "none", attempt |-> 0, cleaned |-> FALSE]

PaInit ==
    /\ paProfile = [active |-> TRUE, due |-> TRUE]
    /\ paJob = [j \in PaJobs |-> NoPaJob]
    /\ paReports = {}
    /\ paCore = [j \in PaJobs |-> "none"]
    /\ paPass = [w \in PaWorkers |-> PaIdle]
    /\ paDeaths = 0

\* Rows are locked for update, and locked ones skipped, until the pass commits.
PaLocked == UNION {DOMAIN paPass[w].rows : w \in PaWorkers}
PaActive(row) == row.status = "pending"
PaUncleaned(row) == row.status = "completed" /\ ~row.cleaned

-----------------------------------------------------------------------------
(* Profiles and new jobs.                                                  *)

ProfileFallsDue ==
    /\ ~paProfile.due
    /\ paProfile' = [paProfile EXCEPT !.due = TRUE]
    /\ UNCHANGED <<paJob, paReports, paCore, paPass, paDeaths>>

\* update_profile and deactivate_profile; switching on makes a profile due.
SetProfileActive(on) ==
    /\ paProfile' = [active |-> on, due |-> paProfile.due \/ on]
    /\ UNCHANGED <<paJob, paReports, paCore, paPass, paDeaths>>

PaSubmit(j) ==
    /\ paJob[j].status = "none"
    /\ paJob' = [paJob EXCEPT ![j] = [status |-> "pending", attempt |-> 1, cleaned |-> FALSE]]
    /\ paCore' = [paCore EXCEPT ![j] = "working"]
    /\ UNCHANGED <<paReports, paPass, paDeaths>>

\* Core is asked first; a request that fails, or a pass that dies before its
\* commit, leaves the profile due and no row.
DispatchDueProfile(j) ==
    /\ paProfile.active /\ paProfile.due
    /\ PaSubmit(j)
    /\ paProfile' = [paProfile EXCEPT !.due = FALSE]

\* A manual trigger does not look at the schedule.
TriggerProfile(j) == PaSubmit(j) /\ UNCHANGED paProfile

-----------------------------------------------------------------------------
(* Core.                                                                   *)

CoreFinishes(j, how) ==
    /\ paCore[j] = "working"
    /\ paCore' = [paCore EXCEPT ![j] = how]
    /\ UNCHANGED <<paProfile, paJob, paReports, paPass, paDeaths>>

\* Accepted jobs carry an expires_at.
CoreForgets(j) ==
    /\ paCore[j] \in {"working", "done", "failed"}
    /\ paCore' = [paCore EXCEPT ![j] = "gone"]
    /\ UNCHANGED <<paProfile, paJob, paReports, paPass, paDeaths>>

-----------------------------------------------------------------------------
(* A pass of poll_pending_jobs.                                            *)

PollStart(w) ==
    /\ paPass[w] = PaIdle
    /\ LET mine == {j \in PaJobs \ PaLocked : PaActive(paJob[j]) \/ PaUncleaned(paJob[j])}
       IN  /\ mine # {}
           /\ paPass' = [paPass EXCEPT ![w] =
                  [todo |-> mine, rows |-> [j \in mine |-> paJob[j]], reports |-> {}]]
    /\ UNCHANGED <<paProfile, paJob, paReports, paCore, paDeaths>>

\* Mutant: a transient error leaves the attempt count alone.
RetryForever(row) == [row EXCEPT !.status = "pending"]

\* _mark_transient_error
MarkTransientError(row) ==
    LET attempt == IF row.attempt >= PaAttempts THEN row.attempt ELSE row.attempt + 1
    IN  [row EXCEPT !.attempt = attempt,
                    !.status = IF attempt >= PaAttempts THEN "failed" ELSE "pending"]

\* What Core answers.  check_status_batch: a job it no longer has is missing
\* from the list.  delete_job: a job it no longer has counts as deleted, and
\* the reply of a deletion that took place may be lost.
StatusOf(j) == IF paCore[j] = "gone" THEN "unlisted" ELSE paCore[j]

DeleteOutcomes(j) ==
    {[deleted |-> TRUE, core |-> "gone"], [deleted |-> FALSE, core |-> "gone"],
     [deleted |-> FALSE, core |-> paCore[j]]}

PaSettle(w, j, row, core) ==
    /\ paPass' = [paPass EXCEPT ![w].todo = @ \ {j}, ![w].rows[j] = row]
    /\ paCore' = [paCore EXCEPT ![j] = core]
    /\ UNCHANGED <<paProfile, paJob, paReports, paDeaths>>

\* _cleanup_completed_jobs
CleanupCompletedJob(w, j) ==
    /\ PaUncleaned(paPass[w].rows[j])
    /\ \E out \in DeleteOutcomes(j) :
           PaSettle(w, j, [paPass[w].rows[j] EXCEPT !.cleaned = out.deleted], out.core)

\* The status request fails for the whole batch.
StatusFails(w) ==
    /\ \E j \in paPass[w].todo : PaActive(paPass[w].rows[j])
    /\ LET batch == {j \in paPass[w].todo : PaActive(paPass[w].rows[j])}
       IN  paPass' = [paPass EXCEPT ![w].todo = @ \ batch,
                                    ![w].rows = [j \in DOMAIN @ |->
                                        IF j \in batch THEN MarkTransientError(@[j]) ELSE @[j]]]
    /\ UNCHANGED <<paProfile, paJob, paReports, paCore, paDeaths>>

\* Still working, or not mentioned in the answer: the row is polled again.
StillPending(w, j) ==
    /\ PaActive(paPass[w].rows[j]) /\ StatusOf(j) \in {"working", "unlisted"}
    /\ PaSettle(w, j, paPass[w].rows[j], paCore[j])

ResultFails(w, j) ==
    /\ PaActive(paPass[w].rows[j]) /\ StatusOf(j) = "done"
    /\ PaSettle(w, j, MarkTransientError(paPass[w].rows[j]), paCore[j])

\* _process_completed_job: the history row and its signals are flushed, the
\* job closed and Core told to delete its copy, which may fail.
ProcessCompletedJob(w, j, out) ==
    /\ PaActive(paPass[w].rows[j]) /\ StatusOf(j) = "done"
    /\ paPass' = [paPass EXCEPT ![w].todo = @ \ {j}, ![w].reports = @ \cup {j},
                                ![w].rows[j] = [@ EXCEPT !.status = "completed",
                                                         !.cleaned = out.deleted]]
    /\ paCore' = [paCore EXCEPT ![j] = out.core]
    /\ UNCHANGED <<paProfile, paJob, paReports, paDeaths>>

\* _process_failed_job: resubmitted under a new Core id while attempts last.
ProcessFailedJob(w, j) ==
    /\ PaActive(paPass[w].rows[j]) /\ StatusOf(j) = "failed"
    /\ LET row == paPass[w].rows[j]
       IN  IF row.attempt >= PaAttempts
           THEN PaSettle(w, j, [row EXCEPT !.status = "failed"], paCore[j])
           ELSE \/ PaSettle(w, j, [row EXCEPT !.attempt = @ + 1, !.status = "resubmitted"], "failed")
                \/ PaSettle(w, j, MarkTransientError(row), paCore[j])

\* The new Core id takes the old one's place with the commit.
PollCommit(w) ==
    /\ paPass[w] # PaIdle /\ paPass[w].todo = {}
    /\ LET rows == paPass[w].rows
           again == {j \in DOMAIN rows : rows[j].status = "resubmitted"}
       IN  /\ paJob' = [j \in PaJobs |->
                  IF j \in again THEN [rows[j] EXCEPT !.status = "pending"]
                  ELSE IF j \in DOMAIN rows THEN rows[j] ELSE paJob[j]]
           /\ paCore' = [j \in PaJobs |-> IF j \in again THEN "working" ELSE paCore[j]]
    /\ paReports' = paReports \cup paPass[w].reports
    /\ paPass' = [paPass EXCEPT ![w] = PaIdle]
    /\ UNCHANGED <<paProfile, paDeaths>>

\* The worker stops, or its transaction fails: Core keeps what it was told.
PollDies(w) ==
    /\ paPass[w] # PaIdle /\ paDeaths < PaDeaths
    /\ paDeaths' = paDeaths + 1
    /\ paPass' = [paPass EXCEPT ![w] = PaIdle]
    /\ UNCHANGED <<paProfile, paJob, paReports, paCore>>

PollJob(w, j) ==
    \/ CleanupCompletedJob(w, j)
    \/ StillPending(w, j)
    \/ ResultFails(w, j)
    \/ \E out \in DeleteOutcomes(j) : ProcessCompletedJob(w, j, out)
    \/ ProcessFailedJob(w, j)

PaNext ==
    \/ ProfileFallsDue
    \/ \E on \in BOOLEAN : SetProfileActive(on)
    \/ \E j \in PaJobs : DispatchDueProfile(j) \/ TriggerProfile(j) \/ CoreForgets(j)
    \/ \E j \in PaJobs, how \in {"done", "failed"} : CoreFinishes(j, how)
    \/ \E w \in PaWorkers :
           \/ PollStart(w)
           \/ StatusFails(w)
           \/ \E j \in paPass[w].todo : PollJob(w, j)
           \/ PollCommit(w)
           \/ PollDies(w)

\* The poll task runs every minute and a pass that is not cut off ends; Core
\* finishes or forgets every job.  Passes are cut off finitely often.
PaFairness ==
    /\ \A j \in PaJobs : WF_paVars(\E how \in {"done", "failed"} : CoreFinishes(j, how))
    /\ \A w \in PaWorkers :
           /\ WF_paVars(PollStart(w))
           /\ WF_paVars(\E j \in paPass[w].todo : PollJob(w, j))
           /\ WF_paVars(PollCommit(w))

PaSpec == PaInit /\ [][PaNext]_paVars /\ PaFairness

-----------------------------------------------------------------------------
PaEnded(j) == paJob[j].status \in {"completed", "failed"}

\* A closed job has its report and a failed one has none, whatever passes died
\* half-way.
ReportsMatchJobs == \A j \in PaJobs : (paJob[j].status = "completed") <=> (j \in paReports)

\* A job that has ended stays as it ended.
JobsEndOnce ==
    [][\A j \in PaJobs : PaEnded(j) => paJob'[j].status = paJob[j].status]_paVars

\* A job ends unless Core has lost it: then it is polled for ever (Core expires
\* jobs, and deletes one before the pass that asked commits).
JobsEnd ==
    /\ []ReportsMatchJobs
    /\ \A j \in PaJobs : (paJob[j].status = "pending") ~> (PaEnded(j) \/ paCore[j] = "gone")
=============================================================================
