---------------------------- MODULE Notifications ----------------------------
(***************************************************************************)
(* TelegramNotificationService.  Events of a user are an outbox; passes of *)
(* dispatch_pending, which may overlap, send each one and record the       *)
(* outcome in a delivery row, one transaction per event; the user links,   *)
(* mutes and unlinks a chat meanwhile.                                     *)
(***************************************************************************)
EXTENDS Integers, Sequences, FiniteSets

CONSTANTS
    NtEvents,     \* event ids, 1..n
    NtPasses,     \* passes that may overlap
    NtAttempts,   \* telegram_notify_max_attempts
    NtDeaths      \* bound: passes cut off

ASSUME NotificationsAssumption ==
    NtEvents \subseteq Int /\ NtAttempts \in Nat /\ IsFiniteSet(NtPasses)

VARIABLES
    ntRecent,   \* events emitted within the look-back window
    ntRow,      \* committed delivery rows
    ntUser,     \* committed settings [linked, enabled, code]
    ntPass,     \* the passes: events still to do, settings loaded, row in hand
    ntDeaths

ntVars == <<ntRecent, ntRow, ntUser, ntPass, ntDeaths>>

NtNoRow == [status |-> "none", attempts |-> 0]
NtIdle == [pc |-> "idle", todo |-> <<>>]

NtInit ==
    /\ ntRecent = {}
    /\ ntRow = [e \in NtEvents |-> NtNoRow]
    /\ ntUser = [linked |-> FALSE, enabled |-> FALSE, code |-> FALSE]
    /\ ntPass = [p \in NtPasses |-> NtIdle]
    /\ ntDeaths = 0

-----------------------------------------------------------------------------
(* Events, and what the user does with the settings.                       *)

EmitEvent(e) ==
    /\ e \notin ntRecent /\ ntRow[e] = NtNoRow
    /\ ntRecent' = ntRecent \cup {e}
    /\ UNCHANGED <<ntRow, ntUser, ntPass, ntDeaths>>

UserWrites(settings) ==
    /\ ntUser' = settings
    /\ UNCHANGED <<ntRecent, ntRow, ntPass, ntDeaths>>

GenerateLink == UserWrites([ntUser EXCEPT !.code = TRUE])
CodeExpires == ntUser.code /\ UserWrites([ntUser EXCEPT !.code = FALSE])
\* A code works once and before it expires.
HandleStart == ntUser.code /\ UserWrites([linked |-> TRUE, enabled |-> TRUE, code |-> FALSE])
\* The toggles of the event families act as the master switch does.
UpdateSettings(on) == UserWrites([ntUser EXCEPT !.enabled = on])
Unlink == UserWrites([linked |-> FALSE, enabled |-> FALSE, code |-> FALSE])

-----------------------------------------------------------------------------
(* A pass.                                                                 *)

Candidates == {e \in ntRecent : \/ ntRow[e].status = "none"
                                \/ ntRow[e].status = "failed" /\ ntRow[e].attempts < NtAttempts}

SkipReason(user) == ~user.linked \/ ~user.enabled

\* The settings are loaded once, for the whole pass.
StartPass(p) ==
    /\ ntPass[p].pc = "idle" /\ Candidates # {}
    /\ \E todo \in [1..Cardinality(Candidates) -> Candidates] :
          /\ \A i, j \in DOMAIN todo : i < j => todo[i] < todo[j]
          /\ ntPass' = [ntPass EXCEPT ![p] = [pc |-> "claim", todo |-> todo, mute |-> SkipReason(ntUser)]]
    /\ UNCHANGED <<ntRecent, ntRow, ntUser, ntDeaths>>

Current(p) == Head(ntPass[p].todo)
\* The insert of a delivery row is not visible to others before its commit.
Inserting(e) == \E p \in NtPasses : /\ ntPass[p].pc \in {"send", "commit"}
                                    /\ Current(p) = e /\ ntPass[p].held = NtNoRow

\* _claim_delivery: a committed row is taken as it stands, whatever its status;
\* else a row is inserted, which waits for anyone inserting the same one.
ClaimDelivery(p) ==
    /\ ntPass[p].pc = "claim" /\ ~Inserting(Current(p))
    /\ ntPass' = [ntPass EXCEPT ![p] = [pc |-> "send", todo |-> @.todo, mute |-> @.mute,
                                        held |-> ntRow[Current(p)], row |-> ntRow[Current(p)]]]
    /\ UNCHANGED <<ntRecent, ntRow, ntUser, ntDeaths>>

\* A pass that waited finds its insert refused; the rollback expires its
\* events, so reading the next one ends the pass.
LosesRace(p) ==
    /\ ntPass[p].pc = "claim" /\ Inserting(Current(p))
    /\ ntPass' = [ntPass EXCEPT ![p] = NtIdle]
    /\ UNCHANGED <<ntRecent, ntRow, ntUser, ntDeaths>>

\* Mutant: a failed send does not count as an attempt.
RecordUncounted(row, result) ==
    [status |-> CASE result = "sent" -> "sent" [] result = "forbidden" -> "skipped"
                  [] OTHER -> "failed",
     attempts |-> IF result = "error" THEN row.attempts ELSE row.attempts + 1]

RecordResult(row, result) ==
    [status |-> CASE result = "sent" -> "sent" [] result = "forbidden" -> "skipped"
                  [] OTHER -> "failed",
     attempts |-> row.attempts + 1]

\* send_message: an answer that does not come is an error.
SendMessage(p, result) ==
    /\ ntPass[p].pc = "send" /\ ~ntPass[p].mute
    /\ ntPass' = [ntPass EXCEPT ![p].pc = "commit", ![p].row = RecordResult(@, result),
                                   ![p].mute = result = "forbidden"]
    /\ UNCHANGED <<ntRecent, ntRow, ntUser, ntDeaths>>

Skip(p) ==
    /\ ntPass[p].pc = "send" /\ ntPass[p].mute
    /\ ntPass' = [ntPass EXCEPT ![p].pc = "commit", ![p].row.status = "skipped"]
    /\ UNCHANGED <<ntRecent, ntRow, ntUser, ntDeaths>>

\* Only the columns that differ from what this pass read are written.
NtWritten(new, old, now) == IF new = old THEN now ELSE new

\* A forbidden send also unlinks the chat of the settings row.
CommitEvent(p) ==
    /\ ntPass[p].pc = "commit"
    /\ LET c == ntPass[p]
           e == Current(p)
           forbidden == c.row.status = "skipped" /\ c.row.attempts > c.held.attempts
       IN  /\ ntRow' = [ntRow EXCEPT ![e] =
                  [status |-> NtWritten(c.row.status, c.held.status, @.status),
                   attempts |-> NtWritten(c.row.attempts, c.held.attempts, @.attempts)]]
           /\ ntUser' = IF forbidden THEN [ntUser EXCEPT !.linked = FALSE, !.enabled = FALSE]
                        ELSE ntUser
           /\ ntPass' = [ntPass EXCEPT ![p] =
                  IF Len(c.todo) = 1 THEN NtIdle
                  ELSE [pc |-> "claim", todo |-> Tail(c.todo), mute |-> c.mute]]
    /\ UNCHANGED <<ntRecent, ntDeaths>>

\* The process ends between a send and its commit, or the commit fails.
PassDies(p) ==
    /\ ntPass[p].pc # "idle" /\ ntDeaths < NtDeaths
    /\ ntDeaths' = ntDeaths + 1
    /\ ntPass' = [ntPass EXCEPT ![p] = NtIdle]
    /\ UNCHANGED <<ntRecent, ntRow, ntUser>>

SendStep(p) == Skip(p) \/ \E result \in {"sent", "error", "forbidden"} : SendMessage(p, result)

PassStep(p) == ClaimDelivery(p) \/ LosesRace(p) \/ SendStep(p) \/ CommitEvent(p)

NtNext ==
    \/ \E e \in NtEvents : EmitEvent(e)
    \/ GenerateLink \/ CodeExpires \/ Unlink
    \/ HandleStart
    \/ \E on \in BOOLEAN : UpdateSettings(on)
    \/ \E p \in NtPasses : StartPass(p) \/ PassStep(p) \/ PassDies(p)

\* The cron starts a pass every minute and a pass has finite work.
NtFairness ==
    \A p \in NtPasses : WF_ntVars(StartPass(p)) /\ WF_ntVars(PassStep(p))

NtSpec == NtInit /\ [][NtNext]_ntVars /\ NtFairness

-----------------------------------------------------------------------------
Settled(e) ==
    \/ ntRow[e].status \in {"sent", "skipped"}
    \/ ntRow[e].status = "failed" /\ ntRow[e].attempts >= NtAttempts

\* The limit on attempts: two passes that overlap exceed it by one at most.  A
\* third can write an old count over theirs, so that they begin again.
AttemptsLimited ==
    NtAttempts > 0 /\ Cardinality(NtPasses) <= 2 =>
        \A e \in NtEvents : ntRow[e].attempts <= NtAttempts + Cardinality(NtPasses) - 1

\* Every event ends sent, skipped or given up, whatever passes overlap or die
\* and whatever becomes of the chat, and within the limit on attempts.
NotificationsSettle ==
    /\ []AttemptsLimited
    /\ \A e \in NtEvents : e \in ntRecent ~> Settled(e)
=============================================================================
