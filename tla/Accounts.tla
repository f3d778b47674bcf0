------------------------------- MODULE Accounts -------------------------------
(***************************************************************************)
(* One account's second factors: enrolment of an authenticator and of the  *)
(* e-mail factor, the challenge at sign-in, and the step-up authorisation  *)
(* that critical actions ask for.  Requests overlap: each reads its rows,  *)
(* and commits what it changed in them later.                              *)
(***************************************************************************)
EXTENDS Integers, FiniteSets

CONSTANTS
    AcRequests,   \* requests that may be under way together
    AcSecrets,    \* bound: authenticator enrolments
    AcTokens,     \* bound: unused step-up tokens
    AcMails,      \* bound: codes in the mailbox
    AcMaxFailed   \* totp_max_failed_attempts

VARIABLES
    acTotp,       \* the authenticator row: [id, confirmed, fails, locked], id 0: none
    acRecovery,   \* unused recovery codes, each named by the enrolment it came with
    acMail,       \* the e-mail factor row: [state, fails, locked]
    acMailed,     \* actions with an unconsumed code in the mailbox
    acSession,    \* "out", "challenge" or "in"
    acReq,        \* requests under way
    acTokens,     \* step-up tokens minted and not yet used
    acIssued      \* secrets handed out so far

acVars == <<acTotp, acRecovery, acMail, acMailed, acSession, acReq, acTokens, acIssued>>

AcIdle == [op |-> "idle"]
NoTotp == [id |-> 0, confirmed |-> FALSE, fails |-> 0, locked |-> FALSE]
NoMail == [state |-> "none", fails |-> 0, locked |-> FALSE]
MailActions == {"enroll", "login", "step_up"}

AcInit ==
    /\ acTotp = NoTotp /\ acRecovery = {} /\ acMail = NoMail /\ acMailed = {}
    /\ acSession = "out" /\ acReq = [r \in AcRequests |-> AcIdle]
    /\ acTokens = 0 /\ acIssued = 0

AvailableFactors == (IF acTotp.confirmed THEN {"totp"} ELSE {})
                    \cup (IF acMail.state = "on" THEN {"email"} ELSE {})

\* The bearer of a challenge, of a valid access token.
Challenged == acSession = "challenge"
SignedIn == acSession = "in"

Begin(r, req) == acReq[r] = AcIdle /\ acReq' = [acReq EXCEPT ![r] = req]
End(r) == acReq' = [acReq EXCEPT ![r] = AcIdle]

-----------------------------------------------------------------------------
(* Signing in.                                                             *)

\* The password was right: a user with a second factor gets a challenge only.
SignIn ==
    /\ acSession = "out"
    /\ acSession' = IF AvailableFactors = {} THEN "in" ELSE "challenge"
    /\ UNCHANGED <<acTotp, acRecovery, acMail, acMailed, acReq, acTokens, acIssued>>

SessionEnds ==
    /\ acSession # "out"
    /\ acSession' = "out"
    /\ UNCHANGED <<acTotp, acRecovery, acMail, acMailed, acReq, acTokens, acIssued>>

\* Who may ask for, and use, a mailed code for each purpose.
MailForLogin == Challenged /\ acMail.state = "on"
MailForStepUp == SignedIn /\ acMail.state = "on"
MailForEnroll == SignedIn
MayMail(action) == CASE action = "login" -> MailForLogin
                     [] action = "step_up" -> MailForStepUp
                     [] action = "enroll" -> MailForEnroll

\* An earlier code for the same purpose is consumed.
RequestConfirmation(action) ==
    /\ MayMail(action)
    /\ acMailed' = acMailed \cup {action}
    /\ Cardinality(acMailed') <= AcMails
    /\ acMail' = [acMail EXCEPT !.state = IF @ = "none" THEN "pending" ELSE @]
    /\ UNCHANGED <<acTotp, acRecovery, acSession, acReq, acTokens, acIssued>>

CodeLapses(action) ==
    /\ action \in acMailed
    /\ acMailed' = acMailed \ {action}
    /\ UNCHANGED <<acTotp, acRecovery, acMail, acSession, acReq, acTokens, acIssued>>

-----------------------------------------------------------------------------
(* Enrolling and confirming an authenticator.                              *)

\* Refused while the factor is on.
StartEnroll(r) ==
    /\ SignedIn /\ ~acTotp.confirmed /\ acIssued < AcSecrets
    /\ acIssued' = acIssued + 1
    /\ Begin(r, [op |-> "enroll", row |-> acTotp.id, new |-> acIssued + 1])
    /\ UNCHANGED <<acTotp, acRecovery, acMail, acMailed, acSession, acTokens>>

\* Mutant: confirmed_at is written whatever it was.
EnrolledAfresh(req) == [NoTotp EXCEPT !.id = req.new]

\* confirmed_at was None when the row was read, so the update leaves it out:
\* it replaces the secret, which is not told apart here.
Enrolled(req) ==
    IF req.row = 0 THEN [NoTotp EXCEPT !.id = req.new]
    ELSE acTotp

CommitEnroll(r) ==
    /\ acReq[r].op = "enroll"
    /\ acTotp' = Enrolled(acReq[r])
    /\ acRecovery' = {acReq[r].new}
    /\ acReq[r].row = acTotp.id   \* a second row, or a deleted one, fails
    /\ End(r)
    /\ UNCHANGED <<acMail, acMailed, acSession, acTokens, acIssued>>

RequestFails(r) ==
    /\ acReq[r] # AcIdle
    /\ acRecovery' = IF acReq[r].op = "verify" /\ acReq[r].took # 0
                     THEN acRecovery \cup {acReq[r].took} ELSE acRecovery
    /\ End(r)
    /\ UNCHANGED <<acTotp, acMail, acMailed, acSession, acTokens, acIssued>>

-----------------------------------------------------------------------------
(* TotpService.verify: for enrolment, sign-in or step-up.                  *)

CodeForEnroll == SignedIn
CodeForLogin == Challenged
CodeForStepUp == SignedIn /\ acTotp.confirmed

\* The row is read and the code checked against it; a code that is wrong for
\* the authenticator is tried as a recovery code when that is allowed.
StartVerify(r, for, ok) ==
    /\ CASE for = "enroll" -> CodeForEnroll
         [] for = "login" -> CodeForLogin
         [] for = "step_up" -> CodeForStepUp
    /\ acTotp.id # 0 /\ ~acTotp.locked
    /\ Begin(r, [op |-> "verify", for |-> for, row |-> acTotp, ok |-> ok, took |-> 0])
    /\ UNCHANGED <<acTotp, acRecovery, acMail, acMailed, acSession, acTokens, acIssued>>

\* _consume_recovery_code: only to re-authenticate and only once the enrolment
\* is confirmed; one conditional UPDATE, undone if the request fails.
ConsumeRecoveryCode(r, s) ==
    /\ acReq[r].op = "verify" /\ ~acReq[r].ok
    /\ acReq[r].for \in {"login", "step_up"} /\ acReq[r].row.confirmed
    /\ s \in acRecovery /\ acRecovery' = acRecovery \ {s}
    /\ acReq' = [acReq EXCEPT ![r].ok = TRUE, ![r].took = s]
    /\ UNCHANGED <<acTotp, acMail, acMailed, acSession, acTokens, acIssued>>

Kept(new, old, now) == IF new = old THEN now ELSE new

\* Failures are counted up to the lockout.
Judged(row, ok) ==
    IF ok THEN [row EXCEPT !.fails = 0, !.locked = FALSE]
    ELSE IF row.fails + 1 >= AcMaxFailed THEN [row EXCEPT !.fails = 0, !.locked = TRUE]
    ELSE [row EXCEPT !.fails = @ + 1]

IssueTokenPair == acSession' = "in" /\ UNCHANGED acTokens
CreateStepUpToken == acTokens < AcTokens /\ acTokens' = acTokens + 1 /\ UNCHANGED acSession
Grant(for) == CASE for = "login" -> IssueTokenPair
                [] for = "step_up" -> CreateStepUpToken
                [] for = "enroll" -> UNCHANGED <<acSession, acTokens>>

CommitVerify(r) ==
    /\ acReq[r].op = "verify"
    /\ LET old == acReq[r].row
           new == [Judged(old, acReq[r].ok) EXCEPT !.confirmed = @ \/ acReq[r].ok]
       IN  /\ new = old \/ acTotp.id = old.id
           /\ acTotp' = [acTotp EXCEPT !.confirmed = Kept(new.confirmed, old.confirmed, @),
                                       !.fails = Kept(new.fails, old.fails, @),
                                       !.locked = Kept(new.locked, old.locked, @)]
    /\ IF acReq[r].ok THEN Grant(acReq[r].for) ELSE UNCHANGED <<acSession, acTokens>>
    /\ End(r)
    /\ UNCHANGED <<acRecovery, acMail, acMailed, acIssued>>

LockEnds ==
    /\ acTotp.locked \/ acMail.locked
    /\ acTotp' = [acTotp EXCEPT !.locked = FALSE]
    /\ acMail' = [acMail EXCEPT !.locked = FALSE]
    /\ UNCHANGED <<acRecovery, acMailed, acSession, acReq, acTokens, acIssued>>

-----------------------------------------------------------------------------
(* The e-mail factor, and critical actions.                                *)

\* email_2fa.verify, one request at a time: the code is consumed, a pending
\* enrolment confirmed by it.
VerifyMailed(action, ok) ==
    /\ MayMail(action) /\ acMail.state # "none" /\ ~acMail.locked
    /\ ok => action \in acMailed
    /\ acMailed' = IF ok THEN acMailed \ {action} ELSE acMailed
    /\ acMail' = [Judged(acMail, ok) EXCEPT !.state = IF ok THEN "on" ELSE @]
    /\ IF ok THEN Grant(action) ELSE UNCHANGED <<acSession, acTokens>>
    /\ UNCHANGED <<acTotp, acRecovery, acReq, acIssued>>

\* Redis SETNX on the token's id; an outage refuses the action.
ConsumeStepUpJti == acTokens > 0 /\ acTokens' = acTokens - 1

\* require_step_up: what an account without a factor may do passes unmarked.
RequireStepUp ==
    /\ SignedIn /\ AvailableFactors # {}
    /\ ConsumeStepUpJti

CriticalAction ==
    /\ RequireStepUp
    /\ UNCHANGED <<acTotp, acRecovery, acMail, acMailed, acSession, acReq, acIssued>>

DisableTotp ==
    /\ RequireStepUp
    /\ acTotp' = NoTotp
    /\ acRecovery' = {}
    /\ UNCHANGED <<acMail, acMailed, acSession, acReq, acIssued>>

DisableMail ==
    /\ RequireStepUp
    /\ acMail' = NoMail
    /\ UNCHANGED <<acTotp, acRecovery, acMailed, acSession, acReq, acIssued>>

AcNext ==
    \/ SignIn \/ SessionEnds
    \/ \E action \in MailActions :
          \/ RequestConfirmation(action) \/ CodeLapses(action)
          \/ \E ok \in BOOLEAN : VerifyMailed(action, ok)
    \/ \E r \in AcRequests :
          \/ \E s \in 1..AcSecrets : ConsumeRecoveryCode(r, s)
          \/ StartEnroll(r) \/ CommitEnroll(r) \/ RequestFails(r) \/ CommitVerify(r)
          \/ \E for \in MailActions, ok \in BOOLEAN : StartVerify(r, for, ok)
    \/ LockEnds
    \/ CriticalAction \/ DisableTotp \/ DisableMail

AcSpec == AcInit /\ [][AcNext]_acVars

-----------------------------------------------------------------------------
\* A factor that is on goes off only through a request that used up a step-up
\* token: an enrolment that overlaps the confirmation of an earlier one does
\* not take the factor away again.
FactorsGoOffByReauth ==
    [][\A f \in {"totp", "email"} :
          (f \in AvailableFactors /\ f \notin AvailableFactors') => acTokens' < acTokens]_acVars
=============================================================================
