---------------------------- MODULE EntryMandate -----------------------------
(***************************************************************************)
(* What the strategy governance promises about new positions, without any  *)
(* row, session, lock or job: a strategy holds a licence (none, demo money *)
(* only, or any money), an entry is authorised only under a licence that   *)
(* covers the account it would use, and while an authorised entry is under *)
(* way nobody changes the licence.  The exchange account itself may be     *)
(* re-pointed at any moment; the promise says nothing about that.          *)
(***************************************************************************)
VARIABLES licence, account, permit, exposed

Licences == {"none", "demo", "any"}
Accounts == {"demo", "real"}

MandateInit ==
    /\ licence = "none" /\ account \in Accounts
    /\ permit = FALSE /\ exposed = FALSE

Covers == licence = "any" \/ (licence = "demo" /\ account = "demo")

\* Editing, starting, stopping, promoting, demoting, pausing.
Govern == /\ ~permit /\ licence' \in Licences
          /\ UNCHANGED <<account, permit, exposed>>

SwitchAccount == account' \in Accounts /\ UNCHANGED <<licence, permit, exposed>>

Authorise == /\ ~permit /\ ~exposed /\ Covers /\ permit' = TRUE
             /\ UNCHANGED <<licence, account, exposed>>

Enter == /\ permit /\ permit' = FALSE /\ exposed' = TRUE
         /\ UNCHANGED <<licence, account>>

GiveUp == permit /\ permit' = FALSE /\ UNCHANGED <<licence, account, exposed>>

\* A position ends; the loss it books may withdraw the licence in the same step.
Leave == /\ exposed /\ ~permit /\ exposed' = FALSE
         /\ licence' \in {licence, "none"}
         /\ UNCHANGED <<account, permit>>

MandateNext == Govern \/ SwitchAccount \/ Authorise \/ Enter \/ GiveUp \/ Leave

MandateVars == <<licence, account, permit, exposed>>

MandateSpec == MandateInit /\ [][MandateNext]_MandateVars
=============================================================================
