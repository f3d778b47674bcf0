------------------------------ MODULE IncomeSync ------------------------------
(***************************************************************************)
(* Funding payments of one Binance account and symbol, paged into the      *)
(* income ledger by a task that may overlap with its own next run.  There  *)
(* is no stored cursor: a run resumes at the newest committed payment.     *)
(***************************************************************************)
EXTENDS Integers, FiniteSets, FiniteSetsExt

CONSTANTS
    IcPayments,   \* bound: payments; a payment is named by its time
    IcPage,       \* page limit
    IcMaxPages    \* pages of one run

\* A page holds a payment at least, and a run has a page.
ASSUME IncomeAssumption == IcPage \in Nat \ {0} /\ IcMaxPages \in Nat \ {0}

VARIABLES
    icPaid,   \* payments the venue has made: 1 .. icPaid
    icRows,   \* committed ledger
    icRun     \* the runs under way, two at most

icVars == <<icPaid, icRows, icRun>>

IcRuns == {1, 2}
IcIdle == [pc |-> "idle"]

IcInit == icPaid = 0 /\ icRows = {} /\ icRun = [r \in IcRuns |-> IcIdle]

VenuePays ==
    /\ icPaid < IcPayments
    /\ icPaid' = icPaid + 1
    /\ UNCHANGED <<icRows, icRun>>

\* Thirty days back the first time, else the newest payment less five minutes:
\* the overlap is shorter than the time between payments.
ComputeSince == IF icRows = {} THEN 1 ELSE Max(icRows)

StartIncome(r) ==
    /\ icRun[r].pc = "idle"
    /\ icRun' = [icRun EXCEPT ![r] =
                    [pc |-> "page", since |-> ComputeSince, rows |-> {}, pages |-> 0]]
    /\ UNCHANGED <<icPaid, icRows>>

\* Mutant: a run resumes behind its page whether or not that page was full.
NextSinceByClock(since, got) == icPaid + 1

NextSince(since, got) == Max(got) + 1

IncomePage(r) ==
    /\ icRun[r].pc = "page"
    /\ LET run == icRun[r]
           from == run.since .. icPaid
           got == {p \in from : p < run.since + IcPage}
           last == Cardinality(got) < IcPage \/ run.pages + 1 = IcMaxPages
       IN  icRun' = [icRun EXCEPT ![r] =
               [run EXCEPT !.rows = @ \cup got,
                           !.pages = @ + 1,
                           !.since = IF got = {} THEN @ ELSE NextSince(@, got),
                           !.pc = IF last THEN "commit" ELSE "page"]]
    /\ UNCHANGED <<icPaid, icRows>>

IncomeCommit(r) ==
    /\ icRun[r].pc = "commit"
    /\ icRows' = icRows \cup icRun[r].rows
    /\ icRun' = [icRun EXCEPT ![r] = IcIdle]
    /\ UNCHANGED icPaid

\* Any failure rolls the run back.
IncomeFails(r) ==
    /\ icRun[r].pc # "idle"
    /\ icRun' = [icRun EXCEPT ![r] = IcIdle]
    /\ UNCHANGED <<icPaid, icRows>>

IcNext ==
    \/ VenuePays
    \/ \E r \in IcRuns :
           StartIncome(r) \/ IncomePage(r) \/ IncomeCommit(r) \/ IncomeFails(r)

IcSpec == IcInit /\ [][IcNext]_icVars

\* The income ledger has no payment without the ones before it, so that the
\* next run, which resumes at the newest, misses none.
FundingHasNoHoles == \A p \in icRows : 1..p \subseteq icRows
=============================================================================
