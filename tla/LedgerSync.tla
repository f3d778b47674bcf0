------------------------------ MODULE LedgerSync ------------------------------
(***************************************************************************)
(* The trade ledger of one Binance account and symbol: fills are paged in  *)
(* from the venue by the minute task (sync_symbol_trades) and by the       *)
(* trades view (sync_account_symbol_trades), each in its own transaction   *)
(* with its own copy of the sync state, attributed to a strategy through   *)
(* the orders the platform remembers, and turned into profit and loss.     *)
(***************************************************************************)
EXTENDS Integers, Sequences, FiniteSets, SequencesExt

CONSTANTS
    LgFills,      \* bound: fills the venue makes
    LgFirstId,    \* trade id of the first of them; ids count up from it
    LgPrices,     \* the market price in each step of the clock
    LgPage,       \* page limit
    LgMaxPages    \* pages of one pass

ASSUME LedgerAssumption ==
    /\ LgPrices \in Seq(Nat) /\ LgPrices # <<>>
    /\ LgFirstId \in Nat /\ LgPage \in Nat \ {0}
    /\ LgFills \in Nat /\ LgMaxPages \in Nat \ {0}

VARIABLES
    lgFills,    \* venue: the fills, in order
    lgNow,      \* clock, in steps of more than twelve hours
    lgOrders,   \* fills whose order the platform has recorded
    lgRows,     \* committed ledger: fill -> origin
    lgState,    \* committed sync state
    lgJob,      \* the two passes
    lgMissed    \* fills older than the window of a pass that had no cursor

lgVars == <<lgFills, lgNow, lgOrders, lgRows, lgState, lgJob, lgMissed>>

Passes == {"task", "view"}
LgIdle == [pc |-> "idle"]
LgNone == -1

LgInit ==
    /\ lgFills = <<>> /\ lgNow = 0
    /\ lgOrders = {} /\ lgRows = <<>> /\ lgMissed = {}
    /\ lgState = [ts |-> LgNone, id |-> LgNone, backfilled |-> FALSE]
    /\ lgJob = [p \in Passes |-> LgIdle]

-----------------------------------------------------------------------------
(* Profit and loss of a sequence of fills, one unit each.                  *)

Signed(fill) == IF fill.side = "buy" THEN 1 ELSE -1

\* Mutant: the newest lot is closed first and its price read from the oldest.
FifoFromBothEnds(book, fill) ==
    IF book.lots # <<>> /\ Head(book.lots).side # fill.side
    THEN [lots |-> Front(book.lots),
          realized |-> book.realized + Signed(fill) * (Head(book.lots).price - fill.price)]
    ELSE [book EXCEPT !.lots = Append(@, fill)]

\* A fill closes the oldest lot of the other side, or opens a lot.
FifoStep(book, fill) ==
    IF book.lots # <<>> /\ Head(book.lots).side # fill.side
    THEN [lots |-> Tail(book.lots),
          realized |-> book.realized + Signed(fill) * (Head(book.lots).price - fill.price)]
    ELSE [book EXCEPT !.lots = Append(@, fill)]

FifoPass(fills) == FoldLeft(FifoStep, [realized |-> 0, lots |-> <<>>], fills)

\* The realizedPnl the venue reports with its i-th fill.
RealizedPnl(i) ==
    FifoPass(SubSeq(lgFills, 1, i)).realized - FifoPass(SubSeq(lgFills, 1, i - 1)).realized

\* The fills in S in the venue's order.
Ordered(S) == FoldLeftDomain(LAMBDA at, i : IF i \in S THEN Append(at, i) ELSE at, <<>>, lgFills)
InOrder(S) == LET at == Ordered(S) IN [i \in DOMAIN at |-> lgFills[at[i]]]

\* The gross result of the fills in S: the figures the venue reports with
\* them, else the FIFO pass.
GrossRealized(S, tagged) ==
    IF tagged THEN FoldLeft(LAMBDA sum, i : sum + RealizedPnl(i), 0, Ordered(S))
    ELSE FifoPass(InOrder(S)).realized

Unrealized(lots, mark) ==
    FoldLeft(LAMBDA sum, lot : sum + Signed(lot) * (mark - lot.price), 0, lots)

-----------------------------------------------------------------------------
(* The venue and the platform's own orders.                                *)

Held == Cardinality({i \in DOMAIN lgFills : lgFills[i].kind = "open"})
      - Cardinality({i \in DOMAIN lgFills : lgFills[i].kind \in {"close", "trigger"}})

Own == {i \in DOMAIN lgFills : lgFills[i].kind \in {"open", "close"}}
Recorded == Own \subseteq lgOrders

\* The platform opens and closes one long position; its stop or target may
\* close it at the venue; between two positions the owner of the account may
\* sell by hand.
VenueFill(kind, side) ==
    /\ Len(lgFills) < LgFills
    /\ CASE kind = "open" -> side = "buy" /\ Held = 0 /\ Recorded
         [] kind = "close" -> side = "sell" /\ Held = 1 /\ Recorded
         [] kind = "trigger" -> side = "sell" /\ Held = 1
         [] kind = "manual" -> side = "sell" /\ Held = 0
    /\ lgFills' = Append(lgFills, [kind |-> kind, side |-> side, at |-> lgNow,
                                 price |-> LgPrices[lgNow + 1]])
    /\ UNCHANGED <<lgNow, lgOrders, lgRows, lgState, lgJob, lgMissed>>

\* The order's metadata is committed with the position, after the order was
\* filled.  Orders the venue triggers are never recorded.
RecordOrderMetadata(i) ==
    /\ lgOrders' = lgOrders \cup {i}
    /\ UNCHANGED <<lgFills, lgNow, lgRows, lgState, lgJob, lgMissed>>

LgTick ==
    /\ lgNow + 1 < Len(LgPrices)
    /\ lgNow' = lgNow + 1
    /\ UNCHANGED <<lgFills, lgOrders, lgRows, lgState, lgJob, lgMissed>>

-----------------------------------------------------------------------------
(* A sync pass.                                                            *)

TradeId(i) == LgFirstId + i - 1

\* Trade ids are compared as strings (ids below 100 here).
Leading(id) == IF id < 10 THEN id ELSE id \div 10
IdAfter(a, b) ==
    \/ b = LgNone
    \/ Leading(a) > Leading(b)
    \/ Leading(a) = Leading(b) /\ a > b

MaxId(ids, start) ==
    FoldLeft(LAMBDA best, id : IF IdAfter(id, best) THEN id ELSE best, start, ids)

\* The task backfills thirty days once, then resumes at the newest fill, or
\* looks back twelve hours while it knows none.
StartTask ==
    /\ lgJob["task"].pc = "idle"
    /\ lgJob' = [lgJob EXCEPT !["task"] =
           [pc |-> "page", state |-> lgState, cursor |-> lgState.id, rows |-> <<>>,
            max |-> lgState.id, ts |-> lgState.ts, pages |-> 0,
            since |-> IF ~lgState.backfilled THEN 0
                      ELSE IF lgState.ts # LgNone THEN lgState.ts ELSE lgNow]]
    /\ UNCHANGED <<lgFills, lgNow, lgOrders, lgRows, lgState, lgMissed>>

\* The view reads the whole history while it knows no fill.
StartView ==
    /\ lgJob["view"].pc = "idle"
    /\ LET known == lgState.ts # LgNone
       IN  lgJob' = [lgJob EXCEPT !["view"] =
               [pc |-> "page", state |-> lgState, rows |-> <<>>,
                cursor |-> IF known THEN lgState.id ELSE LgNone,
                max |-> lgState.id, ts |-> lgState.ts,
                pages |-> IF known THEN 0 ELSE LgMaxPages - LgFills - 1,
                since |-> IF known THEN lgState.ts ELSE 0]]
    /\ UNCHANGED <<lgFills, lgNow, lgOrders, lgRows, lgState, lgMissed>>

\* A page: from the cursor on, itself included, or from the start of the window
\* (Binance refuses startTime beside fromId, so the overlap is not used then).
Page(job) ==
    LET from == {i \in DOMAIN lgFills :
                    IF job.cursor # LgNone THEN TradeId(i) >= job.cursor
                    ELSE lgFills[i].at >= job.since}
    IN  Ordered({i \in from : Cardinality({j \in from : j < i}) < LgPage})

\* A fill read again takes the newer origin.
Upserted(new, old) ==
    [i \in DOMAIN new \cup DOMAIN old |-> IF i \in DOMAIN new THEN new[i] ELSE old[i]]

ResolveOrigin(i) == IF i \in lgOrders THEN "platform" ELSE "external"

NextCursor(page, cursor) ==
    IF page = <<>> \/ TradeId(Last(page)) = cursor THEN LgNone ELSE TradeId(Last(page))

\* Behind the last page only what will be written matters.
ToCommit(job) == [pc |-> "commit", state |-> job.state, rows |-> job.rows,
                  max |-> job.max, ts |-> job.ts]

FetchPage(p) ==
    /\ lgJob[p].pc = "page"
    /\ LET job == lgJob[p]
           page == Page(job)
           got == {page[i] : i \in DOMAIN page}
           next == NextCursor(page, job.cursor)
           read == [job EXCEPT !.rows = Upserted([i \in got |-> ResolveOrigin(i)], @),
                               !.max = MaxId([i \in DOMAIN page |-> TradeId(page[i])], @),
                               !.ts = IF page = <<>> THEN @
                                      ELSE Max({@} \cup {lgFills[i].at : i \in got}),
                               !.pages = @ + 1]
           done == next = LgNone \/ read.pages >= LgMaxPages
       IN  /\ lgJob' = [lgJob EXCEPT ![p] = IF done THEN ToCommit(read)
                                           ELSE [read EXCEPT !.cursor = next]]
           /\ lgMissed' = IF job.cursor # LgNone THEN lgMissed
                          ELSE lgMissed \cup {i \in DOMAIN lgFills :
                                                 lgFills[i].at < job.since /\ i \notin DOMAIN lgRows}
    /\ UNCHANGED <<lgFills, lgNow, lgOrders, lgRows, lgState>>

\* Rows are upserted with the newest origin; of the state only the columns
\* that differ from the copy this pass read are written.
Changed(new, old, now) == IF new = old THEN now ELSE new

CommitPass(p) ==
    /\ lgJob[p].pc = "commit"
    /\ LET job == lgJob[p]
       IN  /\ lgRows' = Upserted(job.rows, lgRows)
           /\ lgState' = [ts |-> Changed(job.ts, job.state.ts, lgState.ts),
                          id |-> Changed(job.max, job.state.id, lgState.id),
                          backfilled |-> lgState.backfilled \/ p = "task"]
    /\ lgJob' = [lgJob EXCEPT ![p] = LgIdle]
    /\ UNCHANGED <<lgFills, lgNow, lgOrders, lgMissed>>

\* Mutant: a page that cannot be read is passed over.
SkipFailedPage(p) ==
    /\ lgJob[p].pc = "page"
    /\ LET job == lgJob[p] IN
       /\ Page(job) # <<>>
       /\ lgJob' = [lgJob EXCEPT ![p].cursor = TradeId(Last(Page(job))) + 1]
    /\ UNCHANGED <<lgFills, lgNow, lgOrders, lgRows, lgState, lgMissed>>

\* The venue refuses a page: the task rolls back, the view keeps its rows
\* and leaves the cursor.
PassFails(p) ==
    /\ lgJob[p].pc = "page"
    /\ lgRows' = IF p = "view" THEN Upserted(lgJob[p].rows, lgRows) ELSE lgRows
    /\ lgJob' = [lgJob EXCEPT ![p] = LgIdle]
    /\ UNCHANGED <<lgFills, lgNow, lgOrders, lgState, lgMissed>>

LgNext ==
    \/ \E kind \in {"open", "close", "trigger", "manual"}, side \in {"buy", "sell"} :
           VenueFill(kind, side)
    \/ \E i \in Own \ lgOrders : RecordOrderMetadata(i)
    \/ LgTick
    \/ StartTask
    \/ StartView
    \/ \E p \in Passes : FetchPage(p) \/ CommitPass(p) \/ PassFails(p)

LgSpec == LgInit /\ [][LgNext]_lgVars

-----------------------------------------------------------------------------
\* Below any fill of the ledger every fill is in the ledger, but for those a
\* pass without a cursor was too late for: retries, two passes at once, pages
\* that fail half-way and the string order of the cursor leave no hole.
LedgerHasNoHoles ==
    \A i \in DOMAIN lgFills :
        (\E j \in DOMAIN lgRows : i < j) => i \in DOMAIN lgRows \cup lgMissed

\* Realized and unrealized result of the ledger's fills together are the cash
\* they moved plus the value of what they left open, at any price.
BooksBalance ==
    LET S == DOMAIN lgRows
        fills == InOrder(S)
        book == FifoPass(fills)
        cash == FoldLeft(LAMBDA sum, f : sum - Signed(f) * f.price, 0, fills)
        open == FoldLeft(LAMBDA sum, f : sum + Signed(f), 0, fills)
    IN  S # {} =>
        \A k \in DOMAIN LgPrices :
            book.realized + Unrealized(book.lots, LgPrices[k]) = cash + open * LgPrices[k]

\* What service.py says of the figure the daily-loss rule reads: the net result
\* booked by this strategy.  Once every fill of a strategy that nobody trades
\* beside is in the ledger, with its own orders recorded, the fills attributed
\* to the strategy carry the whole result.
DailyResultComplete ==
    LET own == {i \in DOMAIN lgRows : lgRows[i] = "platform"}
        all == DOMAIN lgFills
    IN  (/\ DOMAIN lgRows = all
         /\ \A i \in all : lgFills[i].kind # "manual"
         /\ Own = own)
        => \A tagged \in BOOLEAN : GrossRealized(own, tagged) = GrossRealized(all, tagged)
=============================================================================
