---------------------------- MODULE PlatformProofs --------------------------
(***************************************************************************)
(* Proofs about the components behind the exchanges: paper trading,        *)
(* accounts, the AI overlay, strategy alerts, the ledgers and pre-trade    *)
(* risk.  What a scan, a page or a sum over rows comes to is proved        *)
(* by induction over the subsets of a finite set, and each theorem holds   *)
(* for every number of rows, workers, pages and steps.                     *)
(*                                                                         *)
(* The last section is about the components run side by side.  A step of   *)
(* the composition is a step of one component, and no component shares a   *)
(* variable with another: so the composition implements each of them, and  *)
(* what is proved of a component alone holds beside the others.            *)
(***************************************************************************)
EXTENDS VenueProofs, SLPipelineProofs, MCComponentsSafety

-----------------------------------------------------------------------------
(* Finite sets: a minimal counterexample, and the greatest element.         *)

HasMinimal(T) == \E U \in T : \A V \in T : V \subseteq U => V = U

\* Induction over the subsets of a finite set: a collection of them has a least one.
LEMMA MinimalSubset ==
    ASSUME NEW S, NEW T, IsFiniteSet(S), T \subseteq SUBSET S, T # {}
    PROVE  HasMinimal(T)
  <1>1. IsWellFoundedOn(StrictSubsetOrdering(S), SUBSET S)
    BY FS_StrictSubsetOrderingWellFounded, FS_FiniteSubsetsOfFinite
  <1>2. \E U \in T : \A V \in T : ~(<<V, U>> \in StrictSubsetOrdering(S))
    BY <1>1, WFMin
  <1>3. \A U, V \in SUBSET S : V \subseteq U /\ V # U => <<V, U>> \in StrictSubsetOrdering(S)
    BY DEF StrictSubsetOrdering
  <1> QED BY <1>2, <1>3 DEF HasMinimal

LEMMA MaxIs ==
    ASSUME NEW S, IsFiniteSet(S)
    PROVE  S # {} /\ S \subseteq Int => Max(S) \in S /\ \A y \in S : y <= Max(S)
  <1>0. \A T : T \subseteq SUBSET S /\ T # {} => HasMinimal(T)
    BY MinimalSubset
  <1> SUFFICES ASSUME S # {}, S \subseteq Int
               PROVE  Max(S) \in S /\ \A y \in S : y <= Max(S)
    OBVIOUS
  <1> DEFINE HasMax(U) == \E x \in U : \A y \in U : x >= y
             T == {U \in SUBSET S : U # {} /\ ~HasMax(U)}
  <1>1. CASE T # {}
    <2>1. T \subseteq SUBSET S
      OBVIOUS
    <2>2. PICK U \in T : \A V \in T : V \subseteq U => V = U
      <3> HIDE DEF T
      <3>1. HasMinimal(T)
        BY <1>0, <1>1, <2>1
      <3> QED BY <3>1 DEF HasMinimal
    <2>3. PICK x \in U : x \in Int
      BY <2>2
    <2>4. CASE U \ {x} = {}
      <3>1. \A y \in U : x >= y
        BY <2>3, <2>4
      <3> QED BY <2>2, <2>3, <3>1
    <2>5. CASE U \ {x} # {}
      <3>1. U \ {x} \notin T
        BY <2>2, <2>3
      <3>2. HasMax(U \ {x})
        BY <2>2, <2>5, <3>1
      <3>3. PICK m \in U \ {x} : \A y \in U \ {x} : m >= y
        BY <3>2
      <3>4. U \subseteq Int
        BY <2>2
      <3>5. CASE m >= x
        <4>1. \A y \in U : m >= y
          BY <3>3, <3>4, <3>5
        <4> QED BY <2>2, <3>3, <4>1
      <3>6. CASE ~(m >= x)
        <4>1. \A y \in U : x >= y
          BY <2>3, <3>3, <3>4, <3>6
        <4> QED BY <2>2, <2>3, <4>1
      <3> QED BY <3>5, <3>6
    <2> QED BY <2>4, <2>5
  <1>2. CASE T = {}
    <2>1. HasMax(S)
      BY <1>2
    <2>2. \E x \in S : \A y \in S : x >= y
      BY <2>1
    <2>3. Max(S) \in S /\ \A y \in S : Max(S) >= y
      BY <2>2 DEF Max
    <2> QED BY <2>3
  <1> QED BY <1>1, <1>2
-----------------------------------------------------------------------------
(* Induction over the subsets of a finite set, and recursion on them.       *)

LEMMA SubsetInduction ==
    ASSUME NEW S, IsFiniteSet(S), NEW Good,
           \A U \in SUBSET S : (\A V \in SUBSET U : V # U => V \in Good) => U \in Good
    PROVE  SUBSET S \subseteq Good
  <1> DEFINE T == {U \in SUBSET S : U \notin Good}
  <1>1. ASSUME T # {} PROVE FALSE
    <2>1. T \subseteq SUBSET S
      OBVIOUS
    <2>2. HasMinimal(T)
      <3> HIDE DEF T
      <3> QED BY <1>1, <2>1, MinimalSubset
    <2>3. PICK U \in T : \A V \in T : V \subseteq U => V = U
      <3> HIDE DEF T
      <3> QED BY <2>2 DEF HasMinimal
    <2>4. \A V \in SUBSET U : V # U => V \in Good
      BY <2>3
    <2> QED BY <2>3, <2>4
  <1> QED BY <1>1

\* g is the function that takes {} to base and any other s to what step makes
\* of the element picked from s and of g at the rest.
Solves(g, S, base, pick, op) ==
    g = [s \in SUBSET S |-> IF s = {} THEN base ELSE op[pick[s]][g[s \ {pick[s]}]]]

\* Two solutions agree where both are defined.
LEMMA FoldUnique ==
    ASSUME NEW S, NEW U, NEW base, NEW pick, NEW op, NEW g, NEW h,
           Solves(g, S, base, pick, op), Solves(h, U, base, pick, op),
           NEW W \in SUBSET S, W \in SUBSET U, IsFiniteSet(W),
           \A s \in SUBSET W : s # {} => pick[s] \in s
    PROVE  g[W] = h[W]
  <1> DEFINE Good == {s \in SUBSET W : g[s] = h[s]}
  <1>1. ASSUME NEW s \in SUBSET W, \A V \in SUBSET s : V # s => V \in Good
        PROVE  s \in Good
    <2>1. s \in SUBSET S /\ s \in SUBSET U
      OBVIOUS
    <2>2. g[s] = IF s = {} THEN base ELSE op[pick[s]][g[s \ {pick[s]}]]
      BY <2>1, ZenonT(60) DEF Solves
    <2>3. h[s] = IF s = {} THEN base ELSE op[pick[s]][h[s \ {pick[s]}]]
      BY <2>1 DEF Solves
    <2>4. s # {} => g[s \ {pick[s]}] = h[s \ {pick[s]}]
      <3>1. s # {} => pick[s] \in s
        OBVIOUS
      <3>2. s # {} => s \ {pick[s]} \in SUBSET s /\ s \ {pick[s]} # s
        BY <3>1
      <3> QED BY <1>1, <3>2
    <2> QED BY <2>2, <2>3, <2>4
  <1>2. SUBSET W \subseteq Good
    <2> HIDE DEF Good
    <2> QED BY <1>1, SubsetInduction
  <1> QED BY <1>2

\* A recursion over the subsets of a finite set has a solution.
LEMMA FoldExists ==
    ASSUME NEW S, IsFiniteSet(S), NEW V, NEW base \in V, NEW pick, NEW op,
           \A s \in SUBSET S : s # {} => pick[s] \in s,
           \A x \in S, v \in V : op[x][v] \in V
    PROVE  \E g \in [SUBSET S -> V] : Solves(g, S, base, pick, op)
  <1> DEFINE Good == {U \in SUBSET S : \E g \in [SUBSET U -> V] : Solves(g, U, base, pick, op)}
             sol(W) == CHOOSE g : g \in [SUBSET W -> V] /\ Solves(g, W, base, pick, op)
  <1>1. ASSUME NEW U \in SUBSET S, \A W \in SUBSET U : W # U => W \in Good
        PROVE  U \in Good
    <2> DEFINE rest(s) == s \ {pick[s]}
               g == [s \in SUBSET U |-> IF s = {} THEN base ELSE op[pick[s]][sol(rest(s))[rest(s)]]]
    <2>1. ASSUME NEW s \in SUBSET U, s # {}
          PROVE  /\ rest(s) \in SUBSET U /\ rest(s) # U /\ pick[s] \in S
                 /\ sol(rest(s)) \in [SUBSET rest(s) -> V]
                 /\ Solves(sol(rest(s)), rest(s), base, pick, op)
                 /\ sol(rest(s))[rest(s)] \in V
      <3>1. pick[s] \in s
        BY <2>1
      <3>2. rest(s) \in SUBSET U /\ rest(s) # U /\ pick[s] \in S
        BY <3>1
      <3>3. PICK W : W = rest(s)
        OBVIOUS
      <3>4. W \in Good
        BY <1>1, <3>2, <3>3
      <3>5. \E f : f \in [SUBSET W -> V] /\ Solves(f, W, base, pick, op)
        BY <3>4
      <3>6. sol(W) \in [SUBSET W -> V] /\ Solves(sol(W), W, base, pick, op)
        BY <3>5
      <3>7. sol(W)[W] \in V
        <4> HIDE DEF sol
        <4> QED BY <3>6
      <3> QED BY <3>2, <3>3, <3>6, <3>7
    <2>2. g \in [SUBSET U -> V]
      <3>1. ASSUME NEW s \in SUBSET U
            PROVE  (IF s = {} THEN base ELSE op[pick[s]][sol(rest(s))[rest(s)]]) \in V
        <4> HIDE DEF sol, rest
        <4> QED BY <2>1
      <3> HIDE DEF sol, rest
      <3> QED BY <3>1
    <2>3. ASSUME NEW s \in SUBSET U, s # {} PROVE g[rest(s)] = sol(rest(s))[rest(s)]
      <3>1. PICK W : W = rest(s)
        OBVIOUS
      <3>2. W \in SUBSET U /\ Solves(sol(W), W, base, pick, op)
        BY <2>1, <2>3, <3>1
      <3>3. sol(W)[W] = IF W = {} THEN base ELSE op[pick[W]][sol(W)[W \ {pick[W]}]]
        <4> HIDE DEF sol
        <4> QED BY <3>2 DEF Solves
      <3>4. g[W] = IF W = {} THEN base ELSE op[pick[W]][sol(rest(W))[rest(W)]]
        <4> HIDE DEF sol, rest
        <4> QED BY <3>2
      <3>5. ASSUME W # {} PROVE sol(W)[rest(W)] = sol(rest(W))[rest(W)]
        <4>1. PICK X : X = rest(W)
          OBVIOUS
        <4>2. Solves(sol(X), X, base, pick, op)
          BY <2>1, <3>2, <3>5, <4>1
        <4>3. X \in SUBSET W /\ X \in SUBSET X /\ X \in SUBSET S
          BY <3>2, <4>1
        <4>4. IsFiniteSet(X)
          BY <4>3, FS_Subset
        <4>5. \A t \in SUBSET X : t # {} => pick[t] \in t
          BY <4>3
        <4>6. sol(W)[X] = sol(X)[X]
          <5> HIDE DEF sol
          <5> QED BY <3>2, <4>2, <4>3, <4>4, <4>5, FoldUnique
        <4> QED BY <4>1, <4>6
      <3>6. W # {} => sol(W)[W \ {pick[W]}] = sol(rest(W))[rest(W)]
        BY <3>5
      <3> HIDE DEF sol, rest, g
      <3> QED BY <3>1, <3>3, <3>4, <3>6
    <2>4. Solves(g, U, base, pick, op)
      <3>1. g = [s \in SUBSET U |-> IF s = {} THEN base ELSE op[pick[s]][g[rest(s)]]]
        <4>1. \A s \in SUBSET U : s # {} => g[rest(s)] = sol(rest(s))[rest(s)]
          BY <2>3
        <4>2. PICK gg : gg = g
          OBVIOUS
        <4>3. gg = [s \in SUBSET U |-> IF s = {} THEN base ELSE op[pick[s]][gg[rest(s)]]]
          <5>1. gg = [s \in SUBSET U |-> IF s = {} THEN base ELSE op[pick[s]][sol(rest(s))[rest(s)]]]
            BY <4>2
          <5>2. \A s \in SUBSET U : s # {} => gg[rest(s)] = sol(rest(s))[rest(s)]
            BY <4>1, <4>2
          <5> HIDE DEF sol, rest, g
          <5> QED BY <5>1, <5>2
        <4> HIDE DEF sol, rest, g
        <4> QED BY <4>2, <4>3
      <3> HIDE DEF g
      <3> QED BY <3>1 DEF Solves
    <2> HIDE DEF g
    <2> QED BY <2>2, <2>4
  <1>2. SUBSET S \subseteq Good
    <2> HIDE DEF Good
    <2> QED BY <1>1, SubsetInduction
  <1> QED BY <1>2

-----------------------------------------------------------------------------
(* LivePaper: what the metrics count is what the strategy closed.           *)

BookedRow(n, t) == <<n, t>> \in lpBook

\* The inductive invariant: the rows of the current revision are trades of its
\* strategy behind its start, and while it runs none is missing up to the cursor.
PaperInv ==
    /\ lpProfile = [strategy |-> lpProfile.strategy, revision |-> lpProfile.revision,
                    running |-> lpProfile.running, cursor |-> lpProfile.cursor]
    /\ lpProfile.revision \in Nat /\ lpProfile.cursor \in Int
    /\ lpStart \in Int /\ lpSince \in Int /\ lpNow \in Nat /\ lpCandle \in Int
    /\ \A n \in Nat, t \in LpTrades : BookedRow(n, t) => n <= lpProfile.revision
    /\ \A t \in LpTrades : BookedRow(lpProfile.revision, t) =>
           t.strategy = lpProfile.strategy /\ (lpStart = -1 => t.exit > lpSince)
    /\ lpStart = -1 \/ lpStart = lpSince
    /\ lpProfile.running =>
           /\ lpProfile.cursor >= lpSince
           /\ \A t \in LpTrades :
                 t.strategy = lpProfile.strategy /\ t.exit > lpSince /\ t.exit <= lpProfile.cursor
                     => BookedRow(lpProfile.revision, t)

\* The cursor moves to the last trade that was due.
LEMMA CursorMoves ==
    ASSUME NEW due \in SUBSET LpTrades, lpProfile.cursor \in Int
    PROVE  /\ CursorAfter(due) \in Int /\ CursorAfter(due) >= lpProfile.cursor
           /\ \A t \in due : t.exit <= CursorAfter(due)
           /\ CursorAfter(due) = lpProfile.cursor \/ \E t \in due : CursorAfter(due) = t.exit
  <1> DEFINE exits == {t.exit : t \in due}
             S == {lpProfile.cursor} \cup exits
             f == [t \in due |-> t.exit]
  <1>1. IsFiniteSet(due)
    BY PaperAssumption, FS_Subset
  <1>2. f \in Surjection(due, exits)
    BY DEF Surjection
  <1>3. IsFiniteSet(exits)
    BY <1>1, <1>2, FS_Surjection
  <1>4. IsFiniteSet(S)
    <2>1. IsFiniteSet({lpProfile.cursor})
      BY FS_Singleton
    <2> HIDE DEF exits
    <2> QED BY <1>3, <2>1, FS_Union
  <1>5. S # {} /\ S \subseteq Int
    BY PaperAssumption
  <1>6. CursorAfter(due) = Max(S)
    BY DEF CursorAfter
  <1>7. Max(S) \in S /\ \A y \in S : y <= Max(S)
    <2> HIDE DEF S
    <2> QED BY <1>4, <1>5, MaxIs
  <1>8. \A y \in S : y \in Int
    BY <1>5
  <1> QED BY <1>6, <1>7, <1>8

LEMMA BookGrows ==
    ASSUME NEW due \in SUBSET LpTrades, lpBook' = Booked(due), NEW n, NEW t
    PROVE  BookedRow(n, t)' <=> BookedRow(n, t) \/ (n = lpProfile.revision /\ t \in due)
  BY DEF Booked, BookedRow

LEMMA InitPaper == LpInit => PaperInv
  <1> SUFFICES ASSUME LpInit PROVE PaperInv
    OBVIOUS
  <1>1. PICK s \in LpStrategies :
           lpProfile = [strategy |-> s, revision |-> 1, running |-> FALSE, cursor |-> -1]
    BY DEF LpInit
  <1>2. lpBook = {} /\ lpStart = -1 /\ lpSince = -1 /\ lpNow = 0 /\ lpCandle = 0
    BY DEF LpInit
  <1> QED BY <1>1, <1>2 DEF PaperInv, BookedRow

\* What is due lies behind the cursor, hence behind the start.
LEMMA DueOK ==
    ASSUME PaperInv, lpProfile.running, NEW t \in DueTrades
    PROVE  t \in LpTrades /\ t.strategy = lpProfile.strategy /\ t.exit > lpSince /\ t.exit <= lpCandle
           /\ t.exit > lpProfile.cursor
  BY PaperAssumption DEF PaperInv, DueTrades

LEMMA PollLp ==
    ASSUME PaperInv, Poll \/ \E done \in SUBSET LpTrades : PollBreaks(done)
    PROVE  PaperInv'
  <1>1. CASE Poll
    <2> DEFINE cursor == CursorAfter(DueTrades)
    <2>1. /\ lpProfile.running /\ lpBook' = Booked(DueTrades)
          /\ lpProfile' = [lpProfile EXCEPT !.cursor = cursor]
          /\ UNCHANGED <<lpStart, lpSince, lpNow, lpCandle>>
      BY <1>1 DEF Poll
    <2>2. DueTrades \in SUBSET LpTrades
      BY DEF DueTrades
    <2>3. /\ cursor \in Int /\ cursor >= lpProfile.cursor
          /\ cursor = lpProfile.cursor \/ \E t \in DueTrades : cursor = t.exit
      BY <2>2, CursorMoves DEF PaperInv
    <2> HIDE DEF cursor
    <2>4. lpProfile' = [strategy |-> lpProfile.strategy, revision |-> lpProfile.revision,
                        running |-> lpProfile.running, cursor |-> cursor]
      BY <2>1 DEF PaperInv
    <2>12. PICK rev \in Nat : rev = lpProfile.revision
      BY DEF PaperInv
    <2>5. \A n, t : BookedRow(n, t)' <=> BookedRow(n, t) \/ (n = rev /\ t \in DueTrades)
      BY <2>1, <2>2, <2>12, BookGrows
    <2>6. ASSUME NEW t \in LpTrades, t.strategy = lpProfile.strategy, t.exit > lpSince, t.exit <= cursor
          PROVE  BookedRow(rev, t)'
      <3>1. CASE t.exit <= lpProfile.cursor
        BY <2>1, <2>5, <2>6, <2>12, <3>1 DEF PaperInv
      <3>2. CASE ~(t.exit <= lpProfile.cursor)
        <4>1. t.exit \in Int /\ lpProfile.cursor \in Int
          BY PaperAssumption DEF PaperInv
        <4>2. cursor # lpProfile.cursor
          BY <2>3, <2>6, <3>2, <4>1
        <4>3. PICK u \in DueTrades : cursor = u.exit
          BY <2>3, <4>2
        <4>4. u.exit <= lpCandle /\ lpCandle \in Int
          BY <4>3 DEF DueTrades, PaperInv
        <4>5. t \in DueTrades
          BY <2>3, <2>6, <3>2, <4>1, <4>3, <4>4 DEF DueTrades
        <4> QED BY <2>5, <4>5
      <3> QED BY <3>1, <3>2
    <2>7. \A t \in DueTrades : t.strategy = lpProfile.strategy /\ t.exit > lpSince
      BY <2>1, DueOK
    <2>8. lpProfile'.strategy = lpProfile.strategy /\ lpProfile'.revision = rev
          /\ lpProfile'.running = lpProfile.running /\ lpProfile'.cursor = cursor
      BY <2>4, <2>12
    <2>9. \A n \in Nat, t \in LpTrades : BookedRow(n, t)' => n <= rev
      BY <2>5, <2>12 DEF PaperInv
    <2>10. \A t \in LpTrades : BookedRow(rev, t)' =>
              t.strategy = lpProfile.strategy /\ (lpStart = -1 => t.exit > lpSince)
      BY <2>5, <2>7, <2>12 DEF PaperInv
    <2>11. cursor >= lpSince
      BY <2>1, <2>3 DEF PaperInv
    <2> QED BY <2>1, <2>3, <2>4, <2>6, <2>8, <2>9, <2>10, <2>11, <2>12 DEF PaperInv, BookedRow
  <1>2. ASSUME NEW done \in SUBSET LpTrades, PollBreaks(done) PROVE PaperInv'
    <2>1. /\ lpProfile.running /\ done \subseteq DueTrades /\ lpBook' = Booked(done)
          /\ UNCHANGED <<lpProfile, lpStart, lpSince, lpNow, lpCandle>>
      BY <1>2 DEF PollBreaks
    <2>6. PICK rev \in Nat : rev = lpProfile.revision
      BY DEF PaperInv
    <2>2. \A n, t : BookedRow(n, t)' <=> BookedRow(n, t) \/ (n = rev /\ t \in done)
      BY <2>1, <2>6, BookGrows
    <2>3. \A t \in done : t.strategy = lpProfile.strategy /\ t.exit > lpSince
      BY <2>1, DueOK
    <2>4. \A n \in Nat, t \in LpTrades : BookedRow(n, t)' => n <= rev
      BY <2>2, <2>6 DEF PaperInv
    <2>5. \A t \in LpTrades : BookedRow(rev, t)' =>
              t.strategy = lpProfile.strategy /\ (lpStart = -1 => t.exit > lpSince)
      BY <2>2, <2>3, <2>6 DEF PaperInv
    <2> QED BY <2>1, <2>2, <2>4, <2>5, <2>6 DEF PaperInv, BookedRow
  <1> QED BY <1>1, <1>2

LEMMA RunLp ==
    ASSUME PaperInv, NEW on \in BOOLEAN, SetRunning(on)
    PROVE  PaperInv'
  <1>1. /\ lpProfile' = [lpProfile EXCEPT !.running = on,
                            !.cursor = IF on /\ ~lpProfile.running THEN lpNow ELSE @]
        /\ IF on /\ ~lpProfile.running THEN lpStart' = lpNow /\ lpSince' = lpNow
           ELSE UNCHANGED <<lpStart, lpSince>>
        /\ UNCHANGED <<lpBook, lpNow, lpCandle>>
    BY DEF SetRunning
  <1>2. lpProfile' = [strategy |-> lpProfile.strategy, revision |-> lpProfile.revision, running |-> on,
                      cursor |-> IF on /\ ~lpProfile.running THEN lpNow ELSE lpProfile.cursor]
    BY <1>1 DEF PaperInv
  <1>3. /\ lpProfile'.strategy = lpProfile.strategy /\ lpProfile'.revision = lpProfile.revision
        /\ lpProfile'.running = on
        /\ lpProfile'.cursor = IF on /\ ~lpProfile.running THEN lpNow ELSE lpProfile.cursor
    BY <1>2
  <1>4. \A n, t : BookedRow(n, t)' = BookedRow(n, t)
    BY <1>1 DEF BookedRow
  <1>5. CASE on /\ ~lpProfile.running
    <2>1. lpStart' = lpNow /\ lpSince' = lpNow /\ lpProfile'.cursor = lpNow /\ lpNow # -1 /\ lpNow \in Int
      BY <1>1, <1>3, <1>5 DEF PaperInv
    <2>2. \A t \in LpTrades : ~(t.exit > lpNow /\ t.exit <= lpNow)
      BY <2>1, PaperAssumption
    <2>3. \A n \in Nat, t \in LpTrades : <<n, t>> \in lpBook => n <= lpProfile'.revision
      BY <1>3 DEF PaperInv, BookedRow
    <2>4. \A t \in LpTrades : <<lpProfile'.revision, t>> \in lpBook => t.strategy = lpProfile'.strategy
      BY <1>3 DEF PaperInv, BookedRow
    <2>5. \A n \in Nat, t \in LpTrades : BookedRow(n, t)' => n <= lpProfile'.revision
      BY <1>4, <2>3 DEF BookedRow
    <2>6. \A t \in LpTrades : (<<lpProfile'.revision, t>> \in lpBook)
                              <=> <<lpProfile'.revision, t>> \in lpBook'
      BY <1>1
    <2>7. /\ lpProfile' = [lpProfile' EXCEPT !.running = lpProfile'.running]
          /\ lpProfile'.revision \in Nat /\ lpNow' = lpNow /\ lpCandle' = lpCandle
          /\ lpNow \in Nat /\ lpCandle \in Int
      BY <1>1, <1>2, <1>3 DEF PaperInv
    <2>8. lpProfile' = [strategy |-> lpProfile'.strategy, revision |-> lpProfile'.revision,
                        running |-> lpProfile'.running, cursor |-> lpProfile'.cursor]
      BY <1>2
    <2>9. \A t \in LpTrades : <<lpProfile'.revision, t>> \in lpBook' =>
              t.strategy = lpProfile'.strategy
      BY <2>4, <2>6
    <2> QED BY <2>1, <2>2, <2>5, <2>7, <2>8, <2>9 DEF PaperInv, BookedRow
  <1>6. CASE ~(on /\ ~lpProfile.running)
    <2>1. UNCHANGED <<lpStart, lpSince>> /\ lpProfile'.cursor = lpProfile.cursor
          /\ (lpProfile'.running => lpProfile.running)
      BY <1>1, <1>3, <1>6
    <2> QED BY <1>1, <1>2, <1>3, <1>4, <2>1 DEF PaperInv, BookedRow
  <1> QED BY <1>5, <1>6

\* A revision that was never there has no rows.
LEMMA SwitchLp ==
    ASSUME PaperInv, NEW s \in LpStrategies, SwitchStrategy(s)
    PROVE  PaperInv'
  <1>1. /\ lpBook' = Booked(DueTrades)
        /\ lpProfile' = [lpProfile EXCEPT !.strategy = s, !.revision = @ + 1,
                            !.cursor = IF lpProfile.running THEN lpNow ELSE -1]
        /\ lpStart' = -1 /\ lpSince' = lpNow /\ UNCHANGED <<lpNow, lpCandle>>
    BY DEF SwitchStrategy
  <1>2. lpProfile' = [strategy |-> s, revision |-> lpProfile.revision + 1, running |-> lpProfile.running,
                      cursor |-> IF lpProfile.running THEN lpNow ELSE -1]
    BY <1>1 DEF PaperInv
  <1>3. /\ lpProfile'.strategy = s /\ lpProfile'.revision = lpProfile.revision + 1
        /\ lpProfile'.running = lpProfile.running
        /\ lpProfile'.cursor = IF lpProfile.running THEN lpNow ELSE -1
    BY <1>2
  <1>4. DueTrades \in SUBSET LpTrades
    BY DEF DueTrades
  <1>5. \A n, t : BookedRow(n, t)' <=> BookedRow(n, t) \/ (n = lpProfile.revision /\ t \in DueTrades)
    BY <1>1, <1>4, BookGrows
  <1>6. lpProfile.revision \in Nat /\ lpProfile'.revision \in Nat
        /\ lpProfile'.revision = lpProfile.revision + 1 /\ lpNow \in Nat
    BY <1>3 DEF PaperInv
  <1>7. \A n \in Nat, t \in LpTrades : BookedRow(n, t)' => n <= lpProfile.revision
    BY <1>5, <1>6 DEF PaperInv
  <1>8. \A n \in Nat, t \in LpTrades : BookedRow(n, t)' => n <= lpProfile'.revision /\ n # lpProfile'.revision
    BY <1>6, <1>7
  <1>9. \A t \in LpTrades : ~(t.exit > lpNow /\ t.exit <= lpNow)
    BY <1>6, PaperAssumption
  <1>10. \A n \in Nat, t \in LpTrades : <<n, t>> \in lpBook' =>
            n <= lpProfile'.revision /\ n # lpProfile'.revision
    BY <1>8 DEF BookedRow
  <1>11. \A t \in LpTrades : <<lpProfile'.revision, t>> \notin lpBook'
    BY <1>6, <1>10
  <1>12. lpProfile'.cursor \in Int /\ (lpProfile'.running => lpProfile'.cursor = lpNow)
    BY <1>3, <1>6
  <1>13. lpSince' = lpNow /\ lpStart' = -1 /\ lpNow' = lpNow /\ lpCandle' \in Int
    BY <1>1 DEF PaperInv
  <1> QED BY <1>2, <1>3, <1>6, <1>9, <1>10, <1>11, <1>12, <1>13 DEF PaperInv, BookedRow

LEMMA StepPaper == PaperInv /\ [LpNext]_lpVars => PaperInv'
  <1> SUFFICES ASSUME PaperInv, [LpNext]_lpVars PROVE PaperInv'
    OBVIOUS
  <1>1. CASE UNCHANGED lpVars
    BY <1>1 DEF lpVars, PaperInv, BookedRow
  <1>2. CASE LpTick \/ CandleArrives
    BY <1>2 DEF LpTick, CandleArrives, PaperInv, BookedRow
  <1>3. CASE Poll \/ \E done \in SUBSET LpTrades : PollBreaks(done)
    BY <1>3, PollLp
  <1>4. CASE \E on \in BOOLEAN : SetRunning(on)
    BY <1>4, RunLp
  <1>5. CASE \E s \in LpStrategies : SwitchStrategy(s)
    BY <1>5, SwitchLp
  <1> QED BY <1>1, <1>2, <1>3, <1>4, <1>5 DEF LpNext

\* Late candles, broken polls, restarts and switches of strategy neither lose
\* nor smuggle in a trade of the metrics of a running strategy
\* (PaperBooksComplete).
THEOREM PaperComplete == LpSpec => []PaperBooksComplete
  <1>1. PaperInv => PaperBooksComplete
    <2> SUFFICES ASSUME PaperInv, lpProfile.running
                 PROVE  {t \in CountedTrades : t.exit <= lpProfile.cursor}
                        = {t \in LpTrades : /\ t.strategy = lpProfile.strategy
                                            /\ t.exit > lpSince /\ t.exit <= lpProfile.cursor}
      BY DEF PaperBooksComplete
    <2>1. ASSUME NEW t \in LpTrades, t.exit <= lpProfile.cursor
          PROVE  t \in CountedTrades <=> t.strategy = lpProfile.strategy /\ t.exit > lpSince
      BY <2>1, PaperAssumption DEF PaperInv, CountedTrades, BookedRow
    <2>2. CountedTrades \subseteq LpTrades
      BY DEF CountedTrades
    <2> QED BY <2>1, <2>2
  <1> QED BY InitPaper, StepPaper, <1>1, PTL DEF LpSpec

-----------------------------------------------------------------------------
(* Accounts: a second factor goes off only by a step-up token.              *)

\* The rows keep their columns; a request that verifies a code has a copy of an
\* authenticator row there was.
TotpRow == [id : Nat, confirmed : BOOLEAN, fails : Int, locked : BOOLEAN]
VerifyReq == [op : {"verify"}, for : MailActions, row : {t \in TotpRow : t.id # 0},
              ok : BOOLEAN, took : Nat]
EnrollReq == [op : {"enroll"}, row : Nat, new : Nat]
MailRow == [state : {"none", "pending", "on"}, fails : Int, locked : BOOLEAN]

\* The inductive invariant: an account without an authenticator row has none
\* that is confirmed, so that a new row takes nothing away.
AccountInv ==
    /\ acTotp \in TotpRow /\ acMail \in MailRow
    /\ acTotp.id = 0 => ~acTotp.confirmed
    /\ acReq \in [AcRequests -> {AcIdle} \cup VerifyReq \cup EnrollReq]
    /\ acTokens \in Nat /\ acIssued \in Nat

\* A factor that is on stays on.
FactorsStay ==
    /\ acTotp.confirmed => acTotp'.confirmed
    /\ acMail.state = "on" => acMail'.state = "on"

LEMMA StayOrReauth ==
    ASSUME FactorsStay \/ acTokens' < acTokens
    PROVE  \A f \in {"totp", "email"} :
              (f \in AvailableFactors /\ f \notin AvailableFactors') => acTokens' < acTokens
  BY DEF FactorsStay, AvailableFactors

LEMMA InitAccounts == AcInit => AccountInv
  BY DEF AcInit, AccountInv, NoTotp, NoMail, TotpRow, MailRow

\* Requests are begun, ended and changed one at a time.
LEMMA ReqBegun ==
    ASSUME AccountInv, NEW r \in AcRequests, NEW q \in VerifyReq \cup EnrollReq, Begin(r, q)
    PROVE  acReq' \in [AcRequests -> {AcIdle} \cup VerifyReq \cup EnrollReq]
  BY DEF AccountInv, Begin

LEMMA ReqEnded ==
    ASSUME AccountInv, NEW r \in AcRequests, End(r)
    PROVE  acReq' \in [AcRequests -> {AcIdle} \cup VerifyReq \cup EnrollReq]
  BY DEF AccountInv, End

LEMMA ReqKind ==
    ASSUME AccountInv, NEW r \in AcRequests
    PROVE  /\ acReq[r].op = "verify" => acReq[r] \in VerifyReq
           /\ acReq[r].op = "enroll" => acReq[r] \in EnrollReq
  BY DEF AccountInv, AcIdle, VerifyReq, EnrollReq

LEMMA TotpRowExcept ==
    ASSUME NEW row \in TotpRow, NEW b \in BOOLEAN
    PROVE  LET x == [row EXCEPT !.fails = 0]
               y == [x EXCEPT !.locked = b]
           IN  y \in TotpRow /\ y.id = row.id /\ y.confirmed = row.confirmed
  <1> DEFINE x == [row EXCEPT !.fails = 0]
  <1>1. x \in TotpRow /\ x.id = row.id /\ x.confirmed = row.confirmed
    BY DEF TotpRow
  <1> HIDE DEF x
  <1>2. [x EXCEPT !.locked = b] \in TotpRow /\ [x EXCEPT !.locked = b].id = x.id
        /\ [x EXCEPT !.locked = b].confirmed = x.confirmed
    BY <1>1 DEF TotpRow
  <1> QED BY <1>1, <1>2 DEF x

LEMMA MailRowExcept ==
    ASSUME NEW row \in MailRow, NEW b \in BOOLEAN
    PROVE  LET x == [row EXCEPT !.fails = 0]
               y == [x EXCEPT !.locked = b]
           IN  y \in MailRow /\ y.state = row.state
  <1> DEFINE x == [row EXCEPT !.fails = 0]
  <1>1. x \in MailRow /\ x.state = row.state
    BY DEF MailRow
  <1> HIDE DEF x
  <1>2. [x EXCEPT !.locked = b] \in MailRow /\ [x EXCEPT !.locked = b].state = x.state
    BY <1>1 DEF MailRow
  <1> QED BY <1>1, <1>2 DEF x

LEMMA JudgedRow ==
    ASSUME NEW row \in TotpRow, NEW ok \in BOOLEAN
    PROVE  Judged(row, ok) \in TotpRow /\ Judged(row, ok).id = row.id
           /\ Judged(row, ok).confirmed = row.confirmed
  <1>1. CASE ok
    BY <1>1, TotpRowExcept DEF Judged
  <1>2. CASE ~ok /\ row.fails + 1 >= AcMaxFailed
    BY <1>2, TotpRowExcept DEF Judged
  <1>3. CASE ~ok /\ ~(row.fails + 1 >= AcMaxFailed)
    BY <1>3 DEF Judged, TotpRow
  <1> QED BY <1>1, <1>2, <1>3

LEMMA JudgedMail ==
    ASSUME NEW row \in MailRow, NEW ok \in BOOLEAN
    PROVE  Judged(row, ok) \in MailRow /\ Judged(row, ok).state = row.state
  <1>1. CASE ok
    BY <1>1, MailRowExcept DEF Judged
  <1>2. CASE ~ok /\ row.fails + 1 >= AcMaxFailed
    BY <1>2, MailRowExcept DEF Judged
  <1>3. CASE ~ok /\ ~(row.fails + 1 >= AcMaxFailed)
    BY <1>3 DEF Judged, MailRow
  <1> QED BY <1>1, <1>2, <1>3

LEMMA GrantTokens ==
    ASSUME NEW for \in MailActions, Grant(for), acTokens \in Nat
    PROVE  acTokens' \in Nat
  <1>1. CASE for = "login"
    BY <1>1 DEF Grant, IssueTokenPair
  <1>2. CASE for = "step_up"
    BY <1>2 DEF Grant, CreateStepUpToken
  <1>3. CASE for = "enroll"
    BY <1>3 DEF Grant
  <1> QED BY <1>1, <1>2, <1>3 DEF MailActions

LEMMA CommitEnrollAc ==
    ASSUME AccountInv, NEW r \in AcRequests, CommitEnroll(r)
    PROVE  AccountInv' /\ FactorsStay
  <1>1. /\ acReq[r] \in EnrollReq /\ acReq[r].row = acTotp.id
        /\ acTotp' = Enrolled(acReq[r]) /\ End(r) /\ UNCHANGED <<acMail, acTokens, acIssued>>
    BY ReqKind DEF CommitEnroll
  <1>2. CASE acReq[r].row = 0
    <2>1. acTotp' = [id |-> acReq[r].new, confirmed |-> FALSE, fails |-> 0, locked |-> FALSE]
      BY <1>1, <1>2 DEF Enrolled, NoTotp
    <2>2. acReq[r].new \in Nat /\ ~acTotp.confirmed
      BY <1>1, <1>2 DEF EnrollReq, AccountInv
    <2> QED BY <1>1, <2>1, <2>2, ReqEnded DEF AccountInv, FactorsStay, TotpRow
  <1>3. CASE acReq[r].row # 0
    <2>1. acTotp' = acTotp
      BY <1>1, <1>3 DEF Enrolled
    <2> QED BY <1>1, <2>1, ReqEnded DEF AccountInv, FactorsStay
  <1> QED BY <1>2, <1>3

\* What was confirmed when it was read is written back as confirmed or left out.
LEMMA CommitVerifyAc ==
    ASSUME AccountInv, NEW r \in AcRequests, CommitVerify(r)
    PROVE  AccountInv' /\ FactorsStay
  <1> DEFINE old == acReq[r].row
             judged == Judged(old, acReq[r].ok)
             new == [judged EXCEPT !.confirmed = @ \/ acReq[r].ok]
  <1>1. /\ acReq[r] \in VerifyReq /\ End(r) /\ UNCHANGED <<acMail, acIssued>>
        /\ new = old \/ acTotp.id = old.id
        /\ acTotp' = [acTotp EXCEPT !.confirmed = Kept(new.confirmed, old.confirmed, @),
                                    !.fails = Kept(new.fails, old.fails, @),
                                    !.locked = Kept(new.locked, old.locked, @)]
        /\ IF acReq[r].ok THEN Grant(acReq[r].for) ELSE UNCHANGED <<acSession, acTokens>>
    BY ReqKind DEF CommitVerify
  <1>2. /\ old \in TotpRow /\ old.id # 0 /\ acReq[r].ok \in BOOLEAN /\ acReq[r].for \in MailActions
    BY <1>1 DEF VerifyReq
  <1>3. judged \in TotpRow /\ judged.confirmed = old.confirmed
    BY <1>2, JudgedRow
  <1> HIDE DEF judged
  <1>4. new \in TotpRow /\ new.confirmed = (old.confirmed \/ acReq[r].ok)
    BY <1>2, <1>3 DEF TotpRow
  <1> HIDE DEF new, old
  <1>5. acTotp \in TotpRow /\ (acTotp.id = 0 => ~acTotp.confirmed) /\ acTokens \in Nat
    BY DEF AccountInv
  <1>6. acTotp' \in TotpRow /\ acTotp'.id = acTotp.id
        /\ acTotp'.confirmed = Kept(new.confirmed, old.confirmed, acTotp.confirmed)
    BY <1>1, <1>2, <1>4, <1>5 DEF TotpRow, Kept
  <1>7. acTotp.confirmed => acTotp'.confirmed
    BY <1>2, <1>4, <1>6 DEF Kept, TotpRow
  <1>8. acTotp'.id = 0 => ~acTotp'.confirmed
    BY <1>1, <1>2, <1>4, <1>5, <1>6 DEF Kept
  <1>9. acTokens' \in Nat
    BY <1>1, <1>2, <1>5, GrantTokens
  <1> QED BY <1>1, <1>6, <1>7, <1>8, <1>9, ReqEnded DEF AccountInv, FactorsStay

LEMMA StartsAc ==
    ASSUME AccountInv, NEW r \in AcRequests,
           \/ StartEnroll(r)
           \/ \E for \in MailActions, ok \in BOOLEAN : StartVerify(r, for, ok)
           \/ \E s \in 1..AcSecrets : ConsumeRecoveryCode(r, s)
           \/ RequestFails(r)
    PROVE  AccountInv' /\ FactorsStay
  <1>1. CASE StartEnroll(r)
    <2> DEFINE q == [op |-> "enroll", row |-> acTotp.id, new |-> acIssued + 1]
    <2>1. Begin(r, q) /\ acIssued' = acIssued + 1 /\ UNCHANGED <<acTotp, acMail, acTokens>>
      BY <1>1 DEF StartEnroll
    <2>2. q \in EnrollReq /\ acIssued + 1 \in Nat
      BY DEF AccountInv, EnrollReq, TotpRow
    <2> HIDE DEF q
    <2> QED BY <2>1, <2>2, ReqBegun DEF AccountInv, FactorsStay
  <1>2. ASSUME NEW for \in MailActions, NEW ok \in BOOLEAN, StartVerify(r, for, ok)
        PROVE  AccountInv' /\ FactorsStay
    <2> DEFINE q == [op |-> "verify", for |-> for, row |-> acTotp, ok |-> ok, took |-> 0]
    <2>1. Begin(r, q) /\ acTotp.id # 0 /\ UNCHANGED <<acTotp, acMail, acTokens, acIssued>>
      BY <1>2 DEF StartVerify
    <2>2. q \in VerifyReq
      BY <2>1 DEF AccountInv, VerifyReq
    <2> HIDE DEF q
    <2> QED BY <2>1, <2>2, ReqBegun DEF AccountInv, FactorsStay
  <1>3. ASSUME NEW s \in 1..AcSecrets, ConsumeRecoveryCode(r, s)
        PROVE  AccountInv' /\ FactorsStay
    <2>1. /\ acReq[r] \in VerifyReq /\ UNCHANGED <<acTotp, acMail, acTokens, acIssued>>
          /\ acReq' = [acReq EXCEPT ![r].ok = TRUE, ![r].took = s]
      BY <1>3, ReqKind DEF ConsumeRecoveryCode
    <2>2. [acReq[r] EXCEPT !.ok = TRUE] \in VerifyReq
      BY <2>1 DEF VerifyReq
    <2>4. \A q \in VerifyReq : [q EXCEPT !.took = s] \in VerifyReq
      BY DEF VerifyReq
    <2>3. acReq' \in [AcRequests -> {AcIdle} \cup VerifyReq \cup EnrollReq]
      BY <2>1, <2>2, <2>4 DEF AccountInv
    <2> QED BY <2>1, <2>3 DEF AccountInv, FactorsStay
  <1>4. CASE RequestFails(r)
    BY <1>4, ReqEnded DEF RequestFails, AccountInv, FactorsStay
  <1> QED BY <1>1, <1>2, <1>3, <1>4

LEMMA MailAc ==
    ASSUME AccountInv, NEW action \in MailActions,
           \/ RequestConfirmation(action) \/ CodeLapses(action)
           \/ \E ok \in BOOLEAN : VerifyMailed(action, ok)
    PROVE  AccountInv' /\ FactorsStay
  <1>1. CASE RequestConfirmation(action)
    <2>1. acMail' = [acMail EXCEPT !.state = IF @ = "none" THEN "pending" ELSE @]
          /\ UNCHANGED <<acTotp, acReq, acTokens, acIssued>>
      BY <1>1 DEF RequestConfirmation
    <2>2. acMail' \in MailRow /\ (acMail.state = "on" => acMail'.state = "on")
      BY <2>1 DEF AccountInv, MailRow
    <2> QED BY <2>1, <2>2 DEF AccountInv, FactorsStay
  <1>2. CASE CodeLapses(action)
    BY <1>2 DEF CodeLapses, AccountInv, FactorsStay
  <1>3. ASSUME NEW ok \in BOOLEAN, VerifyMailed(action, ok)
        PROVE  AccountInv' /\ FactorsStay
    <2>1. /\ acMail' = [Judged(acMail, ok) EXCEPT !.state = IF ok THEN "on" ELSE @]
          /\ IF ok THEN Grant(action) ELSE UNCHANGED <<acSession, acTokens>>
          /\ UNCHANGED <<acTotp, acReq, acIssued>>
      BY <1>3 DEF VerifyMailed
    <2>2. Judged(acMail, ok) \in MailRow /\ Judged(acMail, ok).state = acMail.state
      BY JudgedMail DEF AccountInv
    <2>3. acMail' \in MailRow /\ (acMail.state = "on" => acMail'.state = "on")
      BY <2>1, <2>2 DEF MailRow
    <2>4. acTokens' \in Nat
      BY <2>1, GrantTokens DEF AccountInv
    <2> QED BY <2>1, <2>3, <2>4 DEF AccountInv, FactorsStay
  <1> QED BY <1>1, <1>2, <1>3

\* What goes off by require_step_up costs a token.
LEMMA StepUpAc ==
    ASSUME AccountInv, DisableTotp \/ DisableMail
    PROVE  AccountInv' /\ acTokens' < acTokens
  <1>1. acTokens \in Nat /\ acTokens > 0 /\ acTokens' = acTokens - 1 /\ UNCHANGED <<acReq, acIssued>>
    BY DEF DisableTotp, DisableMail, RequireStepUp, ConsumeStepUpJti, AccountInv
  <1>2. acTotp' \in TotpRow /\ (acTotp'.id = 0 => ~acTotp'.confirmed) /\ acMail' \in MailRow
    <2>1. NoTotp \in TotpRow /\ ~NoTotp.confirmed /\ NoMail \in MailRow
      BY DEF NoTotp, NoMail, TotpRow, MailRow
    <2> QED BY <2>1 DEF DisableTotp, DisableMail, AccountInv
  <1> QED BY <1>1, <1>2 DEF AccountInv

LEMMA StepAccounts ==
    ASSUME AccountInv, [AcNext]_acVars
    PROVE  AccountInv' /\ (FactorsStay \/ acTokens' < acTokens)
  <1>1. CASE UNCHANGED acVars
    BY <1>1 DEF acVars, AccountInv, FactorsStay
  <1>2. CASE SignIn \/ SessionEnds
    BY <1>2 DEF SignIn, SessionEnds, AccountInv, FactorsStay
  <1>3. ASSUME NEW action \in MailActions,
               \/ RequestConfirmation(action) \/ CodeLapses(action)
               \/ \E ok \in BOOLEAN : VerifyMailed(action, ok)
        PROVE  AccountInv' /\ FactorsStay
    BY <1>3, MailAc
  <1>4. ASSUME NEW r \in AcRequests,
               \/ \E s \in 1..AcSecrets : ConsumeRecoveryCode(r, s)
               \/ StartEnroll(r) \/ CommitEnroll(r) \/ RequestFails(r) \/ CommitVerify(r)
               \/ \E for \in MailActions, ok \in BOOLEAN : StartVerify(r, for, ok)
        PROVE  AccountInv' /\ FactorsStay
    BY <1>4, StartsAc, CommitEnrollAc, CommitVerifyAc
  <1>5. CASE LockEnds
    <2>1. /\ acTotp' = [acTotp EXCEPT !.locked = FALSE] /\ acMail' = [acMail EXCEPT !.locked = FALSE]
          /\ UNCHANGED <<acReq, acTokens, acIssued>>
      BY <1>5 DEF LockEnds
    <2> QED BY <2>1 DEF AccountInv, FactorsStay, TotpRow, MailRow
  <1>6. CASE CriticalAction
    BY <1>6 DEF CriticalAction, RequireStepUp, ConsumeStepUpJti, AccountInv, FactorsStay
  <1>7. CASE DisableTotp \/ DisableMail
    BY <1>7, StepUpAc
  <1> QED BY <1>1, <1>2, <1>3, <1>4, <1>5, <1>6, <1>7 DEF AcNext

\* A factor that is on goes off only in a request that used up a step-up token,
\* however enrolments, verifications and their commits overlap
\* (FactorsGoOffByReauth).
THEOREM ReauthTakesFactorsOff == AcSpec => FactorsGoOffByReauth
  <1>1. AccountInv /\ [AcNext]_acVars => AccountInv'
    BY StepAccounts
  <1>2. AccountInv /\ [AcNext]_acVars =>
           [\A f \in {"totp", "email"} :
              (f \in AvailableFactors /\ f \notin AvailableFactors') => acTokens' < acTokens]_acVars
    BY StepAccounts, StayOrReauth
  <1> QED BY InitAccounts, <1>1, <1>2, PTL DEF AcSpec, FactorsGoOffByReauth

-----------------------------------------------------------------------------
(* AiOverlay: every phase of an entry works off one trend.                  *)

OvRow == [direction : {"up", "down", "flat", "none"}, strength : OvStrengths, computed : Int]
OvSides == {"long", "short"}

\* What the overlay made of a trend whose direction is up, or is not.
Overlaid(p, ups) ==
    LET moved == p.watcher[1] - OvWatcher[1]
    IN  /\ "lock" \in p.phases => p.factor >= 100
        /\ p.factor # 100 => (p.factor > 100 <=> (ups <=> p.side = "long"))
        /\ moved # 0 => (moved > 0 <=> ups)
        /\ p.factor \in OvRange[1]..OvRange[2]
        /\ p.watcher[1] <= p.watcher[2] /\ moved \in -OvMaxShift..OvMaxShift

Upward(p, rows) == p.trend # 0 /\ rows[p.trend].direction = "up"

\* The inductive invariant: the entry under way got past the side lock with the
\* trend it still holds, and rows are only appended.
OverlayInv ==
    /\ ovRows \in Seq(OvRow)
    /\ ovEntry # NoEntry =>
           /\ ovEntry.side \in OvSides /\ ovEntry.trend \in 0..Len(ovRows)
           /\ "lock" \in ovEntry.phases /\ ovEntry.trend # 0 =>
                  ~ShouldBlockEntry(ovEntry.trend, ovEntry.side)
    /\ ovPos.trend \in 0..Len(ovRows)
    /\ Overlaid(ovPos, Upward(ovPos, ovRows))

LEMMA RangesOK ==
    /\ OvRange[1] \in 10..100 /\ OvRange[2] \in 100..300 /\ OvMaxShift \in 0..20
    /\ OvWatcher[1] \in 0..100 /\ OvWatcher[2] \in 0..100 /\ OvWatcher[1] <= OvWatcher[2]
  BY OverlayAssumption

LEMMA ClampIn ==
    ASSUME NEW low \in Int, NEW high \in Int, low <= high, NEW x \in Int
    PROVE  /\ Clamp(low, high, x) \in low..high
           /\ x \in low..high => Clamp(low, high, x) = x
           /\ x < low => Clamp(low, high, x) = low
           /\ x > high => Clamp(low, high, x) = high
  BY DEF Clamp

LEMMA StrengthOK ==
    ASSUME ovRows \in Seq(OvRow), NEW r \in 1..Len(ovRows)
    PROVE  /\ EffectiveStrength(r) \in 0..2
           /\ ovRows[r].direction = "flat" => EffectiveStrength(r) = 0
  <1>1. ovRows[r] \in OvRow
    OBVIOUS
  <1>2. ovRows[r].strength \in 0..2
    BY <1>1, OverlayAssumption DEF OvRow
  <1> QED BY <1>2 DEF EffectiveStrength

LEMMA Halved ==
    ASSUME NEW s \in 0..2, NEW d \in Nat
    PROVE  (s * d) \div 2 \in 0..d
  <1>1. s = 0 \/ s = 1 \/ s = 2
    OBVIOUS
  <1>2. s * d \in 0..(2 * d)
    BY <1>1
  <1> QED BY <1>2

\* The factor with the trend and the one against it, inside the range.
Wide(s, high) == 100 + (s * (high - 100)) \div 2
Tight(s, low) == 100 - (s * (100 - low)) \div 2

LEMMA FactorsIn ==
    ASSUME NEW s \in 0..2, NEW low \in 10..100, NEW high \in 100..300
    PROVE  /\ Wide(s, high) \in 100..high /\ Tight(s, low) \in low..100
           /\ \A x \in {100, Wide(s, high), Tight(s, low)} :
                  x \in low..high /\ Clamp(low, high, x) = x
  <1>1. high - 100 \in Nat /\ 100 - low \in Nat
    OBVIOUS
  <1>2. Wide(s, high) \in 100..high
    <2>1. (s * (high - 100)) \div 2 \in 0..(high - 100)
      BY <1>1, Halved
    <2> QED BY <1>1, <2>1 DEF Wide
  <1>3. Tight(s, low) \in low..100
    <2>1. (s * (100 - low)) \div 2 \in 0..(100 - low)
      BY <1>1, Halved
    <2> QED BY <1>1, <2>1 DEF Tight
  <1>4. ASSUME NEW x \in {100, Wide(s, high), Tight(s, low)}
        PROVE  x \in low..high /\ Clamp(low, high, x) = x
    <2>1. x \in Int /\ x \in low..high
      BY <1>2, <1>3
    <2>2. low \in Int /\ high \in Int /\ low <= high
      OBVIOUS
    <2>3. Clamp(low, high, x) = x
      BY <2>1, <2>2, ClampIn
    <2> QED BY <2>1, <2>3
  <1> QED BY <1>2, <1>3, <1>4

\* A stop is widened with the trend and tightened against it.
LEMMA FactorOK ==
    ASSUME ovRows \in Seq(OvRow), NEW r \in 1..Len(ovRows), NEW way \in OvSides
    PROVE  LET f == ScaleAtrMultiplier(r, way)
           IN  /\ f \in OvRange[1]..OvRange[2] /\ f \in Int
               /\ Aligned(r, way) => f >= 100
               /\ ~Aligned(r, way) => f <= 100
               /\ f < 100 => ShouldBlockEntry(r, way)
  <1>1. PICK s \in 0..2 : s = EffectiveStrength(r)
    BY StrengthOK
  <1>2. PICK low \in 10..100, high \in 100..300 : low = OvRange[1] /\ high = OvRange[2]
    BY RangesOK
  <1> DEFINE f == ScaleAtrMultiplier(r, way)
  <1>3. f = IF s = 0 THEN 100
            ELSE Clamp(low, high, IF Aligned(r, way) THEN Wide(s, high) ELSE Tight(s, low))
    BY <1>1, <1>2 DEF ScaleAtrMultiplier, Wide, Tight
  <1>4. ShouldBlockEntry(r, way) <=> s # 0 /\ ~Aligned(r, way)
    BY <1>1 DEF ShouldBlockEntry
  <1> HIDE DEF f
  <1>5. f = IF s = 0 THEN 100 ELSE IF Aligned(r, way) THEN Wide(s, high) ELSE Tight(s, low)
    BY <1>3, FactorsIn, ZenonT(60)
  <1>6. /\ Wide(s, high) \in 100..high /\ Tight(s, low) \in low..100
        /\ f \in {100, Wide(s, high), Tight(s, low)} /\ f \in low..high
    <2>1. f \in {100, Wide(s, high), Tight(s, low)}
      BY <1>5
    <2>2. /\ Wide(s, high) \in 100..high /\ Tight(s, low) \in low..100
          /\ \A x \in {100, Wide(s, high), Tight(s, low)} :
                 x \in low..high /\ Clamp(low, high, x) = x
      BY FactorsIn
    <2> QED BY <2>1, <2>2
  <1>7. f \in Int /\ (Aligned(r, way) => f >= 100) /\ (~Aligned(r, way) => f <= 100)
        /\ (f < 100 => s # 0 /\ ~Aligned(r, way))
    BY <1>5, <1>6
  <1> QED BY <1>2, <1>4, <1>6, <1>7 DEF f

LEMMA RoundOK ==
    ASSUME NEW m \in Nat, NEW s \in 0..2, NEW sign \in {1, -1}
    PROVE  LET x == RoundHalfEven(sign * s * m)
           IN  x \in -m..m /\ (sign = 1 => x >= 0) /\ (sign = -1 => x <= 0)
  <1>1. CASE s = 0
    BY <1>1 DEF RoundHalfEven
  <1>2. CASE s = 1
    BY <1>2 DEF RoundHalfEven
  <1>3. CASE s = 2
    BY <1>3 DEF RoundHalfEven
  <1> QED BY <1>1, <1>2, <1>3

\* Thresholds move with the trend, and by the maximal shift at most.
LEMMA ShiftOK ==
    ASSUME ovRows \in Seq(OvRow), NEW r \in 1..Len(ovRows)
    PROVE  /\ RsiShift(r) \in -OvMaxShift..OvMaxShift
           /\ ovRows[r].direction = "up" => RsiShift(r) >= 0
           /\ ovRows[r].direction # "up" => RsiShift(r) <= 0
  <1> DEFINE s == EffectiveStrength(r)
             sign == IF ovRows[r].direction = "up" THEN 1 ELSE -1
  <1>1. s \in 0..2 /\ OvMaxShift \in Nat /\ sign \in {1, -1}
    BY StrengthOK, RangesOK
  <1>2. RsiShift(r) = RoundHalfEven(sign * s * OvMaxShift)
    BY DEF RsiShift
  <1> HIDE DEF s
  <1> QED BY <1>1, <1>2, RoundOK

LEMMA Clamped ==
    ASSUME NEW w \in 0..100, NEW u \in 0..100, w <= u, NEW shift \in Int
    PROVE  /\ Clamp(0, 100, w + shift) \in 0..100
           /\ Clamp(0, 100, w + shift) <= Clamp(0, 100, u + shift)
           /\ shift >= 0 => Clamp(0, 100, w + shift) - w \in 0..shift
           /\ shift <= 0 => Clamp(0, 100, w + shift) - w \in shift..0
  BY DEF Clamp

LEMMA WatcherOK ==
    ASSUME NEW shift \in Int
    PROVE  LET w == ShiftWatcher(shift)
               moved == w[1] - OvWatcher[1]
           IN  /\ w[1] \in 0..100 /\ w[1] <= w[2]
               /\ shift >= 0 => moved \in 0..shift
               /\ shift <= 0 => moved \in shift..0
  <1>1. PICK w \in 0..100, u \in 0..100 : w = OvWatcher[1] /\ u = OvWatcher[2] /\ w <= u
    BY RangesOK
  <1>2. /\ ShiftWatcher(shift)[1] = Clamp(0, 100, w + shift)
        /\ ShiftWatcher(shift)[2] = Clamp(0, 100, u + shift)
    BY <1>1 DEF ShiftWatcher
  <1>3. /\ Clamp(0, 100, w + shift) \in 0..100
        /\ Clamp(0, 100, w + shift) <= Clamp(0, 100, u + shift)
        /\ shift >= 0 => Clamp(0, 100, w + shift) - w \in 0..shift
        /\ shift <= 0 => Clamp(0, 100, w + shift) - w \in shift..0
    BY <1>1, Clamped, ZenonT(60)
  <1> QED BY <1>1, <1>2, <1>3

LEMMA RestsOverlaid ==
    NoOverlaid.trend = 0 /\ \A rows : Overlaid(NoOverlaid, Upward(NoOverlaid, rows))
  BY RangesOK DEF NoOverlaid, Overlaid, Upward

LEMMA InitOverlay == OvInit => OverlayInv
  BY RestsOverlaid DEF OvInit, OverlayInv

LEMMA EnterOv ==
    ASSUME OverlayInv, NEW way \in OvSides, OvEnter(way)
    PROVE  OverlayInv'
  <1> DEFINE trend == IF ovConfig # {} THEN ResolveAiTrend ELSE 0
  <1>1. /\ ~("lock" \in ovConfig /\ trend # 0 /\ ShouldBlockEntry(trend, way))
        /\ ovEntry' = [side |-> way, phases |-> ovConfig, trend |-> trend]
        /\ UNCHANGED <<ovRows, ovPos>>
    BY DEF OvEnter
  <1>2. trend \in 0..Len(ovRows)
    BY DEF OverlayInv, ResolveAiTrend
  <1>3. PICK t \in 0..Len(ovRows) : t = trend
    BY <1>2
  <1> HIDE DEF trend
  <1>4. ShouldBlockEntry(t, way)' = ShouldBlockEntry(t, way)
    BY <1>1 DEF ShouldBlockEntry, EffectiveStrength, Aligned
  <1>5. /\ ovEntry'.side = way /\ ovEntry'.trend = t /\ ovEntry'.phases = ovConfig
        /\ "lock" \in ovConfig /\ t # 0 => ~ShouldBlockEntry(t, way)'
    BY <1>1, <1>3, <1>4
  <1> QED BY <1>1, <1>5 DEF OverlayInv

\* The position is built from the trend the side lock let through.
LEMMA OpenOv ==
    ASSUME OverlayInv, OvOpen
    PROVE  OverlayInv'
  <1> DEFINE r == ovEntry.trend
             factor == IF "atr" \in ovEntry.phases /\ r # 0
                       THEN ScaleAtrMultiplier(r, ovEntry.side) ELSE 100
             watcher == IF "rsi" \in ovEntry.phases /\ r # 0
                        THEN ShiftWatcher(RsiShift(r)) ELSE OvWatcher
  <1>1. /\ ovEntry # NoEntry /\ ovEntry' = NoEntry /\ ovRows' = ovRows
        /\ ovPos' = [side |-> ovEntry.side, phases |-> ovEntry.phases, trend |-> r,
                     factor |-> factor, watcher |-> watcher]
    BY DEF OvOpen, TrendInUse
  <1>2. /\ ovRows \in Seq(OvRow) /\ ovEntry.side \in OvSides /\ r \in 0..Len(ovRows)
        /\ "lock" \in ovEntry.phases /\ r # 0 => ~ShouldBlockEntry(r, ovEntry.side)
    BY <1>1 DEF OverlayInv
  <1> DEFINE ups == r # 0 /\ ovRows[r].direction = "up"
  <1>3. /\ factor \in OvRange[1]..OvRange[2]
        /\ "lock" \in ovEntry.phases => factor >= 100
        /\ factor # 100 => (factor > 100 <=> (ups <=> ovEntry.side = "long"))
    <2>1. CASE "atr" \in ovEntry.phases /\ r # 0
      <3>1. r \in 1..Len(ovRows) /\ factor = ScaleAtrMultiplier(r, ovEntry.side)
        BY <1>2, <2>1
      <3>2. Aligned(r, ovEntry.side) <=> (ups <=> ovEntry.side = "long")
        BY <2>1 DEF Aligned
      <3> HIDE DEF factor, ups, r
      <3>3. /\ factor \in OvRange[1]..OvRange[2]
            /\ Aligned(r, ovEntry.side) => factor >= 100
            /\ ~Aligned(r, ovEntry.side) => factor <= 100
            /\ factor < 100 => ShouldBlockEntry(r, ovEntry.side)
        BY <1>2, <3>1, FactorOK
      <3>4. factor \in Int
        BY <3>3, RangesOK
      <3> QED BY <1>2, <2>1, <3>2, <3>3, <3>4
    <2>2. CASE ~("atr" \in ovEntry.phases /\ r # 0)
      BY <2>2, RangesOK
    <2> QED BY <2>1, <2>2
  <1>4. /\ watcher[1] <= watcher[2]
        /\ watcher[1] - OvWatcher[1] \in -OvMaxShift..OvMaxShift
        /\ watcher[1] - OvWatcher[1] # 0 => (watcher[1] - OvWatcher[1] > 0 <=> ups)
    <2>1. CASE "rsi" \in ovEntry.phases /\ r # 0
      <3>1. r \in 1..Len(ovRows) /\ watcher = ShiftWatcher(RsiShift(r))
        BY <1>2, <2>1
      <3> HIDE DEF watcher
      <3>2. /\ RsiShift(r) \in -OvMaxShift..OvMaxShift
            /\ ups => RsiShift(r) >= 0
            /\ ~ups => RsiShift(r) <= 0
        BY <1>2, <3>1, ShiftOK
      <3> HIDE DEF ups, r
      <3>3. RsiShift(r) \in Int
        BY <3>2, RangesOK
      <3>4. /\ watcher[1] \in 0..100 /\ watcher[1] <= watcher[2]
            /\ RsiShift(r) >= 0 => watcher[1] - OvWatcher[1] \in 0..RsiShift(r)
            /\ RsiShift(r) <= 0 => watcher[1] - OvWatcher[1] \in RsiShift(r)..0
        BY <3>1, <3>3, WatcherOK
      <3>5. watcher[1] \in Int /\ OvWatcher[1] \in Int /\ OvMaxShift \in Int
        BY <3>4, RangesOK
      <3> QED BY <3>2, <3>3, <3>4, <3>5
    <2>2. CASE ~("rsi" \in ovEntry.phases /\ r # 0)
      BY <2>2, RangesOK
    <2> QED BY <2>1, <2>2
  <1> HIDE DEF factor, watcher
  <1>5. /\ ovPos'.side = ovEntry.side /\ ovPos'.phases = ovEntry.phases /\ ovPos'.trend = r
        /\ ovPos'.factor = factor /\ ovPos'.watcher = watcher
    BY <1>1
  <1>6. Upward(ovPos', ovRows') = ups
    BY <1>1, <1>5 DEF Upward
  <1> HIDE DEF ups, r
  <1>7. Overlaid(ovPos', ups)
    BY <1>3, <1>4, <1>5 DEF Overlaid
  <1> QED BY <1>1, <1>2, <1>5, <1>6, <1>7 DEF OverlayInv

\* A later analysis changes nothing of the rows before it.
LEMMA StoredOv ==
    ASSUME OverlayInv, NEW direction \in {"up", "down", "flat", "none"},
           NEW strength \in OvStrengths, NEW computed \in Int,
           AnalysisStored(direction, strength, computed)
    PROVE  OverlayInv'
  <1> DEFINE row == [direction |-> direction, strength |-> strength, computed |-> computed]
  <1>1. ovRows' = Append(ovRows, row) /\ UNCHANGED <<ovConfig, ovEntry, ovPos>>
    BY DEF AnalysisStored
  <1>2. row \in OvRow /\ ovRows \in Seq(OvRow)
    BY DEF OvRow, OverlayInv
  <1> HIDE DEF row
  <1>3. /\ ovRows' \in Seq(OvRow) /\ Len(ovRows') = Len(ovRows) + 1
        /\ \A i \in 1..Len(ovRows) : ovRows'[i] = ovRows[i]
    BY <1>1, <1>2
  <1>4. /\ Len(ovRows) \in Nat /\ ovPos.trend \in 0..Len(ovRows)
        /\ ovEntry # NoEntry => ovEntry.trend \in 0..Len(ovRows)
    BY <1>2 DEF OverlayInv
  <1>5. Upward(ovPos', ovRows') = Upward(ovPos, ovRows)
    BY <1>1, <1>3, <1>4 DEF Upward
  <1>6. ASSUME ovEntry # NoEntry, ovEntry.trend # 0
        PROVE  ShouldBlockEntry(ovEntry.trend, ovEntry.side)'
                 = ShouldBlockEntry(ovEntry.trend, ovEntry.side)
    <2>1. ovRows'[ovEntry.trend] = ovRows[ovEntry.trend]
      BY <1>3, <1>4, <1>6
    <2> QED BY <1>1, <2>1 DEF ShouldBlockEntry, EffectiveStrength, Aligned
  <1>7. Overlaid(ovPos', Upward(ovPos', ovRows')) /\ ovPos'.trend \in 0..Len(ovRows')
    BY <1>1, <1>3, <1>4, <1>5 DEF OverlayInv
  <1>8. ovEntry' # NoEntry =>
           /\ ovEntry'.side \in OvSides /\ ovEntry'.trend \in 0..Len(ovRows')
           /\ "lock" \in ovEntry'.phases /\ ovEntry'.trend # 0 =>
                  ~ShouldBlockEntry(ovEntry.trend, ovEntry.side)'
    BY <1>1, <1>3, <1>4, <1>6 DEF OverlayInv
  <1> QED BY <1>3, <1>7, <1>8 DEF OverlayInv

LEMMA StepOverlay == OverlayInv /\ [OvNext]_ovVars => OverlayInv'
  <1> SUFFICES ASSUME OverlayInv, [OvNext]_ovVars PROVE OverlayInv'
    OBVIOUS
  <1>1. CASE UNCHANGED <<ovRows, ovEntry, ovPos>>
    BY <1>1 DEF OverlayInv, Overlaid, Upward, ShouldBlockEntry, EffectiveStrength, Aligned
  <1>2. CASE OvRefused
    BY <1>2 DEF OvRefused, OverlayInv
  <1>3. CASE OvCloses
    <2>1. ovPos' = NoOverlaid /\ UNCHANGED <<ovRows, ovEntry>>
      BY <1>3 DEF OvCloses
    <2>2. ShouldBlockEntry(ovEntry.trend, ovEntry.side)' = ShouldBlockEntry(ovEntry.trend, ovEntry.side)
      BY <2>1 DEF ShouldBlockEntry, EffectiveStrength, Aligned
    <2>3. ovPos'.trend \in 0..Len(ovRows') /\ Overlaid(ovPos', Upward(ovPos', ovRows'))
      BY <2>1, RestsOverlaid DEF OverlayInv
    <2> QED BY <2>1, <2>2, <2>3 DEF OverlayInv
  <1>4. CASE \E way \in {"long", "short"} : OvEnter(way)
    BY <1>4, EnterOv DEF OvSides
  <1>5. ASSUME NEW direction \in {"up", "down", "flat", "none"}, NEW strength \in OvStrengths,
               NEW computed \in 0..OvClock, AnalysisStored(direction, strength, computed)
        PROVE  OverlayInv'
    BY <1>5, StoredOv
  <1> QED BY <1>1, <1>2, <1>3, <1>4, <1>5, OpenOv DEF OvNext, ovVars, OvTick, UpdateOverlayConfig

\* Whatever analyses arrive while an entry is under way: lock, stop and watchers
\* of the position work off one trend and stay inside the user's envelope
\* (OneTrendPerEntry).
THEOREM OneTrendUsed == OvSpec => []OneTrendPerEntry
  <1>1. OverlayInv => OneTrendPerEntry
    BY DEF OverlayInv, Overlaid, Upward, OneTrendPerEntry
  <1> QED BY InitOverlay, StepOverlay, <1>1, PTL DEF OvSpec

-----------------------------------------------------------------------------
(* IncomeSync: the funding ledger is an initial segment.                    *)

IncomeRunSet ==
    {IcIdle} \cup [pc : {"page", "commit"}, since : Nat \ {0}, rows : SUBSET Nat, pages : Nat]

\* A run has read, or found committed, everything before the point it goes on
\* from and everything before a row it holds.
RunKnows(run) ==
    run.pc # "idle" =>
        /\ run.rows \subseteq 1..icPaid /\ run.since <= icPaid + 1
        /\ \A q \in 1..icPaid : q < run.since => q \in run.rows \cup icRows
        /\ \A p \in run.rows, q \in 1..icPaid : q <= p => q \in run.rows \cup icRows

\* The inductive invariant: the ledger is closed downward, and so is what any
\* run under way would make of it, were it committed now.
IncomeInv ==
    /\ icPaid \in Nat /\ icRows \subseteq 1..icPaid
    /\ icRun \in [IcRuns -> IncomeRunSet]
    /\ \A p \in icRows, q \in 1..icPaid : q <= p => q \in icRows
    /\ \A r \in IcRuns : RunKnows(icRun[r])

LEMMA InitIncome == IcInit => IncomeInv
  BY DEF IcInit, IncomeInv, IncomeRunSet, RunKnows, IcIdle, IcRuns

LEMMA SinceIs ==
    ASSUME IncomeInv
    PROVE  /\ ComputeSince \in Nat \ {0} /\ ComputeSince <= icPaid + 1
           /\ \A q \in 1..icPaid : q < ComputeSince => q \in icRows
  <1>1. CASE icRows = {}
    BY <1>1 DEF ComputeSince, IncomeInv
  <1>2. CASE icRows # {}
    <2>6. icPaid \in Int /\ icRows \subseteq 1..icPaid
      BY DEF IncomeInv
    <2>7. IsFiniteSet(1..icPaid)
      BY <2>6, FS_Interval
    <2>1. IsFiniteSet(icRows)
      BY <2>6, <2>7, FS_Subset
    <2>2. icRows \subseteq Int
      BY <2>6
    <2>3. Max(icRows) \in icRows
      BY <1>2, <2>1, <2>2, MaxIs
    <2>4. PICK m \in icRows : m = Max(icRows)
      BY <2>3
    <2>5. ComputeSince = m
      BY <1>2, <2>4 DEF ComputeSince
    <2> QED BY <2>4, <2>5 DEF IncomeInv
  <1> QED BY <1>1, <1>2

\* A page is the next payments from the point on, without a gap.
LEMMA PageIs ==
    ASSUME NEW since \in Nat \ {0}, NEW paid \in Nat, NEW got,
           got = {p \in since..paid : p < since + IcPage}
    PROVE  /\ got \subseteq 1..paid
           /\ \A p \in got, q \in 1..paid : q <= p /\ q >= since => q \in got
           /\ got # {} => /\ Max(got) + 1 \in Nat \ {0} /\ Max(got) <= paid
                          /\ \A q \in 1..paid : q >= since /\ q < Max(got) + 1 => q \in got
  <1>1. \A p \in got, q \in 1..paid : q <= p /\ q >= since => q \in got
    BY IncomeAssumption
  <1>2. got \subseteq 1..paid /\ got \subseteq Int
    OBVIOUS
  <1>3. ASSUME got # {}
        PROVE  /\ Max(got) + 1 \in Nat \ {0} /\ Max(got) <= paid
               /\ \A q \in 1..paid : q >= since /\ q < Max(got) + 1 => q \in got
    <2>4. IsFiniteSet(1..paid)
      BY FS_Interval
    <2>1. IsFiniteSet(got)
      BY <1>2, <2>4, FS_Subset
    <2>2. Max(got) \in got
      BY <1>2, <1>3, <2>1, MaxIs
    <2>3. PICK m \in got : m = Max(got)
      BY <2>2
    <2>5. m \in Nat \ {0} /\ m <= paid
      BY <1>2
    <2>6. ASSUME NEW q \in 1..paid, q >= since, q < m + 1 PROVE q \in got
      <3>1. q <= m
        BY <2>5, <2>6
      <3> QED BY <1>1, <2>6, <3>1
    <2> QED BY <2>3, <2>5, <2>6
  <1> QED BY <1>1, <1>2, <1>3

\* What a run knows stays known when the ledger grows and the venue pays on.
LEMMA RunsKnow ==
    ASSUME IncomeInv, NEW r \in IcRuns, icRun'[r] = icRun[r], icRows \subseteq icRows',
           icPaid' = icPaid
    PROVE  RunKnows(icRun[r])'
  BY DEF IncomeInv, RunKnows

LEMMA PayIncome == ASSUME IncomeInv, VenuePays PROVE IncomeInv'
  <1>1. icPaid' = icPaid + 1 /\ icRows' = icRows /\ icRun' = icRun
    BY DEF VenuePays
  <1>2. icPaid \in Nat /\ icRows \subseteq 1..icPaid
    BY DEF IncomeInv
  <1>3. ASSUME NEW r \in IcRuns PROVE RunKnows(icRun[r])'
    <2>1. PICK run \in IncomeRunSet : run = icRun[r] /\ RunKnows(run)
      BY DEF IncomeInv
    <2>2. run.pc # "idle" => run.since \in Nat /\ run.rows \in SUBSET Nat
      BY DEF IncomeRunSet, IcIdle
    <2>3. CASE run.pc # "idle"
      <3>1. PICK paid \in Nat : paid = icPaid
        BY <1>2
      <3>2. /\ run.rows \subseteq 1..paid /\ run.since <= paid + 1
            /\ \A q \in 1..paid : q < run.since => q \in run.rows \cup icRows
            /\ \A p \in run.rows, q \in 1..paid : q <= p => q \in run.rows \cup icRows
        BY <2>1, <2>3, <3>1 DEF RunKnows
      <3>3. \A q \in 1..paid + 1 : q < run.since => q \in 1..paid
        BY <2>2, <2>3, <3>2
      <3>4. \A p \in run.rows, q \in 1..paid + 1 : q <= p => q \in 1..paid
        BY <3>2
      <3>5. run.rows \subseteq 1..paid + 1 /\ run.since <= paid + 1 + 1
        BY <2>2, <2>3, <3>2
      <3>6. icPaid' = paid + 1 /\ icRows' = icRows /\ icRun'[r] = run
        BY <1>1, <2>1, <3>1
      <3>7. /\ \A q \in 1..paid + 1 : q < run.since => q \in run.rows \cup icRows
            /\ \A p \in run.rows, q \in 1..paid + 1 : q <= p => q \in run.rows \cup icRows
        BY <3>2, <3>3, <3>4
      <3> QED BY <3>5, <3>6, <3>7 DEF RunKnows
    <2>4. CASE run.pc = "idle"
      BY <1>1, <2>1, <2>4 DEF RunKnows
    <2> QED BY <2>3, <2>4
  <1> QED BY <1>1, <1>2, <1>3 DEF IncomeInv

LEMMA StartsIncome ==
    ASSUME IncomeInv, NEW r \in IcRuns, StartIncome(r)
    PROVE  IncomeInv'
  <1>1. PICK s \in Nat \ {0} : s = ComputeSince
    BY SinceIs
  <1>2. s <= icPaid + 1 /\ \A q \in 1..icPaid : q < s => q \in icRows
    BY <1>1, SinceIs
  <1>3. /\ icRun' = [icRun EXCEPT ![r] = [pc |-> "page", since |-> s, rows |-> {}, pages |-> 0]]
        /\ UNCHANGED <<icPaid, icRows>>
    BY <1>1 DEF StartIncome
  <1>4. [pc |-> "page", since |-> s, rows |-> {}, pages |-> 0] \in IncomeRunSet
    BY DEF IncomeRunSet
  <1>5. icRun' \in [IcRuns -> IncomeRunSet]
    BY <1>3, <1>4 DEF IncomeInv
  <1>6. ASSUME NEW t \in IcRuns PROVE RunKnows(icRun[t])'
    <2>1. CASE t = r
      <3>1. icRun'[t] = [pc |-> "page", since |-> s, rows |-> {}, pages |-> 0]
        BY <1>3, <2>1 DEF IncomeInv
      <3> QED BY <1>2, <1>3, <3>1 DEF RunKnows
    <2>2. CASE t # r
      BY <1>3, <2>2, RunsKnow DEF IncomeInv
    <2> QED BY <2>1, <2>2
  <1> QED BY <1>3, <1>5, <1>6 DEF IncomeInv

LEMMA PagesIncome ==
    ASSUME IncomeInv, NEW r \in IcRuns, IncomePage(r)
    PROVE  IncomeInv'
  <1>1. PICK run \in IncomeRunSet : run = icRun[r] /\ run.pc = "page"
    BY DEF IncomeInv, IncomePage
  <1>2. /\ run = [pc |-> "page", since |-> run.since, rows |-> run.rows, pages |-> run.pages]
        /\ run.since \in Nat \ {0} /\ run.rows \in SUBSET Nat /\ run.pages \in Nat
    BY <1>1 DEF IncomeRunSet, IcIdle
  <1>3. PICK got : got = {p \in run.since..icPaid : p < run.since + IcPage}
    OBVIOUS
  <1>4. /\ got \subseteq 1..icPaid
        /\ \A p \in got, q \in 1..icPaid : q <= p /\ q >= run.since => q \in got
        /\ got # {} => /\ Max(got) + 1 \in Nat \ {0} /\ Max(got) <= icPaid
                       /\ \A q \in 1..icPaid : q >= run.since /\ q < Max(got) + 1 => q \in got
    BY <1>2, <1>3, PageIs DEF IncomeInv
  <1>5. PICK s : s = IF got = {} THEN run.since ELSE NextSince(run.since, got)
    OBVIOUS
  <1>6. PICK pc \in {"page", "commit"} :
           pc = IF Cardinality(got) < IcPage \/ run.pages + 1 = IcMaxPages THEN "commit" ELSE "page"
    OBVIOUS
  <1> DEFINE new == [run EXCEPT !.rows = @ \cup got, !.pages = @ + 1, !.since = s, !.pc = pc]
  <1>7. icRun' = [icRun EXCEPT ![r] = new] /\ UNCHANGED <<icPaid, icRows>>
    BY <1>1, <1>3, <1>5, <1>6 DEF IncomePage
  <1>8. new = [pc |-> pc, since |-> s, rows |-> run.rows \cup got, pages |-> run.pages + 1]
    <2> DEFINE a == [run EXCEPT !.rows = run.rows \cup got]
               b == [a EXCEPT !.pages = run.pages + 1]
               c == [b EXCEPT !.since = s]
    <2>1. a = [pc |-> "page", since |-> run.since, rows |-> run.rows \cup got, pages |-> run.pages]
      BY <1>2
    <2>2. b = [pc |-> "page", since |-> run.since, rows |-> run.rows \cup got, pages |-> run.pages + 1]
      <3> HIDE DEF a
      <3> QED BY <2>1
    <2>3. c = [pc |-> "page", since |-> s, rows |-> run.rows \cup got, pages |-> run.pages + 1]
      <3> HIDE DEF b
      <3> QED BY <2>2
    <2>4. new = [c EXCEPT !.pc = pc]
      <3>1. a.pages = run.pages /\ b.since = run.since
        <4> HIDE DEF a, b
        <4> QED BY <2>1, <2>2
      <3> QED BY <3>1
    <2> HIDE DEF c, new
    <2> QED BY <2>3, <2>4
  <1>9. run.since <= icPaid + 1 /\ run.rows \subseteq 1..icPaid
    BY <1>1 DEF IncomeInv, RunKnows
  <1>10. s \in Nat \ {0} /\ s <= icPaid + 1
    <2>1. CASE got = {}
      BY <1>2, <1>5, <1>9, <2>1
    <2>2. CASE got # {}
      <3>1. PICK m \in Int : m = Max(got) + 1
        BY <1>4, <2>2
      <3>2. s = m /\ m \in Nat \ {0}
        BY <1>4, <1>5, <2>2, <3>1 DEF NextSince
      <3>3. icPaid \in Nat /\ Max(got) \in Int
        <4>1. IsFiniteSet(1..icPaid)
          BY FS_Interval DEF IncomeInv
        <4>2. IsFiniteSet(got) /\ got \subseteq Int
          <5>1. got \subseteq 1..icPaid
            BY <1>4
          <5>2. got \subseteq Int
            BY <5>1
          <5>3. IsFiniteSet(got)
            BY <4>1, <5>1, FS_Subset
          <5> QED BY <5>2, <5>3
        <4> QED BY <2>2, <4>2, MaxIs DEF IncomeInv
      <3> QED BY <1>4, <2>2, <3>1, <3>2, <3>3
    <2> QED BY <2>1, <2>2
  <1>11. new \in IncomeRunSet
    <2>1. got \subseteq Nat
      BY <1>4
    <2> HIDE DEF new
    <2> QED BY <1>2, <1>8, <1>10, <2>1 DEF IncomeRunSet
  <1>12. ASSUME NEW q \in 1..icPaid, q < s PROVE q \in run.rows \cup got \cup icRows
    <2>1. q < run.since => q \in run.rows \cup icRows
      BY <1>1 DEF IncomeInv, RunKnows
    <2>2. CASE got = {}
      BY <1>5, <1>12, <2>1, <2>2
    <2>3. CASE got # {}
      <3>1. s = Max(got) + 1
        BY <1>5, <2>3 DEF NextSince
      <3>2. q >= run.since => q \in got
        BY <1>4, <1>12, <2>3, <3>1
      <3>3. q \in Int /\ run.since \in Int
        BY <1>2
      <3> QED BY <2>1, <3>2, <3>3
    <2> QED BY <2>2, <2>3
  <1>13. ASSUME NEW p \in run.rows \cup got, NEW q \in 1..icPaid, q <= p
         PROVE  q \in run.rows \cup got \cup icRows
    <2>1. p \in run.rows => q \in run.rows \cup icRows
      BY <1>1, <1>13 DEF IncomeInv, RunKnows
    <2>2. CASE p \in got /\ q >= run.since
      BY <1>4, <1>13, <2>2
    <2>3. CASE p \in got /\ ~(q >= run.since)
      <3>1. q < run.since
        BY <1>2, <2>3
      <3> QED BY <1>1, <3>1 DEF IncomeInv, RunKnows
    <2> QED BY <2>1, <2>2, <2>3
  <1>14. icRun' \in [IcRuns -> IncomeRunSet]
    <2> HIDE DEF new
    <2> QED BY <1>7, <1>11 DEF IncomeInv
  <1>15. ASSUME NEW t \in IcRuns PROVE RunKnows(icRun[t])'
    <2>1. CASE t = r
      <3>1. icRun'[t] = [pc |-> pc, since |-> s, rows |-> run.rows \cup got, pages |-> run.pages + 1]
        <4> HIDE DEF new
        <4> QED BY <1>7, <1>8, <2>1 DEF IncomeInv
      <3>2. /\ icRun'[t].since = s /\ icRun'[t].rows = run.rows \cup got
            /\ icPaid' = icPaid /\ icRows' = icRows
        BY <1>7, <3>1
      <3> QED BY <1>4, <1>9, <1>10, <1>12, <1>13, <3>2 DEF RunKnows
    <2>2. CASE t # r
      <3>1. icRun'[t] = icRun[t] /\ icPaid' = icPaid /\ icRows' = icRows
        <4> HIDE DEF new
        <4> QED BY <1>7, <2>2 DEF IncomeInv
      <3> QED BY <3>1, RunsKnow
    <2> QED BY <2>1, <2>2
  <1> QED BY <1>7, <1>14, <1>15 DEF IncomeInv

\* A commit makes the ledger what the run made of it; the other run knows no less.
LEMMA CommitsIncome ==
    ASSUME IncomeInv, NEW r \in IcRuns, IncomeCommit(r)
    PROVE  IncomeInv'
  <1>1. /\ icRun[r].pc = "commit" /\ icRows' = icRows \cup icRun[r].rows
        /\ icRun' = [icRun EXCEPT ![r] = IcIdle] /\ icPaid' = icPaid
    BY DEF IncomeCommit
  <1>2. icRun' \in [IcRuns -> IncomeRunSet]
    BY <1>1 DEF IncomeInv, IncomeRunSet
  <1>3. ASSUME NEW t \in IcRuns PROVE RunKnows(icRun[t])'
    <2>1. CASE t = r
      BY <1>1, <2>1 DEF IncomeInv, RunKnows, IcIdle
    <2>2. CASE t # r
      BY <1>1, <2>2, RunsKnow DEF IncomeInv
    <2> QED BY <2>1, <2>2
  <1>4. /\ icRun[r].rows \subseteq 1..icPaid
        /\ \A p \in icRun[r].rows, q \in 1..icPaid : q <= p => q \in icRun[r].rows \cup icRows
    BY <1>1 DEF IncomeInv, RunKnows
  <1>5. icRows' \subseteq 1..icPaid' /\ \A p \in icRows', q \in 1..icPaid' : q <= p => q \in icRows'
    BY <1>1, <1>4 DEF IncomeInv
  <1> QED BY <1>1, <1>2, <1>3, <1>5 DEF IncomeInv

LEMMA FailsIncome ==
    ASSUME IncomeInv, NEW r \in IcRuns, IncomeFails(r)
    PROVE  IncomeInv'
  <1>1. icRun' = [icRun EXCEPT ![r] = IcIdle] /\ UNCHANGED <<icPaid, icRows>>
    BY DEF IncomeFails
  <1>2. icRun' \in [IcRuns -> IncomeRunSet]
    BY <1>1 DEF IncomeInv, IncomeRunSet
  <1>3. ASSUME NEW t \in IcRuns PROVE RunKnows(icRun[t])'
    <2>1. CASE t = r
      BY <1>1, <2>1 DEF IncomeInv, RunKnows, IcIdle
    <2>2. CASE t # r
      BY <1>1, <2>2, RunsKnow DEF IncomeInv
    <2> QED BY <2>1, <2>2
  <1> QED BY <1>1, <1>2, <1>3 DEF IncomeInv

LEMMA StepIncome == ASSUME IncomeInv, [IcNext]_icVars PROVE IncomeInv'
  <1>1. CASE UNCHANGED icVars
    BY <1>1 DEF icVars, IncomeInv, RunKnows
  <1>2. CASE VenuePays
    BY <1>2, PayIncome
  <1>3. ASSUME NEW r \in IcRuns, StartIncome(r) PROVE IncomeInv'
    BY <1>3, StartsIncome
  <1>4. ASSUME NEW r \in IcRuns, IncomePage(r) PROVE IncomeInv'
    BY <1>4, PagesIncome
  <1>5. ASSUME NEW r \in IcRuns, IncomeCommit(r) PROVE IncomeInv'
    BY <1>5, CommitsIncome
  <1>6. ASSUME NEW r \in IcRuns, IncomeFails(r) PROVE IncomeInv'
    BY <1>6, FailsIncome
  <1> QED BY <1>1, <1>2, <1>3, <1>4, <1>5, <1>6 DEF IcNext

\* The income ledger has no payment without the ones before it, although two
\* runs overlap, fail half way and resume at whatever the other has committed.
THEOREM FundingIsWhole == IcSpec => []FundingHasNoHoles
  <1>1. IncomeInv => FundingHasNoHoles
    BY DEF IncomeInv, FundingHasNoHoles
  <1> QED BY <1>1, InitIncome, StepIncome, PTL DEF IcSpec

-----------------------------------------------------------------------------
(* PreTradeRisk: the margin of a set of strategies.                         *)

Picked(s) == CHOOSE x \in s : TRUE
Margin(S) == MapThenSumSet(LAMBDA c : PrSize[c], S)

\* The recursion behind the sum, with its functions spelt out.
PickFn == [s \in SUBSET PrConfigs |-> Picked(s)]
AddFn == [x \in PrConfigs |-> [v \in Nat |-> PrSize[x] + v]]

LEMMA PickIs == \A s \in SUBSET PrConfigs : s # {} => PickFn[s] \in s /\ PickFn[s] = Picked(s)
  BY DEF PickFn, Picked

LEMMA AddIs == \A x \in PrConfigs, v \in Nat : AddFn[x][v] = PrSize[x] + v /\ AddFn[x][v] \in Nat
  BY RiskAssumption DEF AddFn

LEMMA MarginSolves ==
    ASSUME NEW S \in SUBSET PrConfigs
    PROVE  \E g \in [SUBSET S -> Nat] : Solves(g, S, 0, PickFn, AddFn) /\ Margin(S) = g[S]
  <1> DEFINE body(g) == [s \in SUBSET S |-> IF s = {} THEN 0 ELSE PrSize[Picked(s)] + g[s \ {Picked(s)}]]
             def == CHOOSE g : g = body(g)
  <1>1. IsFiniteSet(S)
    BY RiskAssumption, FS_Subset
  <1>2. /\ \A s \in SUBSET S : s # {} => PickFn[s] \in s
        /\ \A x \in S, v \in Nat : AddFn[x][v] \in Nat
    BY PickIs, AddIs
  <1>3. PICK g \in [SUBSET S -> Nat] : Solves(g, S, 0, PickFn, AddFn)
    BY <1>1, <1>2, FoldExists
  <1>4. \A s \in SUBSET S : s # {} =>
            AddFn[PickFn[s]][g[s \ {PickFn[s]}]] = PrSize[Picked(s)] + g[s \ {Picked(s)}]
    <2> SUFFICES ASSUME NEW s \in SUBSET S, s # {}
                 PROVE  AddFn[PickFn[s]][g[s \ {PickFn[s]}]] = PrSize[Picked(s)] + g[s \ {Picked(s)}]
      OBVIOUS
    <2>1. Picked(s) \in s /\ PickFn[s] = Picked(s)
      BY PickIs
    <2>2. g[s \ {Picked(s)}] \in Nat /\ Picked(s) \in PrConfigs
      BY <2>1
    <2> QED BY <2>1, <2>2, AddIs
  <1>5. g = body(g)
    BY <1>3, <1>4 DEF Solves
  <1>6. def = body(def)
    <2> HIDE DEF body
    <2> QED BY <1>5
  <1>7. \A s \in SUBSET S : def[s] = g[s]
    <2> DEFINE Good == {s \in SUBSET S : def[s] = g[s]}
    <2>1. ASSUME NEW s \in SUBSET S, \A V \in SUBSET s : V # s => V \in Good
          PROVE  s \in Good
      <3>1. def[s] = IF s = {} THEN 0 ELSE PrSize[Picked(s)] + def[s \ {Picked(s)}]
        <4>1. PICK d : d = def
          OBVIOUS
        <4>2. d = body(d)
          <5> HIDE DEF def, body
          <5> QED BY <1>6, <4>1
        <4>3. d[s] = IF s = {} THEN 0 ELSE PrSize[Picked(s)] + d[s \ {Picked(s)}]
          BY <4>2
        <4> HIDE DEF def
        <4> QED BY <4>1, <4>3
      <3>2. g[s] = IF s = {} THEN 0 ELSE PrSize[Picked(s)] + g[s \ {Picked(s)}]
        BY <1>5
      <3>3. s # {} => def[s \ {Picked(s)}] = g[s \ {Picked(s)}]
        <4>1. s # {} => Picked(s) \in s
          BY PickIs
        <4>2. s # {} => s \ {Picked(s)} \in SUBSET s /\ s \ {Picked(s)} # s
          BY <4>1
        <4> HIDE DEF def
        <4> QED BY <2>1, <4>2
      <3> HIDE DEF def
      <3> QED BY <3>1, <3>2, <3>3
    <2>2. SUBSET S \subseteq Good
      <3> HIDE DEF Good
      <3> QED BY <1>1, <2>1, SubsetInduction
    <2> HIDE DEF def
    <2> QED BY <2>2
  <1>8. Margin(S) = def[S]
    BY DEF Margin, MapThenSumSet, MapThenFoldSet, Picked
  <1> HIDE DEF def
  <1> QED BY <1>3, <1>7, <1>8

LEMMA MarginAt ==
    ASSUME NEW S \in SUBSET PrConfigs
    PROVE  /\ Margin(S) \in Nat
           /\ S = {} => Margin(S) = 0
           /\ S # {} => /\ Picked(S) \in S
                        /\ Margin(S) = PrSize[Picked(S)] + Margin(S \ {Picked(S)})
  <1>1. PICK g \in [SUBSET S -> Nat] : Solves(g, S, 0, PickFn, AddFn) /\ Margin(S) = g[S]
    BY MarginSolves
  <1>2. S = {} => Margin(S) = 0
    BY <1>1 DEF Solves
  <1>3. ASSUME S # {}
        PROVE  Picked(S) \in S /\ Margin(S) = PrSize[Picked(S)] + Margin(S \ {Picked(S)})
    <2>1. PICK W : W = S \ {Picked(S)}
      OBVIOUS
    <2>2. Picked(S) \in S /\ PickFn[S] = Picked(S)
      BY <1>3, PickIs
    <2>3. W \in SUBSET S /\ W \in SUBSET PrConfigs /\ W \in SUBSET W
      BY <2>1
    <2>4. PICK h \in [SUBSET W -> Nat] : Solves(h, W, 0, PickFn, AddFn) /\ Margin(W) = h[W]
      BY <2>3, MarginSolves
    <2>5. IsFiniteSet(W)
      BY <2>3, RiskAssumption, FS_Subset
    <2>6. \A s \in SUBSET W : s # {} => PickFn[s] \in s
      BY <2>3, PickIs
    <2>7. g[W] = h[W]
      BY <1>1, <2>3, <2>4, <2>5, <2>6, FoldUnique
    <2>8. g[S] = AddFn[Picked(S)][g[W]]
      BY <1>1, <1>3, <2>1, <2>2 DEF Solves
    <2>9. g[W] \in Nat /\ Picked(S) \in PrConfigs
      BY <2>2, <2>3
    <2> QED BY <1>1, <2>1, <2>2, <2>4, <2>7, <2>8, <2>9, AddIs
  <1> QED BY <1>1, <1>2, <1>3


\* Any element of a set can be taken out of its sum.
LEMMA MarginAny ==
    ASSUME NEW S \in SUBSET PrConfigs, NEW x \in S
    PROVE  Margin(S) = PrSize[x] + Margin(S \ {x})
  <1> DEFINE Good == {s \in SUBSET S : \A y \in s : Margin(s) = PrSize[y] + Margin(s \ {y})}
  <1>1. IsFiniteSet(S)
    BY RiskAssumption, FS_Subset
  <1>2. ASSUME NEW s \in SUBSET S, \A V \in SUBSET s : V # s => V \in Good
        PROVE  s \in Good
    <2>1. ASSUME NEW y \in s PROVE Margin(s) = PrSize[y] + Margin(s \ {y})
      <3>1. PICK c : c = Picked(s)
        OBVIOUS
      <3>2. c \in s /\ Margin(s) = PrSize[c] + Margin(s \ {c})
        BY <2>1, <3>1, MarginAt
      <3>3. CASE y = c
        BY <3>2, <3>3
      <3>4. CASE y # c
        <4>1. s \ {c} \in Good /\ s \ {y} \in Good
          <5>1. s \ {c} # s /\ s \ {y} # s /\ s \ {c} \in SUBSET s /\ s \ {y} \in SUBSET s
            BY <3>2
          <5> HIDE DEF Good
          <5> QED BY <1>2, <5>1
        <4>2. Margin(s \ {c}) = PrSize[y] + Margin((s \ {c}) \ {y})
          BY <3>4, <4>1
        <4>3. Margin(s \ {y}) = PrSize[c] + Margin((s \ {y}) \ {c})
          BY <3>2, <3>4, <4>1
        <4>4. (s \ {c}) \ {y} = (s \ {y}) \ {c}
          OBVIOUS
        <4>5. PICK m : m = Margin((s \ {y}) \ {c})
          OBVIOUS
        <4>6. (s \ {y}) \ {c} \in SUBSET PrConfigs
          OBVIOUS
        <4>7. m \in Nat
          BY <4>5, <4>6, MarginAt
        <4>8. PrSize[c] \in Nat /\ PrSize[y] \in Nat
          BY <3>2, RiskAssumption
        <4>9. Margin(s) = PrSize[c] + (PrSize[y] + m) /\ Margin(s \ {y}) = PrSize[c] + m
          BY <3>2, <4>2, <4>3, <4>4, <4>5
        <4> QED BY <4>7, <4>8, <4>9
      <3> QED BY <3>3, <3>4
    <2> QED BY <2>1
  <1>3. SUBSET S \subseteq Good
    <2> HIDE DEF Good
    <2> QED BY <1>1, <1>2, SubsetInduction
  <1> QED BY <1>3

LEMMA MarginAdd ==
    ASSUME NEW S \in SUBSET PrConfigs, NEW x \in PrConfigs
    PROVE  Margin(S \cup {x}) = IF x \in S THEN Margin(S) ELSE Margin(S) + PrSize[x]
  <1>1. CASE x \in S
    <2>1. S \cup {x} = S
      BY <1>1
    <2> QED BY <1>1, <2>1
  <1>2. CASE x \notin S
    <2>1. PICK T \in SUBSET PrConfigs : T = S \cup {x}
      OBVIOUS
    <2>2. T \ {x} = S /\ x \in T
      BY <1>2, <2>1
    <2>3. Margin(T) = PrSize[x] + Margin(S)
      BY <2>2, MarginAny
    <2>4. PrSize[x] \in Nat /\ Margin(S) \in Nat
      BY RiskAssumption, MarginAt
    <2> QED BY <1>2, <2>1, <2>3, <2>4
  <1> QED BY <1>1, <1>2

\* A sum over two sets is at most the two sums, and at least either.
LEMMA MarginUnion ==
    ASSUME NEW S \in SUBSET PrConfigs, NEW U \in SUBSET PrConfigs
    PROVE  Margin(S) <= Margin(S \cup U) /\ Margin(S \cup U) <= Margin(S) + Margin(U)
  <1> DEFINE Good == {s \in SUBSET U : /\ Margin(S) <= Margin(S \cup s)
                                      /\ Margin(S \cup s) <= Margin(S) + Margin(s)}
  <1>1. IsFiniteSet(U)
    BY RiskAssumption, FS_Subset
  <1>2. ASSUME NEW s \in SUBSET U, \A V \in SUBSET s : V # s => V \in Good
        PROVE  s \in Good
    <2>1. CASE s = {}
      <3>1. S \cup s = S /\ Margin(s) = 0 /\ Margin(S) \in Nat
        BY <2>1, MarginAt
      <3> QED BY <3>1
    <2>2. CASE s # {}
      <3>1. PICK x \in s : TRUE
        BY <2>2
      <3>2. PICK t \in SUBSET s : t = s \ {x}
        OBVIOUS
      <3>3. t \in Good
        <4>1. t # s
          BY <3>2
        <4> HIDE DEF Good
        <4> QED BY <1>2, <4>1
      <3>4. PICK a \in Nat : a = Margin(S)
        BY MarginAt
      <3>5. PICK b \in Nat : b = Margin(S \cup t)
        <4>1. S \cup t \in SUBSET PrConfigs
          OBVIOUS
        <4> QED BY <4>1, MarginAt
      <3>6. PICK c \in Nat : c = Margin(t)
        <4>1. t \in SUBSET PrConfigs
          OBVIOUS
        <4> QED BY <4>1, MarginAt
      <3>7. PICK d \in Nat : d = PrSize[x]
        BY RiskAssumption
      <3>8. a <= b /\ b <= a + c
        BY <3>3, <3>4, <3>5, <3>6
      <3>9. Margin(s) = d + c
        <4>1. s \in SUBSET PrConfigs
          OBVIOUS
        <4> QED BY <3>2, <3>6, <3>7, <4>1, MarginAny
      <3>10. Margin(S \cup s) = b \/ Margin(S \cup s) = b + d
        <4>1. S \cup s = (S \cup t) \cup {x} /\ S \cup t \in SUBSET PrConfigs /\ x \in PrConfigs
          BY <3>2
        <4> QED BY <3>5, <3>7, <4>1, MarginAdd, ZenonT(60)
      <3>11. Margin(S) <= Margin(S \cup s) /\ Margin(S \cup s) <= Margin(S) + Margin(s)
        BY <3>4, <3>8, <3>9, <3>10
      <3> QED BY <3>11
    <2> QED BY <2>1, <2>2
  <1>3. SUBSET U \subseteq Good
    <2> HIDE DEF Good
    <2> QED BY <1>1, <1>2, SubsetInduction
  <1> QED BY <1>3

LEMMA MarginMono ==
    ASSUME NEW U \in SUBSET PrConfigs, NEW S \in SUBSET U
    PROVE  Margin(S) <= Margin(U)
  <1>1. S \cup U = U /\ S \in SUBSET PrConfigs
    OBVIOUS
  <1> QED BY <1>1, MarginUnion

LEMMA Times == \A k, b \in Nat : (k + 1) * b = k * b + b /\ k * b \in Nat
  OBVIOUS

\* A sum is at most its length times a bound of its terms.
LEMMA MarginBound ==
    ASSUME NEW S \in SUBSET PrConfigs, NEW b \in Nat, \A x \in PrConfigs : PrSize[x] <= b
    PROVE  Margin(S) <= Cardinality(S) * b
  <1> DEFINE Good == {s \in SUBSET S : Margin(s) <= Cardinality(s) * b}
  <1>1. IsFiniteSet(S)
    BY RiskAssumption, FS_Subset
  <1>2. ASSUME NEW s \in SUBSET S, \A V \in SUBSET s : V # s => V \in Good
        PROVE  s \in Good
    <2>1. CASE s = {}
      <3>1. Margin(s) = 0 /\ Cardinality(s) = 0
        BY <2>1, MarginAt, FS_EmptySet
      <3> QED BY <3>1
    <2>2. CASE s # {}
      <3>1. PICK x \in s : TRUE
        BY <2>2
      <3>2. PICK t \in SUBSET s : t = s \ {x}
        OBVIOUS
      <3>3. t \in Good
        <4>1. t # s
          BY <3>2
        <4> HIDE DEF Good
        <4> QED BY <1>2, <4>1
      <3>4. PICK k \in Nat : k = Cardinality(t)
        <4>1. IsFiniteSet(t)
          BY <1>1, FS_Subset
        <4> QED BY <4>1, FS_CardinalityType
      <3>5. Cardinality(s) = k + 1
        <4>1. IsFiniteSet(s)
          BY <1>1, FS_Subset
        <4>2. Cardinality(t) = Cardinality(s) - 1 /\ Cardinality(s) \in Nat
          BY <3>1, <3>2, <4>1, FS_RemoveElement, FS_CardinalityType
        <4> QED BY <3>4, <4>2
      <3>6. PICK c \in Nat : c = Margin(t)
        <4>1. t \in SUBSET PrConfigs
          OBVIOUS
        <4> QED BY <4>1, MarginAt
      <3>7. PICK d \in Nat : d = PrSize[x]
        BY RiskAssumption
      <3>8. c <= k * b /\ d <= b
        BY <3>3, <3>4, <3>6, <3>7
      <3>9. Margin(s) = d + c
        <4>1. s \in SUBSET PrConfigs
          OBVIOUS
        <4> QED BY <3>2, <3>6, <3>7, <4>1, MarginAny
      <3>10. (k + 1) * b = k * b + b /\ k * b \in Nat
        BY Times
      <3>11. PICK kb \in Nat : kb = k * b
        BY <3>10
      <3>12. d + c <= kb + b
        BY <3>8, <3>11
      <3>13. Margin(s) <= Cardinality(s) * b
        BY <3>5, <3>9, <3>10, <3>11, <3>12
      <3> QED BY <3>13
    <2> QED BY <2>1, <2>2
  <1>3. SUBSET S \subseteq Good
    <2> HIDE DEF Good
    <2> QED BY <1>1, <1>2, SubsetInduction
  <1> QED BY <1>3

-----------------------------------------------------------------------------
(* PreTradeRisk: the caps hold up to one entry per worker but one.          *)

Slack == Cardinality(PrWorkers) - 1
Biggest == Max({PrSize[c] : c \in PrConfigs})
Mates(c) == {o \in PrGuarded : PrSymbol[o] = PrSymbol[c]}

\* The strategies of D that hold a side of S or have an entry under way for one.
Taken(open, gate, D, S) ==
    {c \in D : open[c] \in S \/ \E w \in PrWorkers : gate[w].config = c /\ gate[w].side \in S}

\* The caps, with the entries under way counted as if they were open.
Caps(open, gate) ==
    /\ Cardinality(Taken(open, gate, PrGuarded, PrSides)) <= PrMaxOpen + Slack
    /\ \A c \in PrConfigs :
          /\ Cardinality(Taken(open, gate, Mates(c), PrSides)) <= PrMaxSymbol + Slack
          /\ \E way \in PrSides : Cardinality(Taken(open, gate, Mates(c), {way})) <= Slack
    /\ Margin(Taken(open, gate, PrGuarded, PrSides)) <= PrCap + Slack * Biggest

\* The inductive invariant.
RiskInv ==
    /\ prOpen \in [PrConfigs -> PrSides \cup {"none"}]
    /\ prGate \in [PrWorkers -> {PrIdle} \cup [config : PrConfigs, side : PrSides]]
    /\ Caps(prOpen, prGate)

LEMMA SlackIs == Slack \in Nat /\ Cardinality(PrWorkers) = Slack + 1
  <1>1. Cardinality(PrWorkers) \in Nat /\ Cardinality(PrWorkers) # 0
    BY RiskAssumption, FS_CardinalityType, FS_EmptySet
  <1> QED BY <1>1 DEF Slack

LEMMA BiggestIs == Biggest \in Nat /\ \A c \in PrConfigs : PrSize[c] <= Biggest
  <1> DEFINE sizes == {PrSize[c] : c \in PrConfigs}
  <1>1. IsFiniteSet(sizes)
    <2>1. PrSize \in Surjection(PrConfigs, sizes)
      BY RiskAssumption DEF Surjection
    <2> HIDE DEF sizes
    <2> QED BY <2>1, RiskAssumption, FS_Surjection
  <1>2. sizes # {} /\ sizes \subseteq Int /\ sizes \subseteq Nat
    BY RiskAssumption
  <1>3. Biggest = Max(sizes)
    BY DEF Biggest
  <1>4. Max(sizes) \in sizes /\ \A y \in sizes : y <= Max(sizes)
    <2> HIDE DEF sizes
    <2> QED BY <1>1, <1>2, MaxIs
  <1>5. \A c \in PrConfigs : PrSize[c] \in sizes
    OBVIOUS
  <1> HIDE DEF sizes
  <1> QED BY <1>2, <1>3, <1>4, <1>5

LEMMA ProductMono == ASSUME NEW k \in Nat, NEW m \in Nat, NEW b \in Nat, k <= m PROVE k * b <= m * b
  <1>1. PICK d \in Nat : m = k + d
    <2>1. m - k \in Nat /\ m = k + (m - k)
      OBVIOUS
    <2> QED BY <2>1
  <1>2. m * b = k * b + d * b /\ k * b \in Nat /\ d * b \in Nat
    BY <1>1
  <1> QED BY <1>2

LEMMA Finite == ASSUME NEW S \in SUBSET PrConfigs PROVE IsFiniteSet(S) /\ Cardinality(S) \in Nat
  <1>1. IsFiniteSet(S)
    BY RiskAssumption, FS_Subset
  <1> QED BY <1>1, FS_CardinalityType

LEMMA Fewer ==
    ASSUME NEW U \in SUBSET PrConfigs, NEW S \in SUBSET U
    PROVE  Cardinality(S) \in Nat /\ Cardinality(U) \in Nat /\ Cardinality(S) <= Cardinality(U)
  <1>1. IsFiniteSet(U) /\ S \in SUBSET PrConfigs
    BY Finite
  <1> QED BY <1>1, Finite, FS_Subset

\* A set covered by two and one more element.
LEMMA Covered3 ==
    ASSUME NEW A \in SUBSET PrConfigs, NEW B \in SUBSET PrConfigs, NEW c \in PrConfigs,
           NEW T \in SUBSET (A \cup {c} \cup B)
    PROVE  Cardinality(T) <= Cardinality(A) + 1 + Cardinality(B)
  <1>1. PICK a \in Nat : a = Cardinality(A)
    BY Finite
  <1>2. PICK b \in Nat : b = Cardinality(B)
    BY Finite
  <1>3. PICK X \in SUBSET PrConfigs : X = A \cup {c}
    OBVIOUS
  <1>4. PICK x \in Nat : x = Cardinality(X)
    BY Finite
  <1>5. x <= a + 1
    <2>1. Cardinality(A \cup {c}) = IF c \in A THEN Cardinality(A) ELSE Cardinality(A) + 1
      BY Finite, FS_AddElement
    <2> QED BY <1>1, <1>3, <1>4, <2>1
  <1>6. Cardinality(X \cup B) = x + b - Cardinality(X \cap B) /\ Cardinality(X \cap B) \in Nat
    <2>1. IsFiniteSet(X) /\ IsFiniteSet(B) /\ Cardinality(X \cap B) \in Nat
      BY Finite
    <2> QED BY <1>2, <1>4, <2>1, FS_Union
  <1>7. Cardinality(T) \in Nat /\ Cardinality(X \cup B) \in Nat /\ Cardinality(T) <= Cardinality(X \cup B)
    BY <1>3, Fewer
  <1> QED BY <1>1, <1>2, <1>5, <1>6, <1>7

\* The entries the workers but one have under way.
Others(gate, w) ==
    {o \in PrConfigs : \E v \in PrWorkers \ {w} : gate[v].config = o /\ gate[v].side \in PrSides}

LEMMA FewOthers ==
    ASSUME NEW gate, NEW w \in PrWorkers
    PROVE  /\ Others(gate, w) \in SUBSET PrConfigs
           /\ Cardinality(Others(gate, w)) \in Nat /\ Cardinality(Others(gate, w)) <= Slack
  <1> DEFINE busy == {v \in PrWorkers \ {w} : gate[v].config \in PrConfigs /\ gate[v].side \in PrSides}
             f == [v \in busy |-> gate[v].config]
  <1>1. f \in Surjection(busy, Others(gate, w))
    BY DEF Surjection, Others
  <1>2. IsFiniteSet(PrWorkers \ {w}) /\ Cardinality(PrWorkers \ {w}) = Slack
    <2>1. /\ IsFiniteSet(PrWorkers \ {w})
          /\ Cardinality(PrWorkers \ {w}) =
                IF w \in PrWorkers THEN Cardinality(PrWorkers) - 1 ELSE Cardinality(PrWorkers)
      BY RiskAssumption, FS_RemoveElement
    <2> QED BY <2>1, SlackIs
  <1>3. IsFiniteSet(busy) /\ Cardinality(busy) <= Slack /\ Cardinality(busy) \in Nat
    <2>1. busy \in SUBSET (PrWorkers \ {w})
      OBVIOUS
    <2> HIDE DEF busy
    <2> QED BY <1>2, <2>1, FS_Subset, FS_CardinalityType
  <1>4. Cardinality(Others(gate, w)) <= Cardinality(busy)
    <2> HIDE DEF busy, f
    <2> QED BY <1>1, <1>3, FS_Surjection
  <1>5. Others(gate, w) \in SUBSET PrConfigs
    BY DEF Others
  <1>6. Cardinality(Others(gate, w)) \in Nat
    BY <1>5, Finite
  <1> HIDE DEF busy
  <1> QED BY <1>3, <1>4, <1>5, <1>6, SlackIs

\* Where less is taken the caps hold on.
LEMMA CapsShrink ==
    ASSUME NEW open, NEW gate, NEW open2, NEW gate2, Caps(open, gate),
           \A D \in SUBSET PrGuarded, S \in SUBSET PrSides :
               Taken(open2, gate2, D, S) \subseteq Taken(open, gate, D, S)
    PROVE  Caps(open2, gate2)
  <1>1. ASSUME NEW D \in SUBSET PrGuarded, NEW S \in SUBSET PrSides
        PROVE  /\ Taken(open, gate, D, S) \in SUBSET PrConfigs
               /\ Taken(open2, gate2, D, S) \in SUBSET Taken(open, gate, D, S)
               /\ Cardinality(Taken(open2, gate2, D, S)) \in Nat
               /\ Cardinality(Taken(open, gate, D, S)) \in Nat
               /\ Cardinality(Taken(open2, gate2, D, S)) <= Cardinality(Taken(open, gate, D, S))
    <2>1. Taken(open, gate, D, S) \in SUBSET PrConfigs
      BY RiskAssumption DEF Taken
    <2>2. Taken(open2, gate2, D, S) \in SUBSET Taken(open, gate, D, S)
      OBVIOUS
    <2> QED BY <2>1, <2>2, Fewer
  <1>2. /\ PrGuarded \in SUBSET PrGuarded /\ PrSides \in SUBSET PrSides
        /\ \A c : Mates(c) \in SUBSET PrGuarded
        /\ \A way \in PrSides : {way} \in SUBSET PrSides
    BY DEF Mates
  <1>3. PrMaxOpen + Slack \in Nat /\ PrMaxSymbol + Slack \in Nat /\ Slack \in Nat
    BY RiskAssumption, SlackIs
  <1>4. Cardinality(Taken(open2, gate2, PrGuarded, PrSides)) <= PrMaxOpen + Slack
    BY <1>1, <1>2, <1>3 DEF Caps
  <1>5. ASSUME NEW c \in PrConfigs
        PROVE  /\ Cardinality(Taken(open2, gate2, Mates(c), PrSides)) <= PrMaxSymbol + Slack
               /\ \E way \in PrSides : Cardinality(Taken(open2, gate2, Mates(c), {way})) <= Slack
    <2>4. PICK m \in Nat : m = PrMaxSymbol + Slack
      BY <1>3
    <2>5. PICK D \in SUBSET PrGuarded : D = Mates(c)
      BY <1>2
    <2>6. Cardinality(Taken(open, gate, D, PrSides)) <= m
      BY <2>4, <2>5 DEF Caps
    <2>7. Cardinality(Taken(open2, gate2, D, PrSides)) <= m
      BY <1>1, <1>2, <2>6
    <2>1. Cardinality(Taken(open2, gate2, Mates(c), PrSides)) <= PrMaxSymbol + Slack
      BY <2>4, <2>5, <2>7
    <2>2. PICK way \in PrSides : Cardinality(Taken(open, gate, Mates(c), {way})) <= Slack
      BY DEF Caps
    <2>8. PICK n \in Nat : n = Slack
      BY <1>3
    <2>9. PICK S \in SUBSET PrSides : S = {way}
      BY <1>2
    <2>10. Cardinality(Taken(open, gate, D, S)) <= n
      BY <2>2, <2>5, <2>8, <2>9
    <2>11. Cardinality(Taken(open2, gate2, D, S)) <= n
      BY <1>1, <2>10
    <2>3. Cardinality(Taken(open2, gate2, Mates(c), {way})) <= Slack
      BY <2>5, <2>8, <2>9, <2>11
    <2> QED BY <2>1, <2>3
  <1>6. Margin(Taken(open2, gate2, PrGuarded, PrSides)) <= PrCap + Slack * Biggest
    <2>1. PICK T \in SUBSET PrConfigs : T = Taken(open, gate, PrGuarded, PrSides)
      BY <1>1, <1>2
    <2>2. PICK T2 \in SUBSET T : T2 = Taken(open2, gate2, PrGuarded, PrSides)
      BY <1>1, <1>2, <2>1
    <2>3. Margin(T2) <= Margin(T) /\ Margin(T) \in Nat /\ T2 \in SUBSET PrConfigs
      BY MarginMono, MarginAt
    <2>4. Margin(T2) \in Nat
      BY <2>3, MarginAt
    <2>5. PICK k : k = PrCap + Slack * Biggest
      OBVIOUS
    <2>6. k \in Int /\ Margin(T) <= k
      <3>1. PrCap + Slack * Biggest \in Int
        BY RiskAssumption, SlackIs, BiggestIs
      <3> QED BY <2>1, <2>5, <3>1 DEF Caps
    <2>7. Margin(T2) <= k
      BY <2>3, <2>4, <2>6
    <2> QED BY <2>2, <2>5, <2>7
  <1> QED BY <1>4, <1>5, <1>6 DEF Caps

LEMMA InitRisk == PrInit => RiskInv
  <1> SUFFICES ASSUME PrInit PROVE RiskInv
    OBVIOUS
  <1>1. prOpen = [c \in PrConfigs |-> "none"] /\ prGate = [w \in PrWorkers |-> PrIdle]
    BY DEF PrInit
  <1>2. \A D \in SUBSET PrGuarded, S \in SUBSET PrSides : Taken(prOpen, prGate, D, S) = {}
    BY <1>1, RiskAssumption DEF Taken, PrSides, PrIdle
  <1>3. Cardinality({}) = 0 /\ Margin({}) = 0
    BY FS_EmptySet, MarginAt
  <1>4. /\ 0 <= PrMaxOpen + Slack /\ 0 <= PrMaxSymbol + Slack /\ 0 <= Slack
        /\ 0 <= PrCap + Slack * Biggest
    <2>1. PICK s \in Nat : s = Slack
      BY SlackIs
    <2>2. PICK b \in Nat : b = Biggest
      BY BiggestIs
    <2>3. s * b \in Nat
      OBVIOUS
    <2> QED BY <2>1, <2>2, <2>3, RiskAssumption
  <1>5. /\ PrGuarded \in SUBSET PrGuarded /\ PrSides \in SUBSET PrSides
        /\ \A c : Mates(c) \in SUBSET PrGuarded
        /\ {"LONG"} \in SUBSET PrSides /\ "LONG" \in PrSides
    BY DEF Mates, PrSides
  <1>6. Taken(prOpen, prGate, PrGuarded, PrSides) = {}
    BY <1>2, <1>5
  <1>7. \A c : /\ Taken(prOpen, prGate, Mates(c), PrSides) = {}
               /\ Taken(prOpen, prGate, Mates(c), {"LONG"}) = {}
    BY <1>2, <1>5
  <1>8. Caps(prOpen, prGate)
    BY <1>3, <1>4, <1>5, <1>6, <1>7 DEF Caps
  <1> QED BY <1>1, <1>8 DEF RiskInv

\* What the engine has let through for a strategy with a risk row: every cap
\* held with the positions that were open, and the other workers add one each.
LEMMA GuardedEntry ==
    ASSUME RiskInv, NEW w \in PrWorkers, NEW c \in PrGuarded, NEW way \in PrSides, NEW gate2,
           \A v \in PrWorkers \ {w} : gate2[v] = prGate[v],
           gate2[w] = [config |-> c, side |-> way],
           ~MaxOpenReached(c), ~SymbolLimitReached(c), ~ConflictingSignal(c, way),
           ~ExposureExceeded(c), prGate[w] = PrIdle
    PROVE  Caps(prOpen, gate2)
  <1> DEFINE held == HeldBy(PrConfigs)
             mates == {o \in held : PrSymbol[o] = PrSymbol[c]}
             rest == Others(prGate, w)
  <1>1. c \in PrConfigs /\ held \in SUBSET PrConfigs /\ mates \in SUBSET PrConfigs
    BY RiskAssumption DEF HeldBy
  <1>2. rest \in SUBSET PrConfigs /\ Cardinality(rest) \in Nat /\ Cardinality(rest) <= Slack
    BY FewOthers
  \* Everything taken is held, or taken by another worker, or the new entry.
  <1>3. ASSUME NEW D \in SUBSET PrGuarded, NEW S \in SUBSET PrSides, NEW o \in Taken(prOpen, gate2, D, S)
        PROVE  /\ o \in PrConfigs /\ o \in D
               /\ \/ o \in held /\ prOpen[o] \in S
                  \/ o = c /\ way \in S
                  \/ o \in rest
    <2>1. o \in D /\ o \in PrConfigs
      BY RiskAssumption DEF Taken
    <2>2. CASE prOpen[o] \in S
      <3>1. prOpen[o] # "none"
        BY <2>2 DEF PrSides
      <3> QED BY <2>1, <2>2, <3>1 DEF HeldBy
    <2>3. CASE \E v \in PrWorkers : gate2[v].config = o /\ gate2[v].side \in S
      <3>1. PICK v \in PrWorkers : gate2[v].config = o /\ gate2[v].side \in S
        BY <2>3
      <3>2. CASE v = w
        BY <2>1, <3>1, <3>2
      <3>3. CASE v # w
        BY <2>1, <3>1, <3>3 DEF Others
      <3> QED BY <3>2, <3>3
    <2> QED BY <2>1, <2>2, <2>3 DEF Taken
  <1>4. PrGuarded \in SUBSET PrGuarded /\ PrSides \in SUBSET PrSides
    OBVIOUS
  <1>5. PICK h \in Nat : h = Cardinality(held)
    BY <1>1, Finite
  <1>6. PICK r \in Nat : r = Cardinality(rest)
    BY <1>2
  <1>7. PICK s \in Nat : s = Slack /\ r <= s
    BY <1>2, <1>6, SlackIs
  <1>8. Cardinality(Taken(prOpen, gate2, PrGuarded, PrSides)) <= PrMaxOpen + Slack
    <2>1. Taken(prOpen, gate2, PrGuarded, PrSides) \in SUBSET (held \cup {c} \cup rest)
      BY <1>3, <1>4
    <2>2. Cardinality(Taken(prOpen, gate2, PrGuarded, PrSides)) <= h + 1 + r
      <3> HIDE DEF held, rest
      <3> QED BY <1>1, <1>2, <1>5, <1>6, <2>1, Covered3
    <2>3. h < PrMaxOpen
      BY <1>5, RiskAssumption DEF MaxOpenReached
    <2>4. Cardinality(Taken(prOpen, gate2, PrGuarded, PrSides)) \in Nat
      <3>1. Taken(prOpen, gate2, PrGuarded, PrSides) \in SUBSET PrConfigs
        BY RiskAssumption DEF Taken
      <3> QED BY <3>1, Finite
    <2>5. PICK k \in Nat : k = Cardinality(Taken(prOpen, gate2, PrGuarded, PrSides))
      BY <2>4
    <2>6. k <= PrMaxOpen + s
      BY <1>7, <2>2, <2>3, <2>5, RiskAssumption
    <2> QED BY <1>7, <2>5, <2>6
  <1>9. ASSUME NEW d \in PrConfigs
        PROVE  /\ Cardinality(Taken(prOpen, gate2, Mates(d), PrSides)) <= PrMaxSymbol + Slack
               /\ \E t \in PrSides : Cardinality(Taken(prOpen, gate2, Mates(d), {t})) <= Slack
    <2>1. PICK D \in SUBSET PrGuarded : D = Mates(d) /\ D \in SUBSET PrConfigs
      BY RiskAssumption DEF Mates
    <2>2. CASE PrSymbol[d] = PrSymbol[c]
      <3>1. Taken(prOpen, gate2, D, PrSides) \in SUBSET (mates \cup {c} \cup rest)
        <4>1. ASSUME NEW o \in Taken(prOpen, gate2, D, PrSides) PROVE o \in mates \cup {c} \cup rest
          <5>1. o \in D /\ (o \in held \/ o = c \/ o \in rest)
            BY <1>3, <1>4
          <5>2. PrSymbol[o] = PrSymbol[c]
            BY <2>1, <2>2, <5>1 DEF Mates
          <5> QED BY <5>1, <5>2
        <4> QED BY <4>1
      <3>2. PICK m \in Nat : m = Cardinality(mates)
        BY <1>1, Finite
      <3>3. m < PrMaxSymbol
        BY <3>2, RiskAssumption DEF SymbolLimitReached
      <3>4. PICK k \in Nat : k = Cardinality(Taken(prOpen, gate2, D, PrSides))
        <4>1. Taken(prOpen, gate2, D, PrSides) \in SUBSET PrConfigs
          BY <2>1 DEF Taken
        <4> QED BY <4>1, Finite
      <3>5. k <= m + 1 + r
        <4> HIDE DEF mates, rest, held
        <4> QED BY <1>1, <1>2, <1>6, <3>1, <3>2, <3>4, Covered3
      <3>6. k <= PrMaxSymbol + s
        BY <1>7, <3>3, <3>5, RiskAssumption
      <3>7. PICK t \in PrSides : t # way
        BY DEF PrSides
      <3>8. Taken(prOpen, gate2, D, {t}) \in SUBSET rest
        <4>1. ASSUME NEW o \in Taken(prOpen, gate2, D, {t}) PROVE o \in rest
          <5>1. {t} \in SUBSET PrSides
            OBVIOUS
          <5>2. o \in D /\ ((o \in held /\ prOpen[o] = t) \/ o \in rest)
            BY <1>3, <3>7, <5>1
          <5>3. o \in held => PrSymbol[o] # PrSymbol[c] \/ prOpen[o] = way
            BY DEF ConflictingSignal
          <5>4. PrSymbol[o] = PrSymbol[c]
            BY <2>1, <2>2, <5>2 DEF Mates
          <5> QED BY <3>7, <5>2, <5>3, <5>4
        <4> QED BY <4>1
      <3>9. Cardinality(Taken(prOpen, gate2, D, {t})) <= s
        <4>1. /\ Cardinality(Taken(prOpen, gate2, D, {t})) \in Nat
              /\ Cardinality(Taken(prOpen, gate2, D, {t})) <= Cardinality(rest)
          BY <1>2, <3>8, Fewer
        <4> QED BY <1>6, <1>7, <4>1
      <3> QED BY <1>7, <2>1, <3>4, <3>6, <3>9
    <2>3. CASE PrSymbol[d] # PrSymbol[c]
      <3>1. ASSUME NEW S \in SUBSET PrSides
            PROVE  Taken(prOpen, gate2, D, S) \in SUBSET Taken(prOpen, prGate, D, S)
        <4>1. ASSUME NEW o \in Taken(prOpen, gate2, D, S) PROVE o \in Taken(prOpen, prGate, D, S)
          <5>1. o \in D /\ o # c
            BY <2>1, <2>3 DEF Taken, Mates
          <5>2. prOpen[o] \in S \/ \E v \in PrWorkers : gate2[v].config = o /\ gate2[v].side \in S
            BY DEF Taken
          <5>3. ASSUME NEW v \in PrWorkers, gate2[v].config = o, gate2[v].side \in S
                PROVE  prGate[v].config = o /\ prGate[v].side \in S
            BY <5>1, <5>3
          <5> QED BY <5>1, <5>2, <5>3 DEF Taken
        <4> QED BY <4>1
      <3>2. ASSUME NEW S \in SUBSET PrSides
            PROVE  /\ Cardinality(Taken(prOpen, gate2, D, S)) \in Nat
                   /\ Cardinality(Taken(prOpen, prGate, D, S)) \in Nat
                   /\ Cardinality(Taken(prOpen, gate2, D, S)) <= Cardinality(Taken(prOpen, prGate, D, S))
        <4>1. Taken(prOpen, prGate, D, S) \in SUBSET PrConfigs
          BY <2>1 DEF Taken
        <4> QED BY <3>1, <4>1, Fewer
      <3>3. PICK m \in Nat : m = PrMaxSymbol + Slack
        BY SlackIs, RiskAssumption
      <3>4. Caps(prOpen, prGate)
        BY DEF RiskInv
      <3>5. Cardinality(Taken(prOpen, prGate, D, PrSides)) <= m
        BY <2>1, <3>3, <3>4 DEF Caps
      <3>6. PICK t \in PrSides : Cardinality(Taken(prOpen, prGate, D, {t})) <= Slack
        BY <2>1, <3>4 DEF Caps
      <3>7. PICK S \in SUBSET PrSides : S = {t}
        OBVIOUS
      <3>8. Cardinality(Taken(prOpen, gate2, D, PrSides)) <= m
        BY <1>4, <3>2, <3>5
      <3>9. Cardinality(Taken(prOpen, gate2, D, S)) <= s
        <4>1. Cardinality(Taken(prOpen, prGate, D, S)) <= s
          BY <1>7, <3>6, <3>7
        <4> QED BY <3>2, <4>1
      <3> QED BY <1>7, <2>1, <3>3, <3>7, <3>8, <3>9
    <2> QED BY <2>2, <2>3
  <1>10. Margin(Taken(prOpen, gate2, PrGuarded, PrSides)) <= PrCap + Slack * Biggest
    <2>1. PICK X \in SUBSET PrConfigs : X = held \cup {c}
      BY <1>1
    <2>2. PICK b \in Nat : b = Biggest /\ \A x \in PrConfigs : PrSize[x] <= b
      BY BiggestIs
    <2>3. PICK mh \in Nat : mh = Margin(held)
      BY <1>1, MarginAt
    <2>4. PICK z \in Nat : z = PrSize[c]
      BY <1>1, RiskAssumption
    <2>5. mh + z <= PrCap
      <3>1. PrExposure(PrConfigs) = mh
        BY <2>3 DEF PrExposure, Margin
      <3> QED BY <2>4, <3>1, RiskAssumption DEF ExposureExceeded
    <2>6. PICK mx \in Nat : mx = Margin(X)
      BY MarginAt
    <2>7. mx <= mh + z
      <3> HIDE DEF held
      <3>1. Margin(held \cup {c}) = IF c \in held THEN Margin(held) ELSE Margin(held) + PrSize[c]
        BY <1>1, MarginAdd
      <3> QED BY <2>1, <2>3, <2>4, <2>6, <3>1
    <2>8. PICK mr \in Nat : mr = Margin(rest)
      BY <1>2, MarginAt
    <2>9. mr <= r * b
      <3> HIDE DEF rest
      <3> QED BY <1>2, <1>6, <2>2, <2>8, MarginBound
    <2>10. r * b <= s * b
      BY <1>7, ProductMono
    <2>11. PICK rb \in Nat : rb = r * b
      OBVIOUS
    <2>12. PICK sb \in Nat : sb = s * b
      OBVIOUS
    <2>13. PICK T \in SUBSET PrConfigs : T = Taken(prOpen, gate2, PrGuarded, PrSides)
      BY RiskAssumption DEF Taken
    <2>14. T \in SUBSET (X \cup rest)
      BY <1>3, <1>4, <2>1, <2>13
    <2>15. PICK Y \in SUBSET PrConfigs : Y = X \cup rest
      BY <1>2
    <2>16. Margin(T) <= Margin(Y)
      BY <2>14, <2>15, MarginMono
    <2>17. Margin(Y) <= mx + mr
      <3> HIDE DEF rest
      <3> QED BY <1>2, <2>6, <2>8, <2>15, MarginUnion
    <2>18. Margin(T) \in Nat /\ Margin(Y) \in Nat
      BY MarginAt
    <2>19. Margin(T) <= PrCap + sb
      BY <2>5, <2>7, <2>9, <2>10, <2>11, <2>12, <2>16, <2>17, <2>18, RiskAssumption
    <2> QED BY <1>7, <2>2, <2>12, <2>13, <2>19
  <1> QED BY <1>8, <1>9, <1>10 DEF Caps

LEMMA EvaluateRisk ==
    ASSUME RiskInv, NEW w \in PrWorkers, NEW c \in PrConfigs, NEW way \in PrSides, NEW loss,
           NEW known, EvaluateEntry(w, c, way, loss, known)
    PROVE  RiskInv'
  <1>1. /\ prGate[w] = PrIdle /\ CheckPreTrade(c, way, loss, known) /\ UNCHANGED prOpen
        /\ prGate' = [prGate EXCEPT ![w] = [config |-> c, side |-> way]]
    BY DEF EvaluateEntry
  <1>2. PICK gate2 : gate2 = prGate'
    OBVIOUS
  <1>3. /\ \A v \in PrWorkers \ {w} : gate2[v] = prGate[v]
        /\ gate2[w] = [config |-> c, side |-> way]
        /\ gate2 \in [PrWorkers -> {PrIdle} \cup [config : PrConfigs, side : PrSides]]
    BY <1>1, <1>2 DEF RiskInv
  <1>4. Caps(prOpen, gate2)
    <2>1. CASE c \in PrGuarded
      BY <1>1, <1>3, <2>1, GuardedEntry DEF CheckPreTrade
    <2>2. CASE c \notin PrGuarded
      <3>1. ASSUME NEW D \in SUBSET PrGuarded, NEW S \in SUBSET PrSides,
                   NEW o \in Taken(prOpen, gate2, D, S)
            PROVE  o \in Taken(prOpen, prGate, D, S)
        <4>1. o \in D /\ o # c
          BY <2>2 DEF Taken
        <4>2. prOpen[o] \in S \/ \E v \in PrWorkers : gate2[v].config = o /\ gate2[v].side \in S
          BY DEF Taken
        <4>3. ASSUME NEW v \in PrWorkers, gate2[v].config = o, gate2[v].side \in S
              PROVE  prGate[v].config = o /\ prGate[v].side \in S
          BY <1>3, <4>1, <4>3
        <4> QED BY <4>1, <4>2, <4>3 DEF Taken
      <3>2. Caps(prOpen, prGate)
        BY DEF RiskInv
      <3> QED BY <3>1, <3>2, CapsShrink
    <2> QED BY <2>1, <2>2
  <1> QED BY <1>1, <1>2, <1>3, <1>4 DEF RiskInv

\* A step that ends an entry or a position takes nothing anew.
LEMMA EndRisk ==
    ASSUME RiskInv, NEW w \in PrWorkers, NEW opened \in BOOLEAN, EntryEnds(w, opened)
    PROVE  RiskInv'
  <1>1. PICK e : e = prGate[w]
    OBVIOUS
  <1>2. /\ e # PrIdle /\ prGate' = [prGate EXCEPT ![w] = PrIdle]
        /\ prOpen' = IF opened THEN [prOpen EXCEPT ![e.config] = e.side] ELSE prOpen
    BY <1>1 DEF EntryEnds
  <1>3. e.config \in PrConfigs /\ e.side \in PrSides
    BY <1>1, <1>2 DEF RiskInv
  <1>4. /\ prOpen' \in [PrConfigs -> PrSides \cup {"none"}]
        /\ \A o \in PrConfigs : prOpen'[o] = prOpen[o] \/ (o = e.config /\ prOpen'[o] = e.side)
    BY <1>2, <1>3 DEF RiskInv
  <1>5. /\ prGate' \in [PrWorkers -> {PrIdle} \cup [config : PrConfigs, side : PrSides]]
        /\ prGate'[w] = PrIdle /\ \A v \in PrWorkers \ {w} : prGate'[v] = prGate[v]
    BY <1>2 DEF RiskInv
  <1>6. PICK open2, gate2 : open2 = prOpen' /\ gate2 = prGate'
    OBVIOUS
  <1>7. ASSUME NEW D \in SUBSET PrGuarded, NEW S \in SUBSET PrSides,
               NEW o \in Taken(open2, gate2, D, S)
        PROVE  o \in Taken(prOpen, prGate, D, S)
    <2>1. o \in D /\ o \in PrConfigs
      BY RiskAssumption DEF Taken
    <2>2. CASE open2[o] \in S
      <3>1. prOpen[o] \in S \/ (o = e.config /\ e.side \in S)
        BY <1>4, <1>6, <2>1, <2>2
      <3>2. o = e.config /\ e.side \in S
               => \E v \in PrWorkers : prGate[v].config = o /\ prGate[v].side \in S
        BY <1>1
      <3> QED BY <2>1, <3>1, <3>2 DEF Taken
    <2>3. ASSUME NEW v \in PrWorkers, gate2[v].config = o, gate2[v].side \in S
          PROVE  o \in Taken(prOpen, prGate, D, S)
      <3>1. v # w
        BY <1>5, <1>6, <2>3 DEF PrIdle, PrSides
      <3>2. gate2[v] = prGate[v]
        BY <1>5, <1>6, <3>1
      <3> QED BY <2>1, <2>3, <3>2 DEF Taken
    <2> QED BY <2>2, <2>3 DEF Taken
  <1>8. Caps(prOpen, prGate)
    BY DEF RiskInv
  <1>9. Caps(open2, gate2)
    BY <1>7, <1>8, CapsShrink
  <1> QED BY <1>4, <1>5, <1>6, <1>9 DEF RiskInv

LEMMA CloseRisk ==
    ASSUME RiskInv, NEW c \in PrConfigs, PositionCloses(c)
    PROVE  RiskInv'
  <1>1. prOpen' = [prOpen EXCEPT ![c] = "none"] /\ UNCHANGED prGate
    BY DEF PositionCloses
  <1>2. PICK open2 : open2 = prOpen'
    OBVIOUS
  <1>3. /\ open2 \in [PrConfigs -> PrSides \cup {"none"}]
        /\ \A o \in PrConfigs : open2[o] = prOpen[o] \/ open2[o] = "none"
    BY <1>1, <1>2 DEF RiskInv
  <1>4. ASSUME NEW D \in SUBSET PrGuarded, NEW S \in SUBSET PrSides,
               NEW o \in Taken(open2, prGate, D, S)
        PROVE  o \in Taken(prOpen, prGate, D, S)
    <2>1. o \in D /\ o \in PrConfigs
      BY RiskAssumption DEF Taken
    <2>2. open2[o] \in S => prOpen[o] \in S
      BY <1>3, <2>1 DEF PrSides
    <2> QED BY <2>1, <2>2 DEF Taken
  <1>5. Caps(prOpen, prGate)
    BY DEF RiskInv
  <1>6. Caps(open2, prGate)
    BY <1>4, <1>5, CapsShrink
  <1> QED BY <1>1, <1>2, <1>3, <1>6 DEF RiskInv

LEMMA StepRisk == ASSUME RiskInv, [PrNext]_prVars PROVE RiskInv'
  <1>1. CASE UNCHANGED prVars
    BY <1>1 DEF prVars, RiskInv
  <1>2. ASSUME NEW w \in PrWorkers, NEW c \in PrConfigs, NEW way \in PrSides, NEW loss \in Losses,
               NEW known \in BOOLEAN, EvaluateEntry(w, c, way, loss, known)
        PROVE  RiskInv'
    BY <1>2, EvaluateRisk
  <1>3. ASSUME NEW w \in PrWorkers, NEW opened \in BOOLEAN, EntryEnds(w, opened) PROVE RiskInv'
    BY <1>3, EndRisk
  <1>4. ASSUME NEW c \in PrConfigs, PositionCloses(c) PROVE RiskInv'
    BY <1>4, CloseRisk
  <1>5. ASSUME NEW c \in PrConfigs, NEW loss \in Losses, NEW known \in BOOLEAN,
               PrecheckManualOrder(c, loss, known)
        PROVE  RiskInv'
    BY <1>1, <1>5 DEF PrecheckManualOrder
  <1> QED BY <1>1, <1>2, <1>3, <1>4, <1>5 DEF PrNext

LEMMA CapsFollow == RiskInv => CapsHoldUpToWorkers
  <1> SUFFICES ASSUME RiskInv PROVE CapsHoldUpToWorkers
    OBVIOUS
  <1> DEFINE held == HeldBy(PrGuarded)
             same(c) == {o \in held : PrSymbol[o] = PrSymbol[c]}
             inside(c, t) == {o \in same(c) : prOpen[o] = t}
  <1>1. /\ held \in SUBSET Taken(prOpen, prGate, PrGuarded, PrSides)
        /\ \A c \in PrConfigs : same(c) \in SUBSET Taken(prOpen, prGate, Mates(c), PrSides)
        /\ \A c \in PrConfigs, t \in PrSides : inside(c, t) \in SUBSET Taken(prOpen, prGate, Mates(c), {t})
    BY RiskAssumption DEF RiskInv, HeldBy, Taken, Mates
  <1>2. \A D \in SUBSET PrGuarded, S \in SUBSET PrSides : Taken(prOpen, prGate, D, S) \in SUBSET PrConfigs
    BY RiskAssumption DEF Taken
  <1>3. /\ PrGuarded \in SUBSET PrGuarded /\ PrSides \in SUBSET PrSides
        /\ \A c : Mates(c) \in SUBSET PrGuarded
        /\ \A t \in PrSides : {t} \in SUBSET PrSides
    BY DEF Mates
  <1>4. PICK s \in Nat : s = Slack
    BY SlackIs
  <1>5. Caps(prOpen, prGate) /\ held \in SUBSET PrConfigs
    BY RiskAssumption DEF RiskInv, HeldBy
  <1>6. Cardinality(held) <= PrMaxOpen + s
    <2>1. PICK T \in SUBSET PrConfigs : T = Taken(prOpen, prGate, PrGuarded, PrSides)
      BY <1>2, <1>3
    <2>2. /\ Cardinality(held) \in Nat /\ Cardinality(T) \in Nat
          /\ Cardinality(held) <= Cardinality(T)
      <3> HIDE DEF held
      <3> QED BY <1>1, <2>1, Fewer
    <2>3. Cardinality(T) <= PrMaxOpen + s
      BY <1>4, <1>5, <2>1 DEF Caps
    <2> HIDE DEF held
    <2> QED BY <2>2, <2>3, RiskAssumption
  <1>7. ASSUME NEW c \in PrConfigs
        PROVE  /\ Cardinality(same(c)) <= PrMaxSymbol + s
               /\ \E t \in PrSides : Cardinality(inside(c, t)) <= s
    <2>1. PICK T \in SUBSET PrConfigs : T = Taken(prOpen, prGate, Mates(c), PrSides)
      BY <1>2, <1>3
    <2>2. PICK U \in SUBSET T : U = same(c)
      BY <1>1, <2>1
    <2>3. /\ Cardinality(U) \in Nat /\ Cardinality(T) \in Nat
          /\ Cardinality(U) <= Cardinality(T)
      BY Fewer
    <2>4. Cardinality(T) <= PrMaxSymbol + s
      BY <1>4, <1>5, <2>1 DEF Caps
    <2>5. Cardinality(U) <= PrMaxSymbol + s
      BY <2>3, <2>4, RiskAssumption
    <2>6. PICK t \in PrSides : Cardinality(Taken(prOpen, prGate, Mates(c), {t})) <= s
      BY <1>4, <1>5 DEF Caps
    <2>7. PICK T2 \in SUBSET PrConfigs : T2 = Taken(prOpen, prGate, Mates(c), {t})
      BY <1>2, <1>3
    <2>8. PICK U2 \in SUBSET T2 : U2 = inside(c, t)
      BY <1>1, <2>7
    <2>9. /\ Cardinality(U2) \in Nat /\ Cardinality(T2) \in Nat
          /\ Cardinality(U2) <= Cardinality(T2)
      BY Fewer
    <2>10. Cardinality(U2) <= s
      BY <2>6, <2>7, <2>9
    <2> QED BY <2>2, <2>5, <2>8, <2>10
  <1>8. PrExposure(PrGuarded) <= PrCap + s * Biggest
    <2>1. PICK T \in SUBSET PrConfigs : T = Taken(prOpen, prGate, PrGuarded, PrSides)
      BY <1>2, <1>3
    <2>2. PICK H \in SUBSET T : H = held
      BY <1>1, <2>1
    <2>3. PrExposure(PrGuarded) = Margin(H)
      BY <2>2 DEF PrExposure, Margin
    <2>4. Margin(H) <= Margin(T) /\ Margin(H) \in Nat /\ Margin(T) \in Nat
      <3>1. H \in SUBSET PrConfigs
        OBVIOUS
      <3> QED BY <3>1, MarginMono, MarginAt
    <2>5. PICK k \in Nat : k = PrCap + s * Biggest
      BY BiggestIs, RiskAssumption
    <2>6. Margin(T) <= k
      BY <1>4, <1>5, <2>1, <2>5 DEF Caps
    <2>7. Margin(H) <= k
      BY <2>4, <2>6
    <2> QED BY <2>3, <2>5, <2>7
  <1>9. \A c \in held : /\ Cardinality(same(c)) <= PrMaxSymbol + s
                       /\ \/ Cardinality(inside(c, "LONG")) <= s
                          \/ Cardinality(inside(c, "SHORT")) <= s
    <2>1. ASSUME NEW c \in held
          PROVE  /\ Cardinality(same(c)) <= PrMaxSymbol + s
                 /\ \/ Cardinality(inside(c, "LONG")) <= s
                    \/ Cardinality(inside(c, "SHORT")) <= s
      <3>1. c \in PrConfigs
        BY <1>5
      <3>2. \E t \in PrSides : Cardinality(inside(c, t)) <= s
        BY <1>7, <3>1
      <3>3. PrSides = {"LONG", "SHORT"}
        BY DEF PrSides
      <3> HIDE DEF inside, same
      <3> QED BY <1>7, <3>1, <3>2, <3>3
    <2> QED BY <2>1
  <1> QED BY <1>4, <1>6, <1>8, <1>9 DEF CapsHoldUpToWorkers, Slack, Biggest

\* Workers that judge at the same time overshoot each cap of the portfolio by at
\* most one entry for every worker but one, and the exposure by that many of the
\* biggest margins: for any number of workers, strategies, symbols and limits.
THEOREM CapsHold == PrSpec => []CapsHoldUpToWorkers
  BY InitRisk, StepRisk, CapsFollow, PTL DEF PrSpec

-----------------------------------------------------------------------------
(* Folds over a sequence: the accumulator after each element.               *)

LEMMA SegmentMax ==
    ASSUME NEW n \in Nat
    PROVE  /\ \A s \in SUBSET (1..n) : s # {} => Max(s) \in s
           /\ \A k \in 1..n : Max(1..k) = k /\ (1..k) \ {k} = 1..k - 1 /\ 1..k \in SUBSET (1..n) /\ 1..k # {}
  <1>1. ASSUME NEW s \in SUBSET (1..n), s # {} PROVE Max(s) \in s /\ \A y \in s : y <= Max(s)
    <2>1. IsFiniteSet(1..n)
      BY FS_Interval
    <2>2. IsFiniteSet(s)
      BY <2>1, FS_Subset
    <2>3. s \subseteq Int
      OBVIOUS
    <2> QED BY <1>1, <2>2, <2>3, MaxIs
  <1>2. ASSUME NEW k \in 1..n
        PROVE  Max(1..k) = k /\ (1..k) \ {k} = 1..k - 1 /\ 1..k \in SUBSET (1..n) /\ 1..k # {}
    <2>1. 1..k \in SUBSET (1..n) /\ 1..k # {} /\ k \in 1..k
      OBVIOUS
    <2>2. Max(1..k) \in 1..k /\ \A y \in 1..k : y <= Max(1..k)
      BY <1>1, <2>1
    <2>3. Max(1..k) >= k /\ Max(1..k) <= k /\ Max(1..k) \in Int
      BY <2>1, <2>2
    <2> QED BY <2>1, <2>3
  <1> QED BY <1>1, <1>2

\* Induction along a segment.
LEMMA UpTo ==
    ASSUME NEW n \in Nat, NEW Good, 0 \in Good, \A k \in 1..n : k - 1 \in Good => k \in Good
    PROVE  0..n \subseteq Good
  <1>5. PICK D : D = 1..n
    OBVIOUS
  <1> DEFINE Segs == {s \in SUBSET D : \A k \in 0..n : s = 1..k => k \in Good}
  <1>1. ASSUME NEW s \in SUBSET D, \A t \in SUBSET s : t # s => t \in Segs
        PROVE  s \in Segs
    <2>1. ASSUME NEW k \in 0..n, s = 1..k PROVE k \in Good
      <3>1. CASE k = 0
        BY <3>1
      <3>2. CASE k # 0
        <4>1. k \in 1..n /\ k - 1 \in 0..n
          BY <3>2
        <4>2. 1..k - 1 \in SUBSET s /\ 1..k - 1 # s
          BY <1>5, <2>1, <4>1
        <4>3. 1..k - 1 \in Segs
          <5> HIDE DEF Segs
          <5> QED BY <1>1, <4>2
        <4>4. k - 1 \in Good
          BY <4>1, <4>3
        <4> QED BY <4>1, <4>4
      <3> QED BY <3>1, <3>2
    <2> QED BY <2>1
  <1>2. IsFiniteSet(D)
    BY <1>5, FS_Interval
  <1>3. SUBSET D \subseteq Segs
    <2> HIDE DEF Segs
    <2> QED BY <1>1, <1>2, SubsetInduction
  <1>4. \A k \in 0..n : 1..k \in SUBSET D
    BY <1>5
  <1> QED BY <1>3, <1>4

\* The function a fold over a segment is computed with.
Folds(g, n, base, op) ==
    g = [s \in SUBSET (1..n) |-> IF s = {} THEN base ELSE op[Max(s)][g[s \ {Max(s)}]]]

LEMMA SegmentFold ==
    ASSUME NEW n \in Nat, NEW V, NEW base \in V, NEW op, \A i \in 1..n, v \in V : op[i][v] \in V
    PROVE  \E g \in [SUBSET (1..n) -> V] : Folds(g, n, base, op)
  <1> DEFINE pick == [s \in SUBSET (1..n) |-> Max(s)]
  <1>1. IsFiniteSet(1..n)
    BY FS_Interval
  <1>2. \A s \in SUBSET (1..n) : s # {} => pick[s] \in s /\ pick[s] = Max(s)
    BY SegmentMax
  <1>3. PICK g \in [SUBSET (1..n) -> V] : Solves(g, 1..n, base, pick, op)
    <2> HIDE DEF pick
    <2> QED BY <1>1, <1>2, FoldExists
  <1>4. Folds(g, n, base, op)
    <2> HIDE DEF pick
    <2> QED BY <1>2, <1>3 DEF Solves, Folds
  <1> QED BY <1>4

\* Whatever is computed by the same steps is the same in the end.
LEMMA FoldSame ==
    ASSUME NEW n \in Nat, NEW g, NEW d, d[{}] = g[{}],
           \A s \in SUBSET (1..n) : s # {} /\ d[s \ {Max(s)}] = g[s \ {Max(s)}] => d[s] = g[s]
    PROVE  d[1..n] = g[1..n]
  <1>5. PICK D : D = 1..n
    OBVIOUS
  <1> DEFINE Good == {s \in SUBSET D : d[s] = g[s]}
  <1>1. IsFiniteSet(D)
    BY <1>5, FS_Interval
  <1>2. ASSUME NEW s \in SUBSET D, \A t \in SUBSET s : t # s => t \in Good
        PROVE  s \in Good
    <2>1. CASE s = {}
      BY <2>1
    <2>2. CASE s # {}
      <3>1. Max(s) \in s
        BY <1>5, <2>2, SegmentMax
      <3>2. s \ {Max(s)} \in SUBSET s /\ s \ {Max(s)} # s
        BY <3>1
      <3>3. s \ {Max(s)} \in Good
        <4> HIDE DEF Good
        <4> QED BY <1>2, <3>2
      <3> QED BY <1>5, <2>2, <3>3
    <2> QED BY <2>1, <2>2
  <1>3. SUBSET D \subseteq Good
    <2> HIDE DEF Good
    <2> QED BY <1>1, <1>2, SubsetInduction
  <1> QED BY <1>3, <1>5

\* a is the accumulator of such a fold after each element of the segment.
Accumulates(a, n, V, base, op, total) ==
    /\ a \in [0..n -> V] /\ a[0] = base /\ a[n] = total
    /\ \A k \in 1..n : a[k] = op[k][a[k - 1]]

LEMMA FoldSteps ==
    ASSUME NEW n \in Nat, NEW V, NEW base \in V, NEW op, NEW g \in [SUBSET (1..n) -> V],
           Folds(g, n, base, op)
    PROVE  \E a : Accumulates(a, n, V, base, op, g[1..n])
  <1> DEFINE a == [k \in 0..n |-> g[1..k]]
  <1>1. a \in [0..n -> V] /\ a[n] = g[1..n]
    OBVIOUS
  <1>2. a[0] = base
    <2>1. 1..0 = {} /\ 0 \in 0..n /\ {} \in SUBSET (1..n)
      OBVIOUS
    <2>2. g[{}] = base
      BY <2>1 DEF Folds
    <2> QED BY <2>1, <2>2
  <1>3. ASSUME NEW k \in 1..n PROVE a[k] = op[k][a[k - 1]]
    <2>1. Max(1..k) = k /\ (1..k) \ {k} = 1..k - 1 /\ 1..k \in SUBSET (1..n) /\ 1..k # {}
      BY SegmentMax
    <2>2. g[1..k] = op[Max(1..k)][g[(1..k) \ {Max(1..k)}]]
      BY <2>1 DEF Folds
    <2>3. a[k] = g[1..k] /\ a[k - 1] = g[1..k - 1]
      OBVIOUS
    <2> HIDE DEF a
    <2> QED BY <2>1, <2>2, <2>3
  <1>4. Accumulates(a, n, V, base, op, g[1..n])
    <2> HIDE DEF a
    <2> QED BY <1>1, <1>2, <1>3 DEF Accumulates
  <1> QED BY <1>4


-----------------------------------------------------------------------------
(* LedgerSync: its folds.                                                   *)

LgFill == [kind : {"open", "close", "trigger", "manual"}, side : {"buy", "sell"}, at : Nat, price : Int]
LgBook == [lots : Seq(LgFill), realized : Int]

CashOf(s) == FoldLeft(LAMBDA sum, f : sum - Signed(f) * f.price, 0, s)
NetOf(s) == FoldLeft(LAMBDA sum, f : sum + Signed(f), 0, s)

\* What one fill pays or brings, and what one lot is worth more than it cost.
LEMMA Amounts ==
    ASSUME NEW f \in LgFill, NEW m \in Int
    PROVE  /\ Signed(f) \in Int /\ f.price \in Int
           /\ Signed(f) * f.price \in Int /\ Signed(f) * (m - f.price) \in Int
  <1>1. f.price \in Int /\ Signed(f) \in {1, -1}
    BY DEF LgFill, Signed
  <1> QED BY <1>1

\* The cash the fills of s moved, fill by fill.
LEMMA CashSteps ==
    ASSUME NEW s \in Seq(LgFill)
    PROVE  \E a \in [0..Len(s) -> Int] :
              /\ a[0] = 0 /\ a[Len(s)] = CashOf(s)
              /\ \A k \in 1..Len(s) : a[k] = a[k - 1] - Signed(s[k]) * s[k].price
  <1> DEFINE n == Len(s)
             op == [i \in 1..n |-> [v \in Int |-> v - Signed(s[i]) * s[i].price]]
             body(g) == [t \in SUBSET (DOMAIN s) |->
                           IF t = {} THEN 0 ELSE g[t \ {Max(t)}] - Signed(s[Max(t)]) * s[Max(t)].price]
             def == CHOOSE g : g = body(g)
  <1>1. n \in Nat /\ DOMAIN s = 1..n
    OBVIOUS
  <1>2. \A i \in 1..n, v \in Int : v - Signed(s[i]) * s[i].price \in Int
    <2>1. \A i \in 1..n : Signed(s[i]) * s[i].price \in Int
      BY Amounts
    <2> HIDE DEF n
    <2> QED BY <2>1
  <1>3. 0 \in Int /\ \A i \in 1..n, v \in Int : op[i][v] = v - Signed(s[i]) * s[i].price /\ op[i][v] \in Int
    BY <1>2
  <1>4. PICK g \in [SUBSET (1..n) -> Int] : Folds(g, n, 0, op)
    <2> HIDE DEF n, op
    <2> QED BY <1>1, <1>3, SegmentFold
  <1>5. ASSUME NEW t \in SUBSET (1..n), t # {}
        PROVE  Max(t) \in 1..n /\ op[Max(t)][g[t \ {Max(t)}]] = g[t \ {Max(t)}] - Signed(s[Max(t)]) * s[Max(t)].price
    <2>1. Max(t) \in t
      <3> HIDE DEF n
      <3> QED BY <1>1, <1>5, SegmentMax
    <2>2. t \ {Max(t)} \in SUBSET (1..n) /\ Max(t) \in 1..n
      BY <2>1
    <2>3. g[t \ {Max(t)}] \in Int
      BY <1>4, <2>2
    <2> HIDE DEF op, n
    <2> QED BY <1>3, <2>2, <2>3
  <1>6. g = body(g)
    <2>1. g = [t \in SUBSET (1..n) |-> IF t = {} THEN 0 ELSE op[Max(t)][g[t \ {Max(t)}]]]
      BY <1>4 DEF Folds
    <2> HIDE DEF op, n
    <2> QED BY <1>1, <1>5, <2>1
  <1>7. def = body(def)
    <2> HIDE DEF body
    <2> QED BY <1>6
  <1>8. CashOf(s) = def[1..n]
    <2>1. CashOf(s) = def[DOMAIN s]
      BY DEF FoldLeft, MapThenFoldSet, CashOf
    <2> HIDE DEF def, n
    <2> QED BY <1>1, <2>1
  <1>9. PICK d : d = def /\ d = body(d)
    <2> HIDE DEF def, body
    <2> QED BY <1>7
  <1>10. d[1..n] = g[1..n]
    <2>1. d[{}] = g[{}]
      <3>1. d[{}] = 0 /\ g[{}] = 0
        BY <1>6, <1>9
      <3> QED BY <3>1
    <2>2. ASSUME NEW t \in SUBSET (1..n), t # {}, d[t \ {Max(t)}] = g[t \ {Max(t)}]
          PROVE  d[t] = g[t]
      <3>1. d[t] = d[t \ {Max(t)}] - Signed(s[Max(t)]) * s[Max(t)].price
        <4> HIDE DEF def
        <4> QED BY <1>1, <1>9, <2>2
      <3>2. g[t] = g[t \ {Max(t)}] - Signed(s[Max(t)]) * s[Max(t)].price
        BY <1>1, <1>6, <2>2
      <3> QED BY <2>2, <3>1, <3>2
    <2> HIDE DEF n
    <2> QED BY <1>1, <2>1, <2>2, FoldSame
  <1>14. PICK a : Accumulates(a, n, Int, 0, op, g[1..n])
    <2> HIDE DEF n, op
    <2> QED BY <1>1, <1>3, <1>4, FoldSteps
  <1>11. /\ a \in [0..n -> Int] /\ a[0] = 0 /\ a[n] = g[1..n]
         /\ \A k \in 1..n : a[k] = op[k][a[k - 1]]
    BY <1>14 DEF Accumulates
  <1>12. \A k \in 1..n : a[k] = a[k - 1] - Signed(s[k]) * s[k].price
    <2>1. ASSUME NEW k \in 1..n PROVE a[k - 1] \in Int
      <3>1. k - 1 \in 0..n
        BY <1>1
      <3> HIDE DEF n, op
      <3> QED BY <1>11, <3>1
    <2> HIDE DEF n, op
    <2> QED BY <1>3, <1>11, <2>1
  <1>13. a[n] = CashOf(s)
    <2> HIDE DEF n, def
    <2> QED BY <1>8, <1>9, <1>10, <1>11
  <1> QED BY <1>11, <1>12, <1>13

\* What they left open.
LEMMA NetSteps ==
    ASSUME NEW s \in Seq(LgFill)
    PROVE  \E a \in [0..Len(s) -> Int] :
              /\ a[0] = 0 /\ a[Len(s)] = NetOf(s)
              /\ \A k \in 1..Len(s) : a[k] = a[k - 1] + Signed(s[k])
  <1> DEFINE n == Len(s)
             op == [i \in 1..n |-> [v \in Int |-> v + Signed(s[i])]]
             body(g) == [t \in SUBSET (DOMAIN s) |->
                           IF t = {} THEN 0 ELSE g[t \ {Max(t)}] + Signed(s[Max(t)])]
             def == CHOOSE g : g = body(g)
  <1>1. n \in Nat /\ DOMAIN s = 1..n
    OBVIOUS
  <1>2. \A i \in 1..n, v \in Int : v + Signed(s[i]) \in Int
    <2>1. \A i \in 1..n : Signed(s[i]) \in Int
      BY DEF Signed
    <2> HIDE DEF n
    <2> QED BY <2>1
  <1>3. 0 \in Int /\ \A i \in 1..n, v \in Int : op[i][v] = v + Signed(s[i]) /\ op[i][v] \in Int
    BY <1>2
  <1>4. PICK g \in [SUBSET (1..n) -> Int] : Folds(g, n, 0, op)
    <2> HIDE DEF n, op
    <2> QED BY <1>1, <1>3, SegmentFold
  <1>5. ASSUME NEW t \in SUBSET (1..n), t # {}
        PROVE  Max(t) \in 1..n /\ op[Max(t)][g[t \ {Max(t)}]] = g[t \ {Max(t)}] + Signed(s[Max(t)])
    <2>1. Max(t) \in t
      <3> HIDE DEF n
      <3> QED BY <1>1, <1>5, SegmentMax
    <2>2. t \ {Max(t)} \in SUBSET (1..n) /\ Max(t) \in 1..n
      BY <2>1
    <2>3. g[t \ {Max(t)}] \in Int
      BY <1>4, <2>2
    <2> HIDE DEF op, n
    <2> QED BY <1>3, <2>2, <2>3
  <1>6. g = body(g)
    <2>1. g = [t \in SUBSET (1..n) |-> IF t = {} THEN 0 ELSE op[Max(t)][g[t \ {Max(t)}]]]
      BY <1>4 DEF Folds
    <2> HIDE DEF op, n
    <2> QED BY <1>1, <1>5, <2>1
  <1>7. def = body(def)
    <2> HIDE DEF body
    <2> QED BY <1>6
  <1>8. NetOf(s) = def[1..n]
    <2>1. NetOf(s) = def[DOMAIN s]
      BY DEF FoldLeft, MapThenFoldSet, NetOf
    <2> HIDE DEF def, n
    <2> QED BY <1>1, <2>1
  <1>9. PICK d : d = def /\ d = body(d)
    <2> HIDE DEF def, body
    <2> QED BY <1>7
  <1>10. d[1..n] = g[1..n]
    <2>1. d[{}] = g[{}]
      <3>1. d[{}] = 0 /\ g[{}] = 0
        BY <1>6, <1>9
      <3> QED BY <3>1
    <2>2. ASSUME NEW t \in SUBSET (1..n), t # {}, d[t \ {Max(t)}] = g[t \ {Max(t)}]
          PROVE  d[t] = g[t]
      <3>1. d[t] = d[t \ {Max(t)}] + Signed(s[Max(t)])
        <4> HIDE DEF def
        <4> QED BY <1>1, <1>9, <2>2
      <3>2. g[t] = g[t \ {Max(t)}] + Signed(s[Max(t)])
        BY <1>1, <1>6, <2>2
      <3> QED BY <2>2, <3>1, <3>2
    <2> HIDE DEF n
    <2> QED BY <1>1, <2>1, <2>2, FoldSame
  <1>14. PICK a : Accumulates(a, n, Int, 0, op, g[1..n])
    <2> HIDE DEF n, op
    <2> QED BY <1>1, <1>3, <1>4, FoldSteps
  <1>11. /\ a \in [0..n -> Int] /\ a[0] = 0 /\ a[n] = g[1..n]
         /\ \A k \in 1..n : a[k] = op[k][a[k - 1]]
    BY <1>14 DEF Accumulates
  <1>12. \A k \in 1..n : a[k] = a[k - 1] + Signed(s[k])
    <2>1. ASSUME NEW k \in 1..n PROVE a[k - 1] \in Int
      <3>1. k - 1 \in 0..n
        BY <1>1
      <3> HIDE DEF n, op
      <3> QED BY <1>11, <3>1
    <2> HIDE DEF n, op
    <2> QED BY <1>3, <1>11, <2>1
  <1>13. a[n] = NetOf(s)
    <2> HIDE DEF n, def
    <2> QED BY <1>8, <1>9, <1>10, <1>11
  <1> QED BY <1>11, <1>12, <1>13

\* What open lots are worth at a price.
LEMMA UnrealizedSteps ==
    ASSUME NEW s \in Seq(LgFill), NEW m \in Int
    PROVE  \E a \in [0..Len(s) -> Int] :
              /\ a[0] = 0 /\ a[Len(s)] = Unrealized(s, m)
              /\ \A k \in 1..Len(s) : a[k] = a[k - 1] + Signed(s[k]) * (m - s[k].price)
  <1> DEFINE n == Len(s)
             op == [i \in 1..n |-> [v \in Int |-> v + Signed(s[i]) * (m - s[i].price)]]
             body(g) == [t \in SUBSET (DOMAIN s) |->
                           IF t = {} THEN 0 ELSE g[t \ {Max(t)}] + Signed(s[Max(t)]) * (m - s[Max(t)].price)]
             def == CHOOSE g : g = body(g)
  <1>1. n \in Nat /\ DOMAIN s = 1..n
    OBVIOUS
  <1>2. \A i \in 1..n, v \in Int : v + Signed(s[i]) * (m - s[i].price) \in Int
    <2>1. \A i \in 1..n : Signed(s[i]) * (m - s[i].price) \in Int
      BY Amounts
    <2> HIDE DEF n
    <2> QED BY <2>1
  <1>3. 0 \in Int /\ \A i \in 1..n, v \in Int : op[i][v] = v + Signed(s[i]) * (m - s[i].price) /\ op[i][v] \in Int
    BY <1>2
  <1>4. PICK g \in [SUBSET (1..n) -> Int] : Folds(g, n, 0, op)
    <2> HIDE DEF n, op
    <2> QED BY <1>1, <1>3, SegmentFold
  <1>5. ASSUME NEW t \in SUBSET (1..n), t # {}
        PROVE  Max(t) \in 1..n /\ op[Max(t)][g[t \ {Max(t)}]] = g[t \ {Max(t)}] + Signed(s[Max(t)]) * (m - s[Max(t)].price)
    <2>1. Max(t) \in t
      <3> HIDE DEF n
      <3> QED BY <1>1, <1>5, SegmentMax
    <2>2. t \ {Max(t)} \in SUBSET (1..n) /\ Max(t) \in 1..n
      BY <2>1
    <2>3. g[t \ {Max(t)}] \in Int
      BY <1>4, <2>2
    <2> HIDE DEF op, n
    <2> QED BY <1>3, <2>2, <2>3
  <1>6. g = body(g)
    <2>1. g = [t \in SUBSET (1..n) |-> IF t = {} THEN 0 ELSE op[Max(t)][g[t \ {Max(t)}]]]
      BY <1>4 DEF Folds
    <2> HIDE DEF op, n
    <2> QED BY <1>1, <1>5, <2>1
  <1>7. def = body(def)
    <2> HIDE DEF body
    <2> QED BY <1>6
  <1>8. Unrealized(s, m) = def[1..n]
    <2>1. Unrealized(s, m) = def[DOMAIN s]
      BY DEF FoldLeft, MapThenFoldSet, Unrealized
    <2> HIDE DEF def, n
    <2> QED BY <1>1, <2>1
  <1>9. PICK d : d = def /\ d = body(d)
    <2> HIDE DEF def, body
    <2> QED BY <1>7
  <1>10. d[1..n] = g[1..n]
    <2>1. d[{}] = g[{}]
      <3>1. d[{}] = 0 /\ g[{}] = 0
        BY <1>6, <1>9
      <3> QED BY <3>1
    <2>2. ASSUME NEW t \in SUBSET (1..n), t # {}, d[t \ {Max(t)}] = g[t \ {Max(t)}]
          PROVE  d[t] = g[t]
      <3>1. d[t] = d[t \ {Max(t)}] + Signed(s[Max(t)]) * (m - s[Max(t)].price)
        <4> HIDE DEF def
        <4> QED BY <1>1, <1>9, <2>2
      <3>2. g[t] = g[t \ {Max(t)}] + Signed(s[Max(t)]) * (m - s[Max(t)].price)
        BY <1>1, <1>6, <2>2
      <3> QED BY <2>2, <3>1, <3>2
    <2> HIDE DEF n
    <2> QED BY <1>1, <2>1, <2>2, FoldSame
  <1>14. PICK a : Accumulates(a, n, Int, 0, op, g[1..n])
    <2> HIDE DEF n, op
    <2> QED BY <1>1, <1>3, <1>4, FoldSteps
  <1>11. /\ a \in [0..n -> Int] /\ a[0] = 0 /\ a[n] = g[1..n]
         /\ \A k \in 1..n : a[k] = op[k][a[k - 1]]
    BY <1>14 DEF Accumulates
  <1>12. \A k \in 1..n : a[k] = a[k - 1] + Signed(s[k]) * (m - s[k].price)
    <2>1. ASSUME NEW k \in 1..n PROVE a[k - 1] \in Int
      <3>1. k - 1 \in 0..n
        BY <1>1
      <3> HIDE DEF n, op
      <3> QED BY <1>11, <3>1
    <2> HIDE DEF n, op
    <2> QED BY <1>3, <1>11, <2>1
  <1>13. a[n] = Unrealized(s, m)
    <2> HIDE DEF n, def
    <2> QED BY <1>8, <1>9, <1>10, <1>11
  <1> QED BY <1>11, <1>12, <1>13

LEMMA FifoTyped == ASSUME NEW book \in LgBook, NEW f \in LgFill PROVE FifoStep(book, f) \in LgBook
  <1>1. book = [lots |-> book.lots, realized |-> book.realized] /\ book.lots \in Seq(LgFill)
        /\ book.realized \in Int
    BY DEF LgBook
  <1>2. CASE book.lots # <<>> /\ Head(book.lots).side # f.side
    <2>1. Tail(book.lots) \in Seq(LgFill) /\ Head(book.lots) \in LgFill
      BY <1>1, <1>2
    <2>2. Head(book.lots).price \in Int /\ f.price \in Int /\ Signed(f) \in {1, -1}
      BY <2>1 DEF LgFill, Signed
    <2>3. book.realized + Signed(f) * (Head(book.lots).price - f.price) \in Int
      BY <1>1, <2>2
    <2> QED BY <1>2, <2>1, <2>3 DEF FifoStep, LgBook
  <1>3. CASE ~(book.lots # <<>> /\ Head(book.lots).side # f.side)
    <2>1. FifoStep(book, f) = [lots |-> Append(book.lots, f), realized |-> book.realized]
      BY <1>1, <1>3 DEF FifoStep
    <2>2. Append(book.lots, f) \in Seq(LgFill)
      BY <1>1
    <2> QED BY <1>1, <2>1, <2>2 DEF LgBook
  <1> QED BY <1>2, <1>3

\* The book after each fill.
LEMMA FifoSteps ==
    ASSUME NEW s \in Seq(LgFill)
    PROVE  \E a \in [0..Len(s) -> LgBook] :
              /\ a[0] = [realized |-> 0, lots |-> <<>>] /\ a[Len(s)] = FifoPass(s)
              /\ \A k \in 1..Len(s) : a[k] = FifoStep(a[k - 1], s[k])
  <1> DEFINE n == Len(s)
             op == [i \in 1..n |-> [v \in LgBook |-> FifoStep(v, s[i])]]
             body(g) == [t \in SUBSET (DOMAIN s) |->
                           IF t = {} THEN [realized |-> 0, lots |-> <<>>] ELSE FifoStep(g[t \ {Max(t)}], s[Max(t)])]
             def == CHOOSE g : g = body(g)
  <1>1. n \in Nat /\ DOMAIN s = 1..n
    OBVIOUS
  <1>2. \A i \in 1..n, v \in LgBook : FifoStep(v, s[i]) \in LgBook
    <2>1. \A i \in 1..n : s[i] \in LgFill
      BY <1>1
    <2> HIDE DEF n
    <2> QED BY <2>1, FifoTyped
  <1>3. [realized |-> 0, lots |-> <<>>] \in LgBook /\ \A i \in 1..n, v \in LgBook : op[i][v] = FifoStep(v, s[i]) /\ op[i][v] \in LgBook
    BY <1>2 DEF LgBook
  <1>4. PICK g \in [SUBSET (1..n) -> LgBook] : Folds(g, n, [realized |-> 0, lots |-> <<>>], op)
    <2> HIDE DEF n, op
    <2> QED BY <1>1, <1>3, SegmentFold
  <1>5. ASSUME NEW t \in SUBSET (1..n), t # {}
        PROVE  Max(t) \in 1..n /\ op[Max(t)][g[t \ {Max(t)}]] = FifoStep(g[t \ {Max(t)}], s[Max(t)])
    <2>1. Max(t) \in t
      <3> HIDE DEF n
      <3> QED BY <1>1, <1>5, SegmentMax
    <2>2. t \ {Max(t)} \in SUBSET (1..n) /\ Max(t) \in 1..n
      BY <2>1
    <2>3. g[t \ {Max(t)}] \in LgBook
      BY <1>4, <2>2
    <2> HIDE DEF op, n
    <2> QED BY <1>3, <2>2, <2>3
  <1>6. g = body(g)
    <2>1. g = [t \in SUBSET (1..n) |-> IF t = {} THEN [realized |-> 0, lots |-> <<>>] ELSE op[Max(t)][g[t \ {Max(t)}]]]
      BY <1>4 DEF Folds
    <2> HIDE DEF op, n
    <2> QED BY <1>1, <1>5, <2>1
  <1>7. def = body(def)
    <2> HIDE DEF body
    <2> QED BY <1>6
  <1>8. FifoPass(s) = def[1..n]
    <2>1. FifoPass(s) = def[DOMAIN s]
      BY DEF FoldLeft, MapThenFoldSet, FifoPass
    <2> HIDE DEF def, n
    <2> QED BY <1>1, <2>1
  <1>9. PICK d : d = def /\ d = body(d)
    <2> HIDE DEF def, body
    <2> QED BY <1>7
  <1>10. d[1..n] = g[1..n]
    <2>1. d[{}] = g[{}]
      <3>1. d[{}] = [realized |-> 0, lots |-> <<>>] /\ g[{}] = [realized |-> 0, lots |-> <<>>]
        BY <1>6, <1>9
      <3> QED BY <3>1
    <2>2. ASSUME NEW t \in SUBSET (1..n), t # {}, d[t \ {Max(t)}] = g[t \ {Max(t)}]
          PROVE  d[t] = g[t]
      <3>1. d[t] = FifoStep(d[t \ {Max(t)}], s[Max(t)])
        <4> HIDE DEF def
        <4> QED BY <1>1, <1>9, <2>2
      <3>2. g[t] = FifoStep(g[t \ {Max(t)}], s[Max(t)])
        BY <1>1, <1>6, <2>2
      <3> QED BY <2>2, <3>1, <3>2
    <2> HIDE DEF n
    <2> QED BY <1>1, <2>1, <2>2, FoldSame
  <1>14. PICK a : Accumulates(a, n, LgBook, [realized |-> 0, lots |-> <<>>], op, g[1..n])
    <2> HIDE DEF n, op
    <2> QED BY <1>1, <1>3, <1>4, FoldSteps
  <1>11. /\ a \in [0..n -> LgBook] /\ a[0] = [realized |-> 0, lots |-> <<>>] /\ a[n] = g[1..n]
         /\ \A k \in 1..n : a[k] = op[k][a[k - 1]]
    BY <1>14 DEF Accumulates
  <1>12. \A k \in 1..n : a[k] = FifoStep(a[k - 1], s[k])
    <2>1. ASSUME NEW k \in 1..n PROVE a[k - 1] \in LgBook
      <3>1. k - 1 \in 0..n
        BY <1>1
      <3> HIDE DEF n, op
      <3> QED BY <1>11, <3>1
    <2> HIDE DEF n, op
    <2> QED BY <1>3, <1>11, <2>1
  <1>13. a[n] = FifoPass(s)
    <2> HIDE DEF n, def
    <2> QED BY <1>8, <1>9, <1>10, <1>11
  <1> QED BY <1>11, <1>12, <1>13

\* The members of S among the entries of s.
KeptOf(s, S) == FoldLeft(LAMBDA at, i : IF i \in S THEN Append(at, i) ELSE at, <<>>, s)

\* They are kept one by one.
KeepsOf(a, n, s, S, total) ==
    /\ a \in [0..n -> Seq(Nat)] /\ a[0] = <<>> /\ a[n] = total
    /\ \A k \in 1..n : a[k] = (IF s[k] \in S THEN Append(a[k - 1], s[k]) ELSE a[k - 1])

LEMMA KeptSteps ==
    ASSUME NEW s \in Seq(Nat), NEW S
    PROVE  \E a : KeepsOf(a, Len(s), s, S, KeptOf(s, S))
  <1> DEFINE n == Len(s)
             op == [i \in 1..n |-> [v \in Seq(Nat) |-> (IF s[i] \in S THEN Append(v, s[i]) ELSE v)]]
             body(g) == [t \in SUBSET (DOMAIN s) |->
                           IF t = {} THEN <<>> ELSE (IF s[Max(t)] \in S THEN Append(g[t \ {Max(t)}], s[Max(t)]) ELSE g[t \ {Max(t)}])]
             def == CHOOSE g : g = body(g)
  <1>1. n \in Nat /\ DOMAIN s = 1..n
    OBVIOUS
  <1>2. \A i \in 1..n, v \in Seq(Nat) : (IF s[i] \in S THEN Append(v, s[i]) ELSE v) \in Seq(Nat)
    <2>1. \A i \in 1..n : s[i] \in Nat
      BY <1>1
    <2> HIDE DEF n
    <2> QED BY <2>1
  <1>3. <<>> \in Seq(Nat) /\ \A i \in 1..n, v \in Seq(Nat) : op[i][v] = (IF s[i] \in S THEN Append(v, s[i]) ELSE v) /\ op[i][v] \in Seq(Nat)
    BY <1>2
  <1>4. PICK g \in [SUBSET (1..n) -> Seq(Nat)] : Folds(g, n, <<>>, op)
    <2> HIDE DEF n, op
    <2> QED BY <1>1, <1>3, SegmentFold
  <1>5. ASSUME NEW t \in SUBSET (1..n), t # {}
        PROVE  Max(t) \in 1..n /\ op[Max(t)][g[t \ {Max(t)}]] = (IF s[Max(t)] \in S THEN Append(g[t \ {Max(t)}], s[Max(t)]) ELSE g[t \ {Max(t)}])
    <2>1. Max(t) \in t
      <3> HIDE DEF n
      <3> QED BY <1>1, <1>5, SegmentMax
    <2>2. t \ {Max(t)} \in SUBSET (1..n) /\ Max(t) \in 1..n
      BY <2>1
    <2>3. g[t \ {Max(t)}] \in Seq(Nat)
      BY <1>4, <2>2
    <2> HIDE DEF op, n
    <2> QED BY <1>3, <2>2, <2>3
  <1>6. g = body(g)
    <2>1. g = [t \in SUBSET (1..n) |-> IF t = {} THEN <<>> ELSE op[Max(t)][g[t \ {Max(t)}]]]
      BY <1>4 DEF Folds
    <2> HIDE DEF op, n
    <2> QED BY <1>1, <1>5, <2>1
  <1>7. def = body(def)
    <2> HIDE DEF body
    <2> QED BY <1>6
  <1>8. KeptOf(s, S) = def[1..n]
    <2>1. KeptOf(s, S) = def[DOMAIN s]
      BY DEF FoldLeft, MapThenFoldSet, KeptOf
    <2> HIDE DEF def, n
    <2> QED BY <1>1, <2>1
  <1>9. PICK d : d = def /\ d = body(d)
    <2> HIDE DEF def, body
    <2> QED BY <1>7
  <1>10. d[1..n] = g[1..n]
    <2>1. d[{}] = g[{}]
      <3>1. d[{}] = <<>> /\ g[{}] = <<>>
        BY <1>6, <1>9
      <3> QED BY <3>1
    <2>2. ASSUME NEW t \in SUBSET (1..n), t # {}, d[t \ {Max(t)}] = g[t \ {Max(t)}]
          PROVE  d[t] = g[t]
      <3>1. d[t] = (IF s[Max(t)] \in S THEN Append(d[t \ {Max(t)}], s[Max(t)]) ELSE d[t \ {Max(t)}])
        <4> HIDE DEF def
        <4> QED BY <1>1, <1>9, <2>2
      <3>2. g[t] = (IF s[Max(t)] \in S THEN Append(g[t \ {Max(t)}], s[Max(t)]) ELSE g[t \ {Max(t)}])
        BY <1>1, <1>6, <2>2
      <3> QED BY <2>2, <3>1, <3>2
    <2> HIDE DEF n
    <2> QED BY <1>1, <2>1, <2>2, FoldSame
  <1>14. PICK a : Accumulates(a, n, Seq(Nat), <<>>, op, g[1..n])
    <2> HIDE DEF n, op
    <2> QED BY <1>1, <1>3, <1>4, FoldSteps
  <1>11. /\ a \in [0..n -> Seq(Nat)] /\ a[0] = <<>> /\ a[n] = g[1..n]
         /\ \A k \in 1..n : a[k] = op[k][a[k - 1]]
    BY <1>14 DEF Accumulates
  <1>12. \A k \in 1..n : a[k] = (IF s[k] \in S THEN Append(a[k - 1], s[k]) ELSE a[k - 1])
    <2>1. ASSUME NEW k \in 1..n PROVE a[k - 1] \in Seq(Nat)
      <3>1. k - 1 \in 0..n
        BY <1>1
      <3> HIDE DEF n, op
      <3> QED BY <1>11, <3>1
    <2> HIDE DEF n, op
    <2> QED BY <1>3, <1>11, <2>1
  <1>13. a[n] = KeptOf(s, S)
    <2> HIDE DEF n, def
    <2> QED BY <1>8, <1>9, <1>10, <1>11
  <1>15. KeepsOf(a, n, s, S, KeptOf(s, S))
    <2> HIDE DEF n, op
    <2> QED BY <1>11, <1>12, <1>13 DEF KeepsOf
  <1> HIDE DEF op
  <1> QED BY <1>15

\* The greatest id is one of those compared.
LEMMA MaxIdIn ==
    ASSUME NEW s \in Seq(Nat), NEW V, NEW start \in V, \A j \in 1..Len(s) : s[j] \in V
    PROVE  MaxId(s, start) \in V
  <1> DEFINE n == Len(s)
             op == [i \in 1..n |-> [v \in V |-> (IF IdAfter(s[i], v) THEN s[i] ELSE v)]]
             body(g) == [t \in SUBSET (DOMAIN s) |->
                           IF t = {} THEN start ELSE (IF IdAfter(s[Max(t)], g[t \ {Max(t)}]) THEN s[Max(t)] ELSE g[t \ {Max(t)}])]
             def == CHOOSE g : g = body(g)
  <1>1. n \in Nat /\ DOMAIN s = 1..n
    OBVIOUS
  <1>2. \A i \in 1..n, v \in V : (IF IdAfter(s[i], v) THEN s[i] ELSE v) \in V
    OBVIOUS
  <1>3. start \in V /\ \A i \in 1..n, v \in V : op[i][v] = (IF IdAfter(s[i], v) THEN s[i] ELSE v) /\ op[i][v] \in V
    BY <1>2
  <1>4. PICK g \in [SUBSET (1..n) -> V] : Folds(g, n, start, op)
    <2> HIDE DEF n, op
    <2> QED BY <1>1, <1>3, SegmentFold
  <1>5. ASSUME NEW t \in SUBSET (1..n), t # {}
        PROVE  Max(t) \in 1..n /\ op[Max(t)][g[t \ {Max(t)}]] = (IF IdAfter(s[Max(t)], g[t \ {Max(t)}]) THEN s[Max(t)] ELSE g[t \ {Max(t)}])
    <2>1. Max(t) \in t
      <3> HIDE DEF n
      <3> QED BY <1>1, <1>5, SegmentMax
    <2>2. t \ {Max(t)} \in SUBSET (1..n) /\ Max(t) \in 1..n
      BY <2>1
    <2>3. g[t \ {Max(t)}] \in V
      BY <1>4, <2>2
    <2> HIDE DEF op, n
    <2> QED BY <1>3, <2>2, <2>3
  <1>6. g = body(g)
    <2>1. g = [t \in SUBSET (1..n) |-> IF t = {} THEN start ELSE op[Max(t)][g[t \ {Max(t)}]]]
      BY <1>4 DEF Folds
    <2> HIDE DEF op, n
    <2> QED BY <1>1, <1>5, <2>1
  <1>7. def = body(def)
    <2> HIDE DEF body
    <2> QED BY <1>6
  <1>8. MaxId(s, start) = def[1..n]
    <2>1. MaxId(s, start) = def[DOMAIN s]
      BY DEF FoldLeft, MapThenFoldSet, MaxId
    <2> HIDE DEF def, n
    <2> QED BY <1>1, <2>1
  <1>9. PICK d : d = def /\ d = body(d)
    <2> HIDE DEF def, body
    <2> QED BY <1>7
  <1>10. d[1..n] = g[1..n]
    <2>1. d[{}] = g[{}]
      <3>1. d[{}] = start /\ g[{}] = start
        BY <1>6, <1>9
      <3> QED BY <3>1
    <2>2. ASSUME NEW t \in SUBSET (1..n), t # {}, d[t \ {Max(t)}] = g[t \ {Max(t)}]
          PROVE  d[t] = g[t]
      <3>1. d[t] = (IF IdAfter(s[Max(t)], d[t \ {Max(t)}]) THEN s[Max(t)] ELSE d[t \ {Max(t)}])
        <4> HIDE DEF def
        <4> QED BY <1>1, <1>9, <2>2
      <3>2. g[t] = (IF IdAfter(s[Max(t)], g[t \ {Max(t)}]) THEN s[Max(t)] ELSE g[t \ {Max(t)}])
        BY <1>1, <1>6, <2>2
      <3> QED BY <2>2, <3>1, <3>2
    <2> HIDE DEF n
    <2> QED BY <1>1, <2>1, <2>2, FoldSame
  <1>11. g[1..n] \in V
    BY <1>4
  <1> HIDE DEF n, def
  <1> QED BY <1>8, <1>9, <1>10, <1>11

-----------------------------------------------------------------------------
(* LedgerSync: the books balance.                                           *)

LEMMA UnrealizedTyped == ASSUME NEW s \in Seq(LgFill), NEW m \in Int PROVE Unrealized(s, m) \in Int
  <1>1. PICK a \in [0..Len(s) -> Int] : a[Len(s)] = Unrealized(s, m)
    BY UnrealizedSteps
  <1>2. Len(s) \in Nat
    OBVIOUS
  <1>3. PICK n \in Nat : n = Len(s)
    BY <1>2
  <1>4. a \in [0..n -> Int] /\ n \in 0..n
    BY <1>1, <1>3
  <1>5. a[n] \in Int
    BY <1>4
  <1> QED BY <1>1, <1>3, <1>5

LEMMA UnrealizedEmpty == ASSUME NEW m \in Int PROVE Unrealized(<<>>, m) = 0
  <1>1. <<>> \in Seq(LgFill) /\ Len(<<>>) = 0
    OBVIOUS
  <1>2. PICK s \in Seq(LgFill) : s = <<>> /\ Len(s) = 0
    BY <1>1
  <1>3. PICK a \in [0..Len(s) -> Int] : a[0] = 0 /\ a[Len(s)] = Unrealized(s, m)
    BY UnrealizedSteps
  <1>4. a[0] = Unrealized(s, m)
    BY <1>2, <1>3
  <1> QED BY <1>2, <1>3, <1>4

\* a sums up d.
Sums(a, n, d) ==
    /\ a \in [0..n -> Int] /\ d \in [1..n -> Int]
    /\ \A k \in 1..n : a[k] = a[k - 1] + d[k]

\* Two such sums keep the distance they begin with.
LEMMA SumsAgree ==
    ASSUME NEW n \in Nat, NEW a, NEW b, NEW d, NEW h \in Int,
           Sums(a, n, d), Sums(b, n, d), b[0] = a[0] + h
    PROVE  b[n] = a[n] + h
  <1>4. /\ a \in [0..n -> Int] /\ b \in [0..n -> Int]
        /\ \A k \in 1..n : d[k] \in Int
        /\ \A k \in 1..n : a[k] = a[k - 1] + d[k]
        /\ \A k \in 1..n : b[k] = b[k - 1] + d[k]
    BY DEF Sums
  <1> DEFINE Good == {k \in 0..n : b[k] = a[k] + h}
  <1>1. 0 \in Good
    OBVIOUS
  <1>2. ASSUME NEW k \in 1..n, k - 1 \in Good PROVE k \in Good
    <2>1. k \in 0..n /\ k - 1 \in 0..n
      OBVIOUS
    <2>2. a[k - 1] \in Int /\ b[k - 1] \in Int /\ d[k] \in Int
      BY <1>4, <2>1
    <2>3. a[k] = a[k - 1] + d[k] /\ b[k] = b[k - 1] + d[k]
      BY <1>4
    <2>4. b[k - 1] = a[k - 1] + h
      BY <1>2
    <2> QED BY <2>1, <2>2, <2>3, <2>4
  <1>3. 0..n \subseteq Good
    <2> HIDE DEF Good
    <2> QED BY <1>1, <1>2, UpTo
  <1> QED BY <1>3

LEMMA UnrealizedAppend ==
    ASSUME NEW s \in Seq(LgFill), NEW f \in LgFill, NEW m \in Int
    PROVE  Unrealized(Append(s, f), m) = Unrealized(s, m) + Signed(f) * (m - f.price)
  <1>1. PICK r \in Seq(LgFill) : r = Append(s, f)
    <2>1. Append(s, f) \in Seq(LgFill)
      OBVIOUS
    <2> QED BY <2>1
  <1>2. PICK n \in Nat : n = Len(s)
    <2>1. Len(s) \in Nat
      OBVIOUS
    <2> QED BY <2>1
  <1>3. Len(r) = n + 1 /\ r[n + 1] = f /\ \A k \in 1..n : r[k] = s[k] /\ s[k] \in LgFill
    BY <1>1, <1>2
  <1>4. PICK a \in [0..n -> Int] : /\ a[0] = 0 /\ a[n] = Unrealized(s, m)
             /\ \A k \in 1..n : a[k] = a[k - 1] + Signed(s[k]) * (m - s[k].price)
    BY <1>2, UnrealizedSteps
  <1>5. PICK b \in [0..n + 1 -> Int] : /\ b[0] = 0 /\ b[n + 1] = Unrealized(r, m)
             /\ \A k \in 1..n + 1 : b[k] = b[k - 1] + Signed(r[k]) * (m - r[k].price)
    <2>1. Len(r) = n + 1
      BY <1>3
    <2>2. PICK b \in [0..Len(r) -> Int] : /\ b[0] = 0 /\ b[Len(r)] = Unrealized(r, m)
             /\ \A k \in 1..Len(r) : b[k] = b[k - 1] + Signed(r[k]) * (m - r[k].price)
      BY UnrealizedSteps
    <2> QED BY <2>1, <2>2
  <1> DEFINE c == [k \in 0..n |-> b[k]]
             d == [k \in 1..n |-> Signed(s[k]) * (m - s[k].price)]
  <1>6. c \in [0..n -> Int] /\ c[0] = a[0] + 0
    BY <1>4, <1>5
  <1>7. \A k \in 1..n : d[k] \in Int
    BY <1>3, Amounts
  <1>8. \A k \in 1..n : a[k] = a[k - 1] + d[k]
    BY <1>4
  <1>9. \A k \in 1..n : c[k] = c[k - 1] + d[k]
    <2>1. ASSUME NEW k \in 1..n PROVE c[k] = c[k - 1] + d[k]
      <3>1. k \in 1..n + 1 /\ k \in 0..n /\ k - 1 \in 0..n
        OBVIOUS
      <3>2. b[k] = b[k - 1] + Signed(r[k]) * (m - r[k].price)
        BY <1>5, <3>1
      <3> QED BY <1>3, <3>1, <3>2
    <2> QED BY <2>1
  <1>10. c[n] = a[n] + 0
    <2>2. Sums(a, n, d)
      BY <1>4, <1>7, <1>8 DEF Sums
    <2>3. d \in [1..n -> Int]
      BY <1>7
    <2>4. Sums(c, n, d)
      <3> HIDE DEF c, d
      <3> QED BY <1>6, <1>9, <2>3 DEF Sums
    <2>5. PICK h \in Int : h = 0
      OBVIOUS
    <2>6. c[0] = a[0] + h
      BY <1>6, <2>5
    <2>7. c[n] = a[n] + h
      <3> HIDE DEF c, d
      <3> QED BY <2>2, <2>4, <2>6, SumsAgree
    <2> HIDE DEF c, d
    <2> QED BY <2>5, <2>7
  <1>11. b[n] = a[n] /\ a[n] \in Int
    BY <1>10
  <1>12. b[n + 1] = b[(n + 1) - 1] + Signed(f) * (m - f.price) /\ (n + 1) - 1 = n
    BY <1>3, <1>5
  <1> QED BY <1>1, <1>4, <1>5, <1>11, <1>12

LEMMA UnrealizedTail ==
    ASSUME NEW s \in Seq(LgFill), s # <<>>, NEW m \in Int
    PROVE  Unrealized(s, m) = Unrealized(Tail(s), m) + Signed(Head(s)) * (m - Head(s).price)
  <1>1. PICK r \in Seq(LgFill) : r = Tail(s)
    <2>1. Tail(s) \in Seq(LgFill)
      OBVIOUS
    <2> QED BY <2>1
  <1>2. PICK n \in Nat : n = Len(r)
    <2>1. Len(r) \in Nat
      OBVIOUS
    <2> QED BY <2>1
  <1>3. Len(s) = n + 1 /\ s[1] = Head(s) /\ \A k \in 1..n : r[k] = s[k + 1] /\ r[k] \in LgFill
    BY <1>1, <1>2
  <1>4. PICK a \in [0..n -> Int] : /\ a[0] = 0 /\ a[n] = Unrealized(r, m)
             /\ \A k \in 1..n : a[k] = a[k - 1] + Signed(r[k]) * (m - r[k].price)
    BY <1>2, UnrealizedSteps
  <1>5. PICK b \in [0..n + 1 -> Int] : /\ b[0] = 0 /\ b[n + 1] = Unrealized(s, m)
             /\ \A k \in 1..n + 1 : b[k] = b[k - 1] + Signed(s[k]) * (m - s[k].price)
    <2>1. Len(s) = n + 1
      BY <1>3
    <2>2. PICK b \in [0..Len(s) -> Int] : /\ b[0] = 0 /\ b[Len(s)] = Unrealized(s, m)
             /\ \A k \in 1..Len(s) : b[k] = b[k - 1] + Signed(s[k]) * (m - s[k].price)
      BY UnrealizedSteps
    <2> QED BY <2>1, <2>2
  <1>6. PICK h \in Int : h = Signed(Head(s)) * (m - Head(s).price)
    <2>1. Head(s) \in LgFill
      OBVIOUS
    <2> QED BY <2>1, Amounts
  <1> DEFINE c == [k \in 0..n |-> b[k + 1]]
             d == [k \in 1..n |-> Signed(r[k]) * (m - r[k].price)]
  <1>7. c \in [0..n -> Int] /\ c[0] = a[0] + h
    <2>1. b[1] = b[0] + Signed(s[1]) * (m - s[1].price)
      <3>1. 1 \in 1..n + 1 /\ 1 - 1 = 0
        OBVIOUS
      <3> QED BY <1>5, <3>1
    <2>2. b[1] = 0 + h
      BY <1>3, <1>5, <1>6, <2>1
    <2>3. c[0] = b[1]
      OBVIOUS
    <2>4. c \in [0..n -> Int]
      BY <1>5
    <2> HIDE DEF c
    <2> QED BY <1>4, <2>2, <2>3, <2>4
  <1>8. \A k \in 1..n : d[k] \in Int
    BY <1>3, Amounts
  <1>9. \A k \in 1..n : a[k] = a[k - 1] + d[k]
    BY <1>4
  <1>10. \A k \in 1..n : c[k] = c[k - 1] + d[k]
    <2>1. ASSUME NEW k \in 1..n PROVE c[k] = c[k - 1] + d[k]
      <3>1. k + 1 \in 1..n + 1 /\ k \in 0..n /\ k - 1 \in 0..n /\ (k + 1) - 1 = k /\ (k - 1) + 1 = k
        OBVIOUS
      <3>2. b[k + 1] = b[(k + 1) - 1] + Signed(s[k + 1]) * (m - s[k + 1].price)
        BY <1>5, <3>1
      <3>3. c[k] = b[k + 1] /\ c[k - 1] = b[k] /\ d[k] = Signed(s[k + 1]) * (m - s[k + 1].price)
        BY <1>3, <3>1
      <3> HIDE DEF c, d
      <3> QED BY <3>1, <3>2, <3>3
    <2> QED BY <2>1
  <1>11. c[n] = a[n] + h
    <2>2. Sums(a, n, d)
      BY <1>4, <1>8 DEF Sums
    <2>3. d \in [1..n -> Int]
      BY <1>8
    <2>4. Sums(c, n, d)
      <3> HIDE DEF c, d
      <3> QED BY <1>7, <1>10, <2>3 DEF Sums
    <2> HIDE DEF c, d
    <2> QED BY <1>7, <2>2, <2>4, SumsAgree
  <1>12. c[n] = b[n + 1]
    OBVIOUS
  <1> HIDE DEF c
  <1> QED BY <1>1, <1>4, <1>5, <1>6, <1>11, <1>12

\* What a fill does to the two sides of the balance.
LEMMA FillBalances ==
    ASSUME NEW book \in LgBook, NEW f \in LgFill, NEW m \in Int, NEW c \in Int, NEW x \in Int,
           book.realized + Unrealized(book.lots, m) = c + x * m
    PROVE  LET next == FifoStep(book, f)
           IN  next.realized + Unrealized(next.lots, m)
               = (c - Signed(f) * f.price) + (x + Signed(f)) * m
  <1>1. book.lots \in Seq(LgFill) /\ book.realized \in Int /\ book = [lots |-> book.lots, realized |-> book.realized]
    BY DEF LgBook
  <1>2. PICK l \in Seq(LgFill) : l = book.lots
    BY <1>1
  <1>3. PICK r \in Int : r = book.realized
    BY <1>1
  <1>4. PICK u \in Int : u = Unrealized(l, m)
    BY UnrealizedTyped
  <1>5. r + u = c + x * m
    BY <1>2, <1>3, <1>4
  <1>6. PICK y \in {1, -1} : y = Signed(f)
    BY DEF Signed
  <1>7. PICK p \in Int : p = f.price
    BY DEF LgFill
  <1>8. PICK z \in Int : z = x * m
    OBVIOUS
  <1>9. (c - y * p) + (x + y) * m = (c + z) + y * (m - p)
    <2>1. CASE y = 1
      <3>1. (x + 1) * m = x * m + m
        OBVIOUS
      <3> QED BY <1>8, <2>1, <3>1
    <2>2. CASE y = -1
      <3>1. (x + -1) * m = x * m - m
        OBVIOUS
      <3> QED BY <1>8, <2>2, <3>1
    <2> QED BY <1>6, <2>1, <2>2
  <1>10. CASE l # <<>> /\ Head(l).side # f.side
    <2>1. PICK h \in LgFill : h = Head(l)
      <3>1. Head(l) \in LgFill
        BY <1>10
      <3> QED BY <3>1
    <2>2. FifoStep(book, f) = [lots |-> Tail(l), realized |-> r + Signed(f) * (h.price - f.price)]
      BY <1>2, <1>3, <1>10, <2>1 DEF FifoStep
    <2>3. PICK q \in Int : q = h.price
      BY DEF LgFill
    <2>4. Signed(h) = -y
      BY <1>6, <1>10, <2>1 DEF LgFill, Signed
    <2>5. Unrealized(l, m) = Unrealized(Tail(l), m) + Signed(h) * (m - h.price)
      BY <1>10, <2>1, UnrealizedTail
    <2>6. PICK t \in Seq(LgFill) : t = Tail(l)
      <3>1. Tail(l) \in Seq(LgFill)
        BY <1>10
      <3> QED BY <3>1
    <2>7. PICK v \in Int : v = Unrealized(t, m)
      BY UnrealizedTyped
    <2>8. u = v + (-y) * (m - q)
      BY <1>4, <2>3, <2>4, <2>5, <2>6, <2>7
    <2>9. (r + y * (q - p)) + v = (r + u) + y * (m - p)
      <3>1. CASE y = 1
        BY <2>8, <3>1
      <3>2. CASE y = -1
        BY <2>8, <3>2
      <3> QED BY <1>6, <3>1, <3>2
    <2>10. FifoStep(book, f).realized = r + y * (q - p) /\ FifoStep(book, f).lots = t
      BY <1>6, <1>7, <2>2, <2>3, <2>6
    <2>11. (r + y * (q - p)) + v = (c - y * p) + (x + y) * m
      BY <1>5, <1>8, <1>9, <2>9
    <2> QED BY <1>6, <1>7, <2>7, <2>10, <2>11
  <1>11. CASE ~(l # <<>> /\ Head(l).side # f.side)
    <2>1. FifoStep(book, f) = [book EXCEPT !.lots = Append(l, f)]
      BY <1>2, <1>11 DEF FifoStep
    <2>2. FifoStep(book, f).realized = r /\ FifoStep(book, f).lots = Append(l, f)
      BY <1>1, <1>3, <2>1
    <2>3. PICK t \in Seq(LgFill) : t = Append(l, f)
      <3>1. Append(l, f) \in Seq(LgFill)
        OBVIOUS
      <3> QED BY <3>1
    <2>4. Unrealized(Append(l, f), m) = Unrealized(l, m) + Signed(f) * (m - f.price)
      BY UnrealizedAppend
    <2>5. Unrealized(t, m) = u + y * (m - p)
      BY <1>4, <1>6, <1>7, <2>3, <2>4
    <2>6. r + (u + y * (m - p)) = (c - y * p) + (x + y) * m
      <3>1. PICK w \in Int : w = y * (m - p)
        BY <1>6
      <3> QED BY <1>5, <1>8, <1>9, <3>1
    <2> QED BY <1>6, <1>7, <2>2, <2>3, <2>5, <2>6
  <1> QED BY <1>10, <1>11

\* The books of any sequence of fills balance.
LEMMA Balance ==
    ASSUME NEW s \in Seq(LgFill), NEW m \in Int
    PROVE  FifoPass(s).realized + Unrealized(FifoPass(s).lots, m) = CashOf(s) + NetOf(s) * m
  <1>1. PICK n \in Nat : n = Len(s)
    <2>1. Len(s) \in Nat
      OBVIOUS
    <2> QED BY <2>1
  <1>2. \A k \in 1..n : s[k] \in LgFill
    BY <1>1
  <1>3. PICK a \in [0..n -> LgBook] :
           /\ a[0] = [realized |-> 0, lots |-> <<>>] /\ a[n] = FifoPass(s)
           /\ \A k \in 1..n : a[k] = FifoStep(a[k - 1], s[k])
    BY <1>1, FifoSteps
  <1>4. PICK c \in [0..n -> Int] :
           /\ c[0] = 0 /\ c[n] = CashOf(s)
           /\ \A k \in 1..n : c[k] = c[k - 1] - Signed(s[k]) * s[k].price
    BY <1>1, CashSteps
  <1>5. PICK x \in [0..n -> Int] :
           /\ x[0] = 0 /\ x[n] = NetOf(s)
           /\ \A k \in 1..n : x[k] = x[k - 1] + Signed(s[k])
    BY <1>1, NetSteps
  <1> DEFINE Good == {k \in 0..n : a[k].realized + Unrealized(a[k].lots, m) = c[k] + x[k] * m}
  <1>6. 0 \in Good
    <2>1. a[0].realized = 0 /\ a[0].lots = <<>>
      BY <1>3
    <2>2. Unrealized(a[0].lots, m) = 0
      BY <2>1, UnrealizedEmpty
    <2>3. c[0] + x[0] * m = 0
      BY <1>4, <1>5
    <2> QED BY <2>1, <2>2, <2>3
  <1>7. ASSUME NEW k \in 1..n, k - 1 \in Good PROVE k \in Good
    <2>1. k \in 0..n /\ k - 1 \in 0..n
      OBVIOUS
    <2>2. PICK b \in LgBook : b = a[k - 1]
      BY <1>3, <2>1
    <2>3. PICK f \in LgFill : f = s[k]
      BY <1>2
    <2>4. PICK d \in Int : d = c[k - 1]
      BY <1>4, <2>1
    <2>5. PICK y \in Int : y = x[k - 1]
      BY <1>5, <2>1
    <2>6. b.realized + Unrealized(b.lots, m) = d + y * m
      BY <1>7, <2>2, <2>4, <2>5
    <2>7. FifoStep(b, f).realized + Unrealized(FifoStep(b, f).lots, m)
              = (d - Signed(f) * f.price) + (y + Signed(f)) * m
      BY <2>6, FillBalances
    <2>8. a[k] = FifoStep(b, f)
      BY <1>3, <2>2, <2>3
    <2>9. c[k] = d - Signed(f) * f.price
      BY <1>4, <2>3, <2>4
    <2>10. x[k] = y + Signed(f)
      BY <1>5, <2>3, <2>5
    <2>11. a[k].realized + Unrealized(a[k].lots, m) = c[k] + x[k] * m
      BY <2>7, <2>8, <2>9, <2>10
    <2> QED BY <2>1, <2>11
  <1>8. 0..n \subseteq Good
    <2> HIDE DEF Good
    <2> QED BY <1>1, <1>6, <1>7, UpTo
  <1>9. n \in Good
    BY <1>8
  <1> QED BY <1>3, <1>4, <1>5, <1>9

\* What is kept are the entries in S.
LEMMA KeptAre ==
    ASSUME NEW s \in Seq(Nat), NEW S, NEW q, q = KeptOf(s, S)
    PROVE  /\ q \in Seq(Nat)
           /\ {q[i] : i \in DOMAIN q} = {s[i] : i \in DOMAIN s} \cap S
  <1>1. PICK n \in Nat : n = Len(s)
    <2>1. Len(s) \in Nat
      OBVIOUS
    <2> QED BY <2>1
  <1>2. DOMAIN s = 1..n /\ \A k \in 1..n : s[k] \in Nat
    BY <1>1
  <1>9. PICK a : KeepsOf(a, n, s, S, KeptOf(s, S))
    <2>1. PICK a : KeepsOf(a, Len(s), s, S, KeptOf(s, S))
      BY KeptSteps
    <2> QED BY <1>1, <2>1
  <1>3. /\ a \in [0..n -> Seq(Nat)] /\ a[0] = <<>> /\ a[n] = KeptOf(s, S)
        /\ \A k \in 1..n : a[k] = (IF s[k] \in S THEN Append(a[k - 1], s[k]) ELSE a[k - 1])
    BY <1>9 DEF KeepsOf
  <1> DEFINE Entries(t) == {t[i] : i \in DOMAIN t}
             First(k) == {s[i] : i \in 1..k} \cap S
             Good == {k \in 0..n : Entries(a[k]) = First(k)}
  <1>4. 0 \in Good
    <2>1. DOMAIN a[0] = {} /\ 1..0 = {}
      BY <1>3
    <2>2. Entries(a[0]) = {} /\ First(0) = {}
      BY <2>1
    <2>3. 0 \in 0..n
      OBVIOUS
    <2> HIDE DEF Entries, First
    <2> QED BY <2>2, <2>3
  <1>5. ASSUME NEW k \in 1..n, k - 1 \in Good PROVE k \in Good
    <2>1. k \in 0..n /\ k - 1 \in 0..n /\ 1..k = (1..k - 1) \cup {k}
      OBVIOUS
    <2>2. First(k) = First(k - 1) \cup ({s[k]} \cap S)
      BY <2>1
    <2>3. PICK t \in Seq(Nat) : t = a[k - 1]
      BY <1>3, <2>1
    <2>4. Entries(t) = First(k - 1)
      BY <1>5, <2>3
    <2>5. CASE s[k] \in S
      <3>1. PICK x \in Nat : x = s[k]
        BY <1>2
      <3>2. a[k] = Append(t, x)
        BY <1>3, <2>3, <2>5, <3>1
      <3>3. PICK l \in Nat : l = Len(t)
        <4>1. Len(t) \in Nat
          OBVIOUS
        <4> QED BY <4>1
      <3>4. PICK u : u = Append(t, x)
        OBVIOUS
      <3>5. DOMAIN t = 1..l /\ DOMAIN u = 1..l + 1 /\ u[l + 1] = x /\ \A i \in 1..l : u[i] = t[i]
        BY <3>3, <3>4
      <3>6. {u[i] : i \in DOMAIN u} = {t[i] : i \in DOMAIN t} \cup {x}
        <4>1. 1..l + 1 = (1..l) \cup {l + 1}
          OBVIOUS
        <4>2. \A i \in DOMAIN u : u[i] \in {t[j] : j \in DOMAIN t} \cup {x}
          BY <3>5, <4>1
        <4>3. \A j \in DOMAIN t : \E i \in DOMAIN u : u[i] = t[j]
          BY <3>5, <4>1
        <4>4. \E i \in DOMAIN u : u[i] = x
          BY <3>5, <4>1
        <4> QED BY <4>2, <4>3, <4>4
      <3>7. Entries(a[k]) = Entries(t) \cup {x}
        BY <3>2, <3>4, <3>6
      <3>8. First(k) = First(k - 1) \cup {x}
        BY <2>2, <2>5, <3>1
      <3> HIDE DEF Entries, First
      <3> QED BY <2>1, <2>4, <3>7, <3>8
    <2>6. CASE s[k] \notin S
      <3>1. a[k] = t
        BY <1>3, <2>3, <2>6
      <3>2. First(k) = First(k - 1)
        BY <2>2, <2>6
      <3> HIDE DEF Entries, First
      <3> QED BY <2>1, <2>4, <3>1, <3>2
    <2> QED BY <2>5, <2>6
  <1>6. 0..n \subseteq Good
    <2> HIDE DEF Good
    <2> QED BY <1>4, <1>5, UpTo
  <1>7. Entries(a[n]) = First(n)
    <2>1. n \in Good
      <3> HIDE DEF Good
      <3> QED BY <1>6
    <2> HIDE DEF Entries, First
    <2> QED BY <2>1
  <1>8. q \in Seq(Nat) /\ q = a[n]
    BY <1>3
  <1> QED BY <1>2, <1>7, <1>8

\* The numbers of the fills in S, and those fills, in the venue's order.
LEMMA OrderedAre ==
    ASSUME lgFills \in Seq(LgFill), NEW S, NEW q, q = Ordered(S)
    PROVE  /\ q \in Seq(Nat)
           /\ {q[i] : i \in DOMAIN q} = S \cap DOMAIN lgFills
           /\ \A i \in DOMAIN q : q[i] \in DOMAIN lgFills
  <1>1. PICK n \in Nat : n = Len(lgFills)
    <2>1. Len(lgFills) \in Nat
      OBVIOUS
    <2> QED BY <2>1
  <1>2. DOMAIN lgFills = 1..n
    BY <1>1
  <1>3. PICK s : s = [i \in 1..n |-> i]
    OBVIOUS
  <1>4. s \in Seq(Nat) /\ {s[i] : i \in DOMAIN s} = 1..n
    BY <1>3
  <1>5. Ordered(S) = KeptOf(s, S)
    BY <1>2, <1>3 DEF Ordered, KeptOf, FoldLeftDomain
  <1>6. q \in Seq(Nat) /\ {q[i] : i \in DOMAIN q} = {s[i] : i \in DOMAIN s} \cap S
    BY <1>4, <1>5, KeptAre
  <1> QED BY <1>2, <1>4, <1>6

LEMMA InOrderTyped ==
    ASSUME lgFills \in Seq(LgFill), NEW S
    PROVE  InOrder(S) \in Seq(LgFill)
  <1>1. PICK q : q = Ordered(S)
    OBVIOUS
  <1>2. q \in Seq(Nat) /\ \A i \in DOMAIN q : q[i] \in DOMAIN lgFills
    BY <1>1, OrderedAre
  <1>3. \A i \in DOMAIN q : lgFills[q[i]] \in LgFill
    BY <1>2
  <1>4. InOrder(S) = [i \in DOMAIN q |-> lgFills[q[i]]]
    BY <1>1 DEF InOrder
  <1>5. [i \in DOMAIN q |-> lgFills[q[i]]] \in Seq(LgFill)
    BY <1>2, <1>3, SMTT(30)
  <1> QED BY <1>4, <1>5

\* Fills carry a price and the time at which they were made.
FillsTyped ==
    /\ lgFills \in Seq(LgFill)
    /\ lgNow \in Nat /\ lgNow + 1 <= Len(LgPrices)

LEMMA FillsKept == FillsTyped /\ [LgNext]_lgVars => FillsTyped'
  <1> SUFFICES ASSUME FillsTyped, [LgNext]_lgVars PROVE FillsTyped'
    OBVIOUS
  <1> USE LedgerAssumption
  <1>1. CASE LgTick
    <2>1. lgNow' = lgNow + 1 /\ lgNow + 1 < Len(LgPrices) /\ lgFills' = lgFills /\ Len(LgPrices) \in Nat
      BY <1>1 DEF LgTick
    <2> QED BY <2>1 DEF FillsTyped
  <1>2. ASSUME NEW kind \in {"open", "close", "trigger", "manual"}, NEW way \in {"buy", "sell"},
               VenueFill(kind, way)
        PROVE  FillsTyped'
    <2>1. lgNow' = lgNow /\ lgFills' = Append(lgFills, [kind |-> kind, side |-> way, at |-> lgNow,
                                 price |-> LgPrices[lgNow + 1]])
      BY <1>2 DEF VenueFill
    <2>2. LgPrices[lgNow + 1] \in Int
      <3>1. lgNow + 1 \in 1..Len(LgPrices)
        BY DEF FillsTyped
      <3> QED BY <3>1
    <2>3. [kind |-> kind, side |-> way, at |-> lgNow, price |-> LgPrices[lgNow + 1]] \in LgFill
      BY <2>2 DEF LgFill, FillsTyped
    <2>4. lgFills' \in Seq(LgFill)
      BY <2>1, <2>3 DEF FillsTyped
    <2> QED BY <2>1, <2>4 DEF FillsTyped
  <1>3. CASE UNCHANGED <<lgFills, lgNow>>
    BY <1>3 DEF FillsTyped
  <1>4. CASE \E i \in Own \ lgOrders : RecordOrderMetadata(i)
    BY <1>3, <1>4 DEF RecordOrderMetadata
  <1>5. CASE StartTask \/ StartView
    BY <1>3, <1>5 DEF StartTask, StartView
  <1>6. ASSUME NEW p \in Passes, FetchPage(p) \/ CommitPass(p) \/ PassFails(p) PROVE FillsTyped'
    BY <1>3, <1>6 DEF FetchPage, CommitPass, PassFails
  <1>7. CASE UNCHANGED lgVars
    BY <1>3, <1>7 DEF lgVars
  <1> QED BY <1>1, <1>2, <1>4, <1>5, <1>6, <1>7 DEF LgNext

LEMMA FillsBegin == LgInit => FillsTyped
  <1> SUFFICES ASSUME LgInit PROVE FillsTyped
    OBVIOUS
  <1>1. lgFills = <<>> /\ lgNow = 0
    BY DEF LgInit
  <1>2. Len(LgPrices) >= 1
    BY LedgerAssumption
  <1> QED BY <1>1, <1>2 DEF FillsTyped

LEMMA FillsBalance == FillsTyped => BooksBalance
  <1> SUFFICES ASSUME FillsTyped PROVE BooksBalance
    OBVIOUS
  <1>1. PICK s \in Seq(LgFill) : s = InOrder(DOMAIN lgRows)
    <2>1. InOrder(DOMAIN lgRows) \in Seq(LgFill)
      BY InOrderTyped DEF FillsTyped
    <2> QED BY <2>1
  <1>2. ASSUME NEW k \in DOMAIN LgPrices
        PROVE  FifoPass(s).realized + Unrealized(FifoPass(s).lots, LgPrices[k])
               = CashOf(s) + NetOf(s) * LgPrices[k]
    <2>1. LgPrices[k] \in Int
      BY LedgerAssumption
    <2> QED BY <2>1, Balance
  <1> QED BY <1>1, <1>2 DEF BooksBalance, CashOf, NetOf

(***************************************************************************)
(* Whatever part of the fills the ledger holds, the FIFO pass over it      *)
(* gives a realized and an open result that together are the cash the      *)
(* fills moved plus what they left open, at every market price.            *)
(***************************************************************************)
THEOREM LedgerBalances == LgSpec => []BooksBalance
  BY FillsBegin, FillsKept, FillsBalance, PTL DEF LgSpec


-----------------------------------------------------------------------------
(* LedgerSync: no holes.                                                    *)

\* Below a fill of S every fill is in K.
Below(S, K) == \A j \in S : \A i \in 1..j - 1 : i \in K

\* A cursor is none, or the id of a fill of S.
CursorIn(c, S) == c = LgNone \/ \E i \in S : c = TradeId(i)

\* The fills are in the order of the clock.
FillsInTime ==
    /\ \A i \in DOMAIN lgFills : lgFills[i].at <= lgNow
    /\ \A i, j \in DOMAIN lgFills : i < j => lgFills[i].at <= lgFills[j].at

LedgerWhole ==
    /\ DOMAIN lgRows \subseteq DOMAIN lgFills
    /\ Below(DOMAIN lgRows, DOMAIN lgRows \cup lgMissed)
    /\ CursorIn(lgState.id, DOMAIN lgRows)
    /\ lgState.ts \in -1..lgNow

\* What a pass has read leaves no hole either, and its cursor is a fill it or
\* a committed pass has read.
PassWhole(job, rows, missed, fills, clock) ==
    /\ job.pc \in {"idle", "page", "commit"}
    /\ job.pc # "idle" =>
          /\ DOMAIN job.rows \subseteq DOMAIN fills
          /\ Below(DOMAIN job.rows, DOMAIN job.rows \cup DOMAIN rows \cup missed)
          /\ CursorIn(job.max, DOMAIN job.rows \cup DOMAIN rows)
          /\ job.ts \in -1..clock
    /\ job.pc = "page" =>
          /\ job = [pc |-> "page", state |-> job.state, cursor |-> job.cursor, rows |-> job.rows,
                    max |-> job.max, ts |-> job.ts, pages |-> job.pages, since |-> job.since]
          /\ CursorIn(job.cursor, DOMAIN job.rows \cup DOMAIN rows)
          /\ job.since \in Int

PassesWhole ==
    /\ lgJob = [p \in Passes |-> lgJob[p]]
    /\ \A p \in Passes : PassWhole(lgJob[p], lgRows, lgMissed, lgFills, lgNow)

LedgerInv == FillsTyped /\ FillsInTime /\ LedgerWhole /\ PassesWhole

\* What a sequence holds, and the ids of a page.
Entries(q) == {q[i] : i \in DOMAIN q}
Ids(page) == [i \in DOMAIN page |-> TradeId(page[i])]

LEMMA JoinDomain == ASSUME NEW f, NEW g PROVE DOMAIN Upserted(f, g) = DOMAIN f \cup DOMAIN g
  BY DEF Upserted

LEMMA TradeIds ==
    ASSUME NEW i \in Nat, NEW j \in Nat
    PROVE  /\ TradeId(i) \in Int /\ (i >= 1 => TradeId(i) # LgNone /\ TradeId(i) \in Nat)
           /\ (TradeId(i) < TradeId(j) <=> i < j)
  BY LedgerAssumption DEF TradeId, LgNone

\* A wider set of fills keeps what is below, and keeps the cursor.
LEMMA BelowWider ==
    ASSUME NEW S, NEW K, NEW L, Below(S, K), K \subseteq L
    PROVE  Below(S, L)
  BY DEF Below

LEMMA CursorWider ==
    ASSUME NEW c, NEW S, NEW K, CursorIn(c, S), S \subseteq K
    PROVE  CursorIn(c, K)
  BY DEF CursorIn

LEMMA PassWider ==
    ASSUME NEW job, NEW rows, NEW missed, NEW fills, NEW clock \in Int,
           NEW rows2, NEW missed2, NEW fills2, NEW clock2 \in Int,
           PassWhole(job, rows, missed, fills, clock),
           DOMAIN rows \subseteq DOMAIN rows2, missed \subseteq missed2 \cup DOMAIN rows2,
           DOMAIN fills \subseteq DOMAIN fills2, clock <= clock2
    PROVE  PassWhole(job, rows2, missed2, fills2, clock2)
  <1>1. CASE job.pc = "idle"
    BY <1>1 DEF PassWhole
  <1>2. CASE job.pc # "idle"
    <2>1. DOMAIN job.rows \subseteq DOMAIN fills2 /\ job.ts \in -1..clock2
      BY <1>2 DEF PassWhole
    <2>2. Below(DOMAIN job.rows, DOMAIN job.rows \cup DOMAIN rows2 \cup missed2)
      <3>1. Below(DOMAIN job.rows, DOMAIN job.rows \cup DOMAIN rows \cup missed)
        BY <1>2 DEF PassWhole
      <3> QED BY <3>1, BelowWider
    <2>3. \A c : CursorIn(c, DOMAIN job.rows \cup DOMAIN rows) => CursorIn(c, DOMAIN job.rows \cup DOMAIN rows2)
      BY CursorWider
    <2> QED BY <1>2, <2>1, <2>2, <2>3 DEF PassWhole
  <1> QED BY <1>1, <1>2

\* A page holds fills of the venue, and below each of them there are only
\* fills of the page and fills before the cursor or the window.
LEMMA PageGives ==
    ASSUME FillsTyped, FillsInTime, NEW job, NEW since \in Int, NEW cursor \in Int,
           job.cursor = cursor, cursor = LgNone => job.since = since, NEW page, page = Page(job),
           NEW got, got = Entries(page)
    PROVE  /\ page \in Seq(Nat) /\ got \subseteq DOMAIN lgFills
           /\ \A j \in got : \A i \in 1..j - 1 :
                 \/ i \in got
                 \/ i \in DOMAIN lgFills /\ cursor # LgNone /\ TradeId(i) < cursor
                 \/ i \in DOMAIN lgFills /\ cursor = LgNone /\ lgFills[i].at < since
  <1>1. PICK n \in Nat : n = Len(lgFills)
    <2>1. Len(lgFills) \in Nat
      BY DEF FillsTyped
    <2> QED BY <2>1
  <1>2. DOMAIN lgFills = 1..n /\ \A i \in 1..n : lgFills[i].at \in Int
    <2>1. lgFills \in Seq(LgFill)
      BY DEF FillsTyped
    <2>2. DOMAIN lgFills = 1..n /\ \A i \in 1..n : lgFills[i] \in LgFill
      BY <1>1, <2>1
    <2> QED BY <2>2 DEF LgFill
  <1>3. PICK from : from = {i \in DOMAIN lgFills : IF cursor # LgNone THEN TradeId(i) >= cursor
                                                   ELSE lgFills[i].at >= since}
    OBVIOUS
  <1>4. PICK seg : seg = {i \in from : Cardinality({j \in from : j < i}) < LgPage}
    OBVIOUS
  <1>5. page = Ordered(seg)
    BY <1>3, <1>4 DEF Page
  <1>6. page \in Seq(Nat) /\ got = seg \cap DOMAIN lgFills
    BY <1>5, OrderedAre DEF FillsTyped, Entries
  <1>7. seg \subseteq from /\ from \subseteq 1..n /\ got = seg
    BY <1>2, <1>3, <1>4, <1>6
  <1>8. ASSUME NEW j \in got, NEW i \in 1..j - 1
        PROVE  \/ i \in got
               \/ i \in DOMAIN lgFills /\ cursor # LgNone /\ TradeId(i) < cursor
               \/ i \in DOMAIN lgFills /\ cursor = LgNone /\ lgFills[i].at < since
    <2>1. j \in 1..n /\ i \in 1..n /\ i < j /\ i \in Nat /\ j \in Nat
      BY <1>7, <1>8
    <2>2. CASE i \in from
      <3>1. PICK b : b = {k \in from : k < j}
        OBVIOUS
      <3>2. PICK a : a = {k \in from : k < i}
        OBVIOUS
      <3>3. a \subseteq b
        <4>1. ASSUME NEW k \in a PROVE k \in b
          <5>1. k \in from /\ k < i /\ k \in 1..n
            BY <1>7, <3>2
          <5>2. k < j
            BY <2>1, <5>1
          <5> QED BY <3>1, <5>1, <5>2
        <4> QED BY <4>1
      <3>4. IsFiniteSet(b)
        <4>1. IsFiniteSet(1..n)
          BY FS_Interval
        <4>2. b \subseteq 1..n
          BY <1>7, <3>1
        <4> QED BY <4>1, <4>2, FS_Subset
      <3>5. Cardinality(a) <= Cardinality(b) /\ Cardinality(a) \in Nat /\ Cardinality(b) \in Nat
        BY <3>3, <3>4, FS_Subset, FS_CardinalityType
      <3>6. Cardinality(b) < LgPage
        BY <1>4, <1>7, <3>1
      <3>7. Cardinality(a) < LgPage
        BY <3>5, <3>6, LedgerAssumption
      <3>8. i \in seg
        BY <1>4, <2>2, <3>2, <3>7
      <3> QED BY <1>7, <3>8
    <2>3. CASE i \notin from
      <3>1. CASE cursor # LgNone
        <4>1. ~(TradeId(i) >= cursor)
          BY <1>2, <1>3, <2>1, <2>3, <3>1
        <4>2. TradeId(i) \in Int
          BY <2>1, TradeIds
        <4>3. TradeId(i) < cursor
          BY <4>1, <4>2
        <4> QED BY <1>2, <2>1, <3>1, <4>3
      <3>2. CASE cursor = LgNone
        <4>1. ~(lgFills[i].at >= since) /\ lgFills[i].at \in Int
          BY <1>2, <1>3, <2>1, <2>3, <3>2
        <4>2. lgFills[i].at < since
          BY <4>1
        <4> QED BY <1>2, <2>1, <3>2, <4>2
      <3> QED BY <3>1, <3>2
    <2> QED BY <2>2, <2>3
  <1> QED BY <1>2, <1>6, <1>7, <1>8

\* The newest id after a page is the newest before it or the id of one of its
\* fills.
LEMMA MaxIdAmong ==
    ASSUME NEW page \in Seq(Nat), NEW start, NEW got, got = Entries(page),
           NEW top, top = MaxId(Ids(page), start),
           \A i \in got : TradeId(i) \in Nat
    PROVE  top = start \/ \E i \in got : top = TradeId(i)
  <1>1. PICK n \in Nat : n = Len(page)
    <2>1. Len(page) \in Nat
      OBVIOUS
    <2> QED BY <2>1
  <1>2. DOMAIN page = 1..n
    BY <1>1
  <1>3. PICK s : s = [i \in 1..n |-> TradeId(page[i])]
    OBVIOUS
  <1>4. \A i \in 1..n : page[i] \in got
    BY <1>2 DEF Entries
  <1>5. s \in Seq(Nat) /\ Len(s) = n
    BY <1>3, <1>4
  <1>6. PICK V : V = {start} \cup {TradeId(i) : i \in got}
    OBVIOUS
  <1>7. start \in V /\ \A j \in 1..Len(s) : s[j] \in V
    BY <1>3, <1>4, <1>5, <1>6
  <1>8. MaxId(s, start) \in V
    BY <1>5, <1>7, MaxIdIn
  <1>9. top = MaxId(s, start)
    BY <1>2, <1>3 DEF Ids
  <1> QED BY <1>6, <1>8, <1>9

\* A step that leaves the other pass alone.
LEMMA OnePass ==
    ASSUME PassesWhole, lgNow \in Int, lgNow' \in Int, NEW p \in Passes, NEW new,
           lgJob' = [lgJob EXCEPT ![p] = new],
           PassWhole(new, lgRows', lgMissed', lgFills', lgNow'),
           DOMAIN lgRows \subseteq DOMAIN lgRows', lgMissed \subseteq lgMissed' \cup DOMAIN lgRows',
           DOMAIN lgFills \subseteq DOMAIN lgFills', lgNow <= lgNow'
    PROVE  PassesWhole'
  <1>1. lgJob' = [q \in Passes |-> lgJob'[q]] /\ lgJob'[p] = new
        /\ \A q \in Passes : q # p => lgJob'[q] = lgJob[q]
    BY DEF PassesWhole
  <1>2. ASSUME NEW q \in Passes PROVE PassWhole(lgJob'[q], lgRows', lgMissed', lgFills', lgNow')
    <2>1. CASE q = p
      BY <1>1, <2>1
    <2>2. CASE q # p
      <3>1. PassWhole(lgJob[q], lgRows, lgMissed, lgFills, lgNow)
        BY DEF PassesWhole
      <3>2. PassWhole(lgJob[q], lgRows', lgMissed', lgFills', lgNow')
        BY <3>1, PassWider
      <3> QED BY <1>1, <2>2, <3>2
    <2> QED BY <2>1, <2>2
  <1> QED BY <1>1, <1>2 DEF PassesWhole

\* A step that leaves both passes alone.
LEMMA NoPass ==
    ASSUME PassesWhole, lgNow \in Int, lgNow' \in Int, lgJob' = lgJob,
           DOMAIN lgRows \subseteq DOMAIN lgRows', lgMissed \subseteq lgMissed' \cup DOMAIN lgRows',
           DOMAIN lgFills \subseteq DOMAIN lgFills', lgNow <= lgNow'
    PROVE  PassesWhole'
  <1>1. ASSUME NEW q \in Passes PROVE PassWhole(lgJob'[q], lgRows', lgMissed', lgFills', lgNow')
    <2>1. PassWhole(lgJob[q], lgRows, lgMissed, lgFills, lgNow)
      BY DEF PassesWhole
    <2>2. PassWhole(lgJob[q], lgRows', lgMissed', lgFills', lgNow')
      BY <2>1, PassWider
    <2> QED BY <2>2
  <1>2. lgJob' = [q \in Passes |-> lgJob'[q]]
    BY DEF PassesWhole
  <1> QED BY <1>1, <1>2 DEF PassesWhole

LEMMA NowTyped == FillsTyped => lgNow \in Nat /\ Len(lgFills) \in Nat /\ DOMAIN lgFills = 1..Len(lgFills)
                  /\ \A i \in DOMAIN lgFills : lgFills[i].at \in Nat
  <1> SUFFICES ASSUME FillsTyped
               PROVE  lgNow \in Nat /\ Len(lgFills) \in Nat /\ DOMAIN lgFills = 1..Len(lgFills)
                      /\ \A i \in DOMAIN lgFills : lgFills[i].at \in Nat
    OBVIOUS
  <1>1. lgNow \in Nat /\ lgFills \in Seq(LgFill)
    BY DEF FillsTyped
  <1>2. \A i \in DOMAIN lgFills : lgFills[i] \in LgFill
    BY <1>1
  <1> QED BY <1>1, <1>2 DEF LgFill

LEMMA LgBegins == LgInit => LedgerInv
  <1> SUFFICES ASSUME LgInit PROVE LedgerInv
    OBVIOUS
  <1>1. lgFills = <<>> /\ lgNow = 0 /\ lgRows = <<>> /\ lgMissed = {} /\ lgState.ts = LgNone /\ lgState.id = LgNone
        /\ lgJob = [p \in Passes |-> LgIdle]
    BY DEF LgInit
  <1>2. DOMAIN lgFills = {} /\ DOMAIN lgRows = {}
    BY <1>1
  <1>3. LedgerWhole
    BY <1>1, <1>2 DEF LedgerWhole, Below, CursorIn, LgNone
  <1>4. PassesWhole
    BY <1>1 DEF PassesWhole, PassWhole, LgIdle
  <1> QED BY <1>2, <1>3, <1>4, FillsBegin DEF LedgerInv, FillsInTime

LEMMA TickKeeps == ASSUME LedgerInv, FillsTyped', LgTick PROVE LedgerInv'
  <1>1. lgNow \in Nat /\ lgNow' = lgNow + 1 /\ \A i \in DOMAIN lgFills : lgFills[i].at \in Nat
    BY NowTyped DEF LgTick, LedgerInv
  <1>2. UNCHANGED <<lgFills, lgRows, lgState, lgJob, lgMissed>>
    BY DEF LgTick
  <1>3. FillsInTime'
    BY <1>1, <1>2 DEF LedgerInv, FillsInTime
  <1>4. LedgerWhole'
    BY <1>1, <1>2 DEF LedgerInv, LedgerWhole
  <1>5. PassesWhole'
    BY <1>1, <1>2, NoPass DEF LedgerInv
  <1> QED BY <1>3, <1>4, <1>5 DEF LedgerInv

LEMMA FillKeeps ==
    ASSUME LedgerInv, FillsTyped', NEW kind, NEW way, VenueFill(kind, way)
    PROVE  LedgerInv'
  <1>1. lgNow \in Nat /\ \A i \in DOMAIN lgFills : lgFills[i].at \in Nat
    BY NowTyped DEF LedgerInv
  <1>2. UNCHANGED <<lgNow, lgRows, lgState, lgJob, lgMissed>>
    BY DEF VenueFill
  <1>3. PICK f : f.at = lgNow /\ lgFills' = Append(lgFills, f)
    BY DEF VenueFill
  <1>4. PICK n \in Nat : n = Len(lgFills) /\ DOMAIN lgFills = 1..n
    <2>1. Len(lgFills) \in Nat /\ DOMAIN lgFills = 1..Len(lgFills)
      BY NowTyped DEF LedgerInv
    <2> QED BY <2>1
  <1>5. /\ DOMAIN lgFills' = 1..n + 1
        /\ \A i \in 1..n : lgFills'[i] = lgFills[i]
        /\ lgFills'[n + 1] = f
    <2>1. lgFills \in Seq(LgFill)
      BY DEF LedgerInv, FillsTyped
    <2> QED BY <1>3, <1>4, <2>1
  <1>6. \A i \in 1..n + 1 : i \in 1..n \/ i = n + 1
    BY <1>4
  <1>7. FillsInTime'
    <2>1. \A i \in 1..n + 1 : lgFills'[i].at <= lgNow
      BY <1>1, <1>3, <1>4, <1>5, <1>6 DEF LedgerInv, FillsInTime
    <2>2. ASSUME NEW i \in 1..n + 1, NEW j \in 1..n + 1, i < j PROVE lgFills'[i].at <= lgFills'[j].at
      <3>1. i \in 1..n
        BY <1>4, <2>2
      <3>2. CASE j \in 1..n
        BY <1>4, <1>5, <2>2, <3>1, <3>2 DEF LedgerInv, FillsInTime
      <3>3. CASE j = n + 1
        BY <1>3, <1>4, <1>5, <2>2, <3>1, <3>3 DEF LedgerInv, FillsInTime
      <3> QED BY <1>6, <3>2, <3>3
    <2> QED BY <1>2, <1>5, <2>1, <2>2 DEF FillsInTime
  <1>8. DOMAIN lgFills \subseteq DOMAIN lgFills'
    BY <1>4, <1>5
  <1>9. LedgerWhole'
    BY <1>2, <1>8 DEF LedgerInv, LedgerWhole
  <1>10. PassesWhole'
    BY <1>1, <1>2, <1>8, NoPass DEF LedgerInv
  <1> QED BY <1>7, <1>9, <1>10 DEF LedgerInv

\* A new pass takes its cursor and its window from the committed state.
LEMMA StartKeeps == ASSUME LedgerInv, FillsTyped', StartTask \/ StartView PROVE LedgerInv'
  <1>1. lgNow \in Nat
    BY NowTyped DEF LedgerInv
  <1>2. UNCHANGED <<lgFills, lgNow, lgRows, lgState, lgMissed>>
    BY DEF StartTask, StartView
  <1>3. lgState.ts \in -1..lgNow /\ CursorIn(lgState.id, DOMAIN lgRows)
    BY DEF LedgerInv, LedgerWhole
  <1>4. ASSUME NEW cursor \in {lgState.id, LgNone}, NEW pages, NEW since \in Int, NEW new,
               new = [pc |-> "page", state |-> lgState, cursor |-> cursor, rows |-> <<>>,
                      max |-> lgState.id, ts |-> lgState.ts, pages |-> pages, since |-> since]
        PROVE  PassWhole(new, lgRows, lgMissed, lgFills, lgNow)
    <2>1. /\ new.pc = "page" /\ new.rows = <<>> /\ new.cursor = cursor /\ new.since = since
          /\ new.max = lgState.id /\ new.ts = lgState.ts /\ new.state = lgState /\ new.pages = pages
      BY <1>4
    <2>2. DOMAIN new.rows = {}
      BY <2>1
    <2>3. CursorIn(new.cursor, DOMAIN new.rows \cup DOMAIN lgRows) /\ CursorIn(new.max, DOMAIN new.rows \cup DOMAIN lgRows)
      BY <1>3, <2>1, <2>2 DEF CursorIn
    <2>4. Below(DOMAIN new.rows, DOMAIN new.rows \cup DOMAIN lgRows \cup lgMissed)
      BY <2>2 DEF Below
    <2> QED BY <1>3, <1>4, <2>1, <2>2, <2>3, <2>4 DEF PassWhole
  <1>5. PassesWhole'
    <2>1. CASE StartTask
      <3>1. PICK since \in Int : since = IF ~lgState.backfilled THEN 0
                      ELSE IF lgState.ts # LgNone THEN lgState.ts ELSE lgNow
        BY <1>1, <1>3
      <3>2. PICK new : new = [pc |-> "page", state |-> lgState, cursor |-> lgState.id, rows |-> <<>>,
                      max |-> lgState.id, ts |-> lgState.ts, pages |-> 0, since |-> since]
        OBVIOUS
      <3>3. PassWhole(new, lgRows, lgMissed, lgFills, lgNow)
        BY <1>4, <3>2
      <3>4. lgJob' = [lgJob EXCEPT !["task"] = new]
        BY <2>1, <3>1, <3>2 DEF StartTask
      <3>7. PassWhole(new, lgRows', lgMissed', lgFills', lgNow')
        BY <1>2, <3>3
      <3>8. PICK p \in Passes : p = "task"
        BY DEF Passes
      <3>9. lgJob' = [lgJob EXCEPT ![p] = new]
        BY <3>4, <3>8
      <3>10. PassesWhole /\ lgNow \in Int /\ lgNow' \in Int /\ lgNow <= lgNow'
        BY <1>1, <1>2 DEF LedgerInv
      <3>11. /\ DOMAIN lgRows \subseteq DOMAIN lgRows' /\ lgMissed \subseteq lgMissed' \cup DOMAIN lgRows'
             /\ DOMAIN lgFills \subseteq DOMAIN lgFills'
        BY <1>2
      <3> QED BY <3>7, <3>9, <3>10, <3>11, OnePass
    <2>2. CASE StartView
      <3>1. PICK since \in Int : since = IF lgState.ts # LgNone THEN lgState.ts ELSE 0
        BY <1>1, <1>3
      <3>2. PICK cursor \in {lgState.id, LgNone} : cursor = IF lgState.ts # LgNone THEN lgState.id ELSE LgNone
        OBVIOUS
      <3>3. PICK pages : pages = IF lgState.ts # LgNone THEN 0 ELSE LgMaxPages - LgFills - 1
        OBVIOUS
      <3>4. PICK new : new = [pc |-> "page", state |-> lgState, cursor |-> cursor, rows |-> <<>>,
                      max |-> lgState.id, ts |-> lgState.ts, pages |-> pages, since |-> since]
        OBVIOUS
      <3>5. PassWhole(new, lgRows, lgMissed, lgFills, lgNow)
        BY <1>4, <3>4
      <3>6. lgJob' = [lgJob EXCEPT !["view"] = new]
        BY <2>2, <3>1, <3>2, <3>3, <3>4 DEF StartView
      <3>7. PassWhole(new, lgRows', lgMissed', lgFills', lgNow')
        BY <1>2, <3>5
      <3>8. PICK p \in Passes : p = "view"
        BY DEF Passes
      <3>9. lgJob' = [lgJob EXCEPT ![p] = new]
        BY <3>6, <3>8
      <3>10. PassesWhole /\ lgNow \in Int /\ lgNow' \in Int /\ lgNow <= lgNow'
        BY <1>1, <1>2 DEF LedgerInv
      <3>11. /\ DOMAIN lgRows \subseteq DOMAIN lgRows' /\ lgMissed \subseteq lgMissed' \cup DOMAIN lgRows'
             /\ DOMAIN lgFills \subseteq DOMAIN lgFills'
        BY <1>2
      <3> QED BY <3>7, <3>9, <3>10, <3>11, OnePass
    <2> QED BY <2>1, <2>2
  <1>6. FillsInTime' /\ LedgerWhole'
    BY <1>2 DEF LedgerInv, FillsInTime, LedgerWhole
  <1> QED BY <1>5, <1>6 DEF LedgerInv

\* What a page adds to a pass.
LEMMA ReadWhole ==
    ASSUME LedgerInv, NEW job, PassWhole(job, lgRows, lgMissed, lgFills, lgNow), job.pc = "page",
           NEW got, NEW rows, NEW missed,
           got \subseteq DOMAIN lgFills, DOMAIN rows = got \cup DOMAIN job.rows, lgMissed \subseteq missed,
           \A j \in got : \A i \in 1..j - 1 :
              \/ i \in got
              \/ i \in DOMAIN lgFills /\ job.cursor # LgNone /\ TradeId(i) < job.cursor
              \/ i \in DOMAIN lgFills /\ job.cursor = LgNone /\ lgFills[i].at < job.since,
           job.cursor = LgNone => \A i \in DOMAIN lgFills :
                                     lgFills[i].at < job.since => i \in DOMAIN lgRows \cup missed
    PROVE  /\ DOMAIN rows \subseteq DOMAIN lgFills
           /\ Below(DOMAIN rows, DOMAIN rows \cup DOMAIN lgRows \cup missed)
  <1>1. /\ DOMAIN job.rows \subseteq DOMAIN lgFills
        /\ Below(DOMAIN job.rows, DOMAIN job.rows \cup DOMAIN lgRows \cup lgMissed)
        /\ CursorIn(job.cursor, DOMAIN job.rows \cup DOMAIN lgRows)
    BY DEF PassWhole
  <1>2. /\ DOMAIN lgRows \subseteq DOMAIN lgFills
        /\ Below(DOMAIN lgRows, DOMAIN lgRows \cup lgMissed)
    BY DEF LedgerInv, LedgerWhole
  <1>3. DOMAIN lgFills \subseteq Nat /\ \A i \in DOMAIN lgFills : i >= 1
    BY NowTyped DEF LedgerInv
  <1>4. ASSUME NEW j \in DOMAIN rows, NEW i \in 1..j - 1
        PROVE  i \in DOMAIN rows \cup DOMAIN lgRows \cup missed
    <2>1. CASE j \in DOMAIN job.rows
      BY <1>1, <2>1 DEF Below
    <2>2. CASE j \in got
      <3>1. CASE i \in got
        BY <3>1
      <3>2. CASE i \in DOMAIN lgFills /\ job.cursor # LgNone /\ TradeId(i) < job.cursor
        <4>1. PICK k \in DOMAIN job.rows \cup DOMAIN lgRows : job.cursor = TradeId(k)
          BY <1>1, <3>2 DEF CursorIn
        <4>2. k \in Nat /\ i \in Nat
          BY <1>1, <1>2, <1>3, <3>2
        <4>3. i < k
          BY <3>2, <4>1, <4>2, TradeIds
        <4>4. i \in 1..k - 1
          BY <1>3, <3>2, <4>2, <4>3
        <4>5. CASE k \in DOMAIN job.rows
          BY <1>1, <4>4, <4>5 DEF Below
        <4>6. CASE k \in DOMAIN lgRows
          BY <1>2, <4>4, <4>6 DEF Below
        <4> QED BY <4>1, <4>5, <4>6
      <3>3. CASE i \in DOMAIN lgFills /\ job.cursor = LgNone /\ lgFills[i].at < job.since
        BY <3>3
      <3> QED BY <2>2, <3>1, <3>2, <3>3
    <2> QED BY <2>1, <2>2
  <1> QED BY <1>1, <1>4 DEF Below

\* The newest time of a pass is one of the clock's.
LEMMA TsIn ==
    ASSUME FillsTyped, FillsInTime, NEW ts \in -1..lgNow, NEW got \in SUBSET DOMAIN lgFills
    PROVE  Max({ts} \cup {lgFills[i].at : i \in got}) \in -1..lgNow
  <1>1. PICK clock \in Nat : clock = lgNow
    BY NowTyped
  <1>2. PICK S : S = {ts} \cup {lgFills[i].at : i \in got}
    OBVIOUS
  <1>3. \A i \in DOMAIN lgFills : lgFills[i].at \in Nat /\ lgFills[i].at <= clock
    BY <1>1, NowTyped DEF FillsInTime
  <1>4. S \subseteq -1..clock /\ S # {} /\ S \subseteq Int
    BY <1>1, <1>2, <1>3
  <1>5. IsFiniteSet(-1..clock)
    BY FS_Interval
  <1>6. IsFiniteSet(S)
    BY <1>4, <1>5, FS_Subset
  <1>7. Max(S) \in S
    BY <1>4, <1>6, MaxIs
  <1> QED BY <1>1, <1>2, <1>4, <1>7

LEMMA FetchKeeps ==
    ASSUME LedgerInv, FillsTyped', NEW p \in Passes, FetchPage(p)
    PROVE  LedgerInv'
  <1>1. lgNow \in Nat /\ FillsTyped /\ FillsInTime
    BY NowTyped DEF LedgerInv
  <1>2. UNCHANGED <<lgFills, lgNow, lgRows, lgState>>
    BY DEF FetchPage
  <1>3. PICK job : job = lgJob[p]
    OBVIOUS
  <1>4. job.pc = "page" /\ PassWhole(job, lgRows, lgMissed, lgFills, lgNow)
    BY <1>3 DEF FetchPage, LedgerInv, PassesWhole
  <1>5. PICK page : page = Page(job)
    OBVIOUS
  <1>6. PICK got : got = Entries(page)
    OBVIOUS
  <1>7. PICK new : new = NextCursor(page, job.cursor)
    OBVIOUS
  <1>8. PICK rows : rows = Upserted([i \in got |-> ResolveOrigin(i)], job.rows)
    OBVIOUS
  <1>9. PICK top : top = MaxId(Ids(page), job.max)
    OBVIOUS
  <1>10. PICK ts : ts = IF page = <<>> THEN job.ts ELSE Max({job.ts} \cup {lgFills[i].at : i \in got})
    OBVIOUS
  <1>11. PICK pages : pages = job.pages + 1
    OBVIOUS
  <1>12. PICK missed : missed = lgMissed'
    OBVIOUS
  \* The page.
  <1>13. CursorIn(job.cursor, DOMAIN job.rows \cup DOMAIN lgRows) /\ job.since \in Int
         /\ CursorIn(job.max, DOMAIN job.rows \cup DOMAIN lgRows) /\ job.ts \in -1..lgNow
         /\ DOMAIN job.rows \subseteq DOMAIN lgFills
         /\ job = [pc |-> "page", state |-> job.state, cursor |-> job.cursor, rows |-> job.rows,
                   max |-> job.max, ts |-> job.ts, pages |-> job.pages, since |-> job.since]
    BY <1>4 DEF PassWhole
  <1>14. DOMAIN lgFills \subseteq Nat /\ \A i \in DOMAIN lgFills : i >= 1 /\ i \in Nat
    BY <1>1, NowTyped
  <1>15. PICK cursor \in Int : cursor = job.cursor
    <2>1. job.cursor \in Int
      <3>1. CASE job.cursor = LgNone
        BY <3>1 DEF LgNone
      <3>2. ASSUME NEW i \in DOMAIN job.rows \cup DOMAIN lgRows, job.cursor = TradeId(i) PROVE job.cursor \in Int
        <4>1. i \in Nat
          BY <1>13, <1>14 DEF LedgerInv, LedgerWhole
        <4> QED BY <3>2, <4>1, TradeIds
      <3> QED BY <1>13, <3>1, <3>2 DEF CursorIn
    <2> QED BY <2>1
  <1>16. PICK since \in Int : since = job.since
    BY <1>13
  <1>17. /\ page \in Seq(Nat) /\ got \subseteq DOMAIN lgFills
         /\ \A j \in got : \A i \in 1..j - 1 :
               \/ i \in got
               \/ i \in DOMAIN lgFills /\ cursor # LgNone /\ TradeId(i) < cursor
               \/ i \in DOMAIN lgFills /\ cursor = LgNone /\ lgFills[i].at < since
    BY <1>1, <1>5, <1>6, <1>15, <1>16, PageGives
  <1>18. /\ lgMissed \subseteq missed
         /\ job.cursor = LgNone => \A i \in DOMAIN lgFills :
                                     lgFills[i].at < job.since => i \in DOMAIN lgRows \cup missed
    BY <1>3, <1>12 DEF FetchPage
  <1>19. DOMAIN rows = got \cup DOMAIN job.rows
    <2>1. PICK f : f = [i \in got |-> ResolveOrigin(i)]
      OBVIOUS
    <2>2. rows = Upserted(f, job.rows) /\ DOMAIN f = got
      BY <1>8, <2>1
    <2> QED BY <2>2, JoinDomain
  <1>20. /\ DOMAIN rows \subseteq DOMAIN lgFills
         /\ Below(DOMAIN rows, DOMAIN rows \cup DOMAIN lgRows \cup missed)
    <2>1. \A j \in got : \A i \in 1..j - 1 :
               \/ i \in got
               \/ i \in DOMAIN lgFills /\ job.cursor # LgNone /\ TradeId(i) < job.cursor
               \/ i \in DOMAIN lgFills /\ job.cursor = LgNone /\ lgFills[i].at < job.since
      BY <1>15, <1>16, <1>17
    <2> QED BY <1>4, <1>17, <1>18, <1>19, <2>1, ReadWhole
  <1>21. CursorIn(top, DOMAIN rows \cup DOMAIN lgRows)
    <2>1. \A i \in got : TradeId(i) \in Nat
      BY <1>14, <1>17, TradeIds
    <2>2. PICK start : start = job.max
      OBVIOUS
    <2>3. top = start \/ \E i \in got : top = TradeId(i)
      BY <1>6, <1>9, <1>17, <2>1, <2>2, MaxIdAmong
    <2>4. CASE top = job.max
      <3>1. DOMAIN job.rows \cup DOMAIN lgRows \subseteq DOMAIN rows \cup DOMAIN lgRows
        BY <1>19
      <3> QED BY <1>13, <2>4, <3>1, CursorWider
    <2>5. CASE \E i \in got : top = TradeId(i)
      BY <1>19, <2>5 DEF CursorIn
    <2> QED BY <2>2, <2>3, <2>4, <2>5
  <1>22. ts \in -1..lgNow
    <2>1. CASE page = <<>>
      BY <1>10, <1>13, <2>1
    <2>2. CASE page # <<>>
      <3>1. got \in SUBSET DOMAIN lgFills
        BY <1>17
      <3>2. PICK t \in -1..lgNow : t = job.ts
        BY <1>13
      <3>3. Max({t} \cup {lgFills[i].at : i \in got}) \in -1..lgNow
        BY <1>1, <3>1, TsIn
      <3> QED BY <1>10, <2>2, <3>2, <3>3
    <2> QED BY <2>1, <2>2
  <1>23. CursorIn(new, DOMAIN rows \cup DOMAIN lgRows)
    <2>1. CASE new = LgNone
      BY <2>1 DEF CursorIn
    <2>2. CASE new # LgNone
      <3>1. page # <<>> /\ new = TradeId(Last(page))
        BY <1>7, <2>2 DEF NextCursor
      <3>2. Last(page) \in got
        <4>1. Len(page) \in DOMAIN page /\ Last(page) = page[Len(page)]
          BY <1>17, <3>1 DEF Last
        <4> QED BY <1>6, <4>1 DEF Entries
      <3> QED BY <1>19, <3>1, <3>2 DEF CursorIn
    <2> QED BY <2>1, <2>2
  \* What becomes of the pass.
  <1>24. lgJob' = [lgJob EXCEPT ![p] =
              IF new = LgNone \/ [job EXCEPT !.rows = rows, !.max = top, !.ts = ts, !.pages = pages].pages >= LgMaxPages
              THEN ToCommit([job EXCEPT !.rows = rows, !.max = top, !.ts = ts, !.pages = pages])
              ELSE [[job EXCEPT !.rows = rows, !.max = top, !.ts = ts, !.pages = pages] EXCEPT !.cursor = new]]
    BY <1>3, <1>5, <1>6, <1>7, <1>8, <1>9, <1>10, <1>11 DEF FetchPage, Entries, Ids
  <1>25. PICK read : read = [pc |-> "page", state |-> job.state, cursor |-> job.cursor, rows |-> rows,
                             max |-> top, ts |-> ts, pages |-> pages, since |-> job.since]
    OBVIOUS
  <1>26. read = [job EXCEPT !.rows = rows, !.max = top, !.ts = ts, !.pages = pages]
    <2> DEFINE a == [job EXCEPT !.rows = rows]
               b == [a EXCEPT !.max = top]
               c == [b EXCEPT !.ts = ts]
               d == [c EXCEPT !.pages = pages]
    <2>1. a = [pc |-> "page", state |-> job.state, cursor |-> job.cursor, rows |-> rows,
               max |-> job.max, ts |-> job.ts, pages |-> job.pages, since |-> job.since]
      BY <1>13
    <2> HIDE DEF a
    <2>2. b = [pc |-> "page", state |-> job.state, cursor |-> job.cursor, rows |-> rows,
               max |-> top, ts |-> job.ts, pages |-> job.pages, since |-> job.since]
      BY <2>1
    <2> HIDE DEF b
    <2>3. c = [pc |-> "page", state |-> job.state, cursor |-> job.cursor, rows |-> rows,
               max |-> top, ts |-> ts, pages |-> job.pages, since |-> job.since]
      BY <2>2
    <2> HIDE DEF c
    <2>4. d = read
      BY <1>25, <2>3
    <2>5. d = [job EXCEPT !.rows = rows, !.max = top, !.ts = ts, !.pages = pages]
      BY DEF a, b, c
    <2> QED BY <2>4, <2>5
  <1>27. PICK next : next = IF new = LgNone \/ pages >= LgMaxPages
                            THEN [pc |-> "commit", state |-> job.state, rows |-> rows, max |-> top, ts |-> ts]
                            ELSE [pc |-> "page", state |-> job.state, cursor |-> new, rows |-> rows,
                                  max |-> top, ts |-> ts, pages |-> pages, since |-> job.since]
    OBVIOUS
  <1>28. lgJob' = [lgJob EXCEPT ![p] = next]
    <2>1. read.pages = pages /\ ToCommit(read) = [pc |-> "commit", state |-> job.state, rows |-> rows,
                                                  max |-> top, ts |-> ts]
      BY <1>25 DEF ToCommit
    <2>2. [read EXCEPT !.cursor = new] = [pc |-> "page", state |-> job.state, cursor |-> new, rows |-> rows,
                                          max |-> top, ts |-> ts, pages |-> pages, since |-> job.since]
      BY <1>25
    <2>3. lgJob' = [lgJob EXCEPT ![p] = IF new = LgNone \/ read.pages >= LgMaxPages
                                        THEN ToCommit(read) ELSE [read EXCEPT !.cursor = new]]
      BY <1>24, <1>26
    <2> QED BY <1>27, <2>1, <2>2, <2>3
  <1>29. PassWhole(next, lgRows, missed, lgFills, lgNow)
    <2>1. next.rows = rows /\ next.max = top /\ next.ts = ts /\ next.pc \in {"page", "commit"}
      BY <1>27
    <2>2. next.pc = "page" =>
              /\ next.cursor = new /\ next.since = job.since
              /\ next = [pc |-> "page", state |-> next.state, cursor |-> next.cursor, rows |-> next.rows,
                         max |-> next.max, ts |-> next.ts, pages |-> next.pages, since |-> next.since]
      BY <1>27
    <2> QED BY <1>13, <1>20, <1>21, <1>22, <1>23, <2>1, <2>2 DEF PassWhole
  <1>30. PassWhole(next, lgRows', lgMissed', lgFills', lgNow')
    BY <1>2, <1>12, <1>29
  <1>31. PassesWhole'
    <2>1. PassesWhole /\ lgNow \in Int /\ lgNow' \in Int /\ lgNow <= lgNow'
      BY <1>1, <1>2 DEF LedgerInv
    <2>2. /\ DOMAIN lgRows \subseteq DOMAIN lgRows' /\ lgMissed \subseteq lgMissed' \cup DOMAIN lgRows'
          /\ DOMAIN lgFills \subseteq DOMAIN lgFills'
      BY <1>2, <1>12, <1>18
    <2> QED BY <1>28, <1>30, <2>1, <2>2, OnePass
  <1>32. FillsInTime'
    BY <1>1, <1>2 DEF FillsInTime
  <1>33. LedgerWhole'
    <2>1. DOMAIN lgRows \cup lgMissed \subseteq DOMAIN lgRows \cup lgMissed'
      BY <1>12, <1>18
    <2>2. Below(DOMAIN lgRows, DOMAIN lgRows \cup lgMissed')
      BY <2>1, BelowWider DEF LedgerInv, LedgerWhole
    <2> QED BY <1>2, <2>2 DEF LedgerInv, LedgerWhole
  <1> QED BY <1>31, <1>32, <1>33 DEF LedgerInv

\* A pass ends: its rows join the ledger, or they are dropped.
LEMMA PassEnds ==
    ASSUME LedgerInv, NEW p \in Passes, NEW job, job = lgJob[p], job.pc # "idle",
           UNCHANGED <<lgFills, lgNow, lgMissed>>, lgJob' = [lgJob EXCEPT ![p] = LgIdle],
           DOMAIN lgRows' \in {DOMAIN lgRows, DOMAIN job.rows \cup DOMAIN lgRows},
           lgState'.ts \in {lgState.ts, job.ts},
           \/ lgState'.id = lgState.id
           \/ lgState'.id = job.max /\ DOMAIN lgRows' = DOMAIN job.rows \cup DOMAIN lgRows
    PROVE  FillsInTime' /\ LedgerWhole' /\ PassesWhole'
  <1>1. lgNow \in Nat
    BY NowTyped DEF LedgerInv
  <1>2. PassWhole(job, lgRows, lgMissed, lgFills, lgNow)
    BY DEF LedgerInv, PassesWhole
  <1>3. /\ DOMAIN job.rows \subseteq DOMAIN lgFills
        /\ Below(DOMAIN job.rows, DOMAIN job.rows \cup DOMAIN lgRows \cup lgMissed)
        /\ CursorIn(job.max, DOMAIN job.rows \cup DOMAIN lgRows) /\ job.ts \in -1..lgNow
    BY <1>2 DEF PassWhole
  <1>4. /\ DOMAIN lgRows \subseteq DOMAIN lgFills /\ Below(DOMAIN lgRows, DOMAIN lgRows \cup lgMissed)
        /\ CursorIn(lgState.id, DOMAIN lgRows) /\ lgState.ts \in -1..lgNow
    BY DEF LedgerInv, LedgerWhole
  <1>5. PICK R : R = DOMAIN lgRows'
    OBVIOUS
  <1>6. DOMAIN lgRows \subseteq R /\ R \subseteq DOMAIN lgFills
    BY <1>3, <1>4, <1>5
  <1>7. Below(R, R \cup lgMissed)
    <2>1. CASE R = DOMAIN lgRows
      BY <1>4, <2>1
    <2>2. CASE R = DOMAIN job.rows \cup DOMAIN lgRows
      BY <1>3, <1>4, <2>2 DEF Below
    <2> QED BY <1>5, <2>1, <2>2
  <1>8. CursorIn(lgState'.id, R)
    <2>1. CursorIn(lgState.id, R)
      BY <1>4, <1>6, CursorWider
    <2> QED BY <1>3, <1>5, <2>1
  <1>9. LedgerWhole'
    BY <1>3, <1>4, <1>5, <1>6, <1>7, <1>8 DEF LedgerWhole
  <1>10. PassesWhole'
    <2>1. PassWhole(LgIdle, lgRows', lgMissed', lgFills', lgNow')
      BY DEF PassWhole, LgIdle
    <2>2. PassesWhole /\ lgNow \in Int /\ lgNow' \in Int /\ lgNow <= lgNow'
      BY <1>1 DEF LedgerInv
    <2>3. /\ DOMAIN lgRows \subseteq DOMAIN lgRows' /\ lgMissed \subseteq lgMissed' \cup DOMAIN lgRows'
          /\ DOMAIN lgFills \subseteq DOMAIN lgFills'
      BY <1>5, <1>6
    <2>4. PICK new : new = LgIdle
      OBVIOUS
    <2>5. lgJob' = [lgJob EXCEPT ![p] = new] /\ PassWhole(new, lgRows', lgMissed', lgFills', lgNow')
      BY <2>1, <2>4
    <2> QED BY <2>2, <2>3, <2>5, OnePass
  <1> QED BY <1>9, <1>10 DEF LedgerInv, FillsInTime

LEMMA EndKeeps ==
    ASSUME LedgerInv, FillsTyped', NEW p \in Passes, CommitPass(p) \/ PassFails(p)
    PROVE  LedgerInv'
  <1>1. PICK job : job = lgJob[p]
    OBVIOUS
  <1>2. /\ job.pc # "idle" /\ UNCHANGED <<lgFills, lgNow, lgMissed>>
        /\ lgJob' = [lgJob EXCEPT ![p] = LgIdle]
    BY <1>1 DEF CommitPass, PassFails
  <1>3. /\ DOMAIN lgRows' \in {DOMAIN lgRows, DOMAIN job.rows \cup DOMAIN lgRows}
        /\ lgState'.ts \in {lgState.ts, job.ts}
        /\ \/ lgState'.id = lgState.id
           \/ lgState'.id = job.max /\ DOMAIN lgRows' = DOMAIN job.rows \cup DOMAIN lgRows
    <2>1. CASE CommitPass(p)
      BY <1>1, <2>1, JoinDomain DEF CommitPass, Changed
    <2>2. CASE PassFails(p)
      BY <1>1, <2>2, JoinDomain DEF PassFails
    <2> QED BY <2>1, <2>2
  <1>4. FillsInTime' /\ LedgerWhole' /\ PassesWhole'
    BY <1>1, <1>2, <1>3, PassEnds
  <1> QED BY <1>4 DEF LedgerInv

LEMMA LedgerKept == LedgerInv /\ [LgNext]_lgVars => LedgerInv'
  <1> SUFFICES ASSUME LedgerInv, [LgNext]_lgVars PROVE LedgerInv'
    OBVIOUS
  <1>1. FillsTyped'
    BY FillsKept DEF LedgerInv
  <1>2. ASSUME NEW kind, NEW way, VenueFill(kind, way) PROVE LedgerInv'
    BY <1>1, <1>2, FillKeeps
  <1>3. CASE LgTick
    BY <1>1, <1>3, TickKeeps
  <1>4. CASE StartTask \/ StartView
    BY <1>1, <1>4, StartKeeps
  <1>5. ASSUME NEW p \in Passes, FetchPage(p) \/ CommitPass(p) \/ PassFails(p) PROVE LedgerInv'
    BY <1>1, <1>5, FetchKeeps, EndKeeps
  <1>6. CASE UNCHANGED <<lgFills, lgNow, lgRows, lgState, lgJob, lgMissed>>
    <2>1. FillsInTime' /\ LedgerWhole' /\ PassesWhole'
      BY <1>6 DEF LedgerInv, FillsInTime, LedgerWhole, PassesWhole
    <2> QED BY <1>1, <2>1 DEF LedgerInv
  <1>7. CASE \E i \in Own \ lgOrders : RecordOrderMetadata(i)
    BY <1>6, <1>7 DEF RecordOrderMetadata
  <1>8. CASE UNCHANGED lgVars
    BY <1>6, <1>8 DEF lgVars
  <1> QED BY <1>2, <1>3, <1>4, <1>5, <1>7, <1>8 DEF LgNext

LEMMA LedgerIsWhole == LedgerInv => LedgerHasNoHoles
  <1> SUFFICES ASSUME LedgerInv, NEW i \in DOMAIN lgFills, NEW j \in DOMAIN lgRows, i < j
               PROVE  i \in DOMAIN lgRows \cup lgMissed
    BY DEF LedgerHasNoHoles
  <1>1. DOMAIN lgFills = 1..Len(lgFills) /\ Len(lgFills) \in Nat
    BY NowTyped DEF LedgerInv
  <1>2. j \in DOMAIN lgFills
    BY DEF LedgerInv, LedgerWhole
  <1>3. i \in 1..j - 1
    BY <1>1, <1>2
  <1> QED BY <1>3 DEF LedgerInv, LedgerWhole, Below

(***************************************************************************)
(* The trade ledger has no hole, whatever the two passes, their retries    *)
(* and their failures, and however trade ids compare as strings: below any *)
(* fill of the ledger every fill is in the ledger, but for those older     *)
(* than the window of a pass that had no cursor.                           *)
(***************************************************************************)
THEOREM LedgerIsContiguous == LgSpec => []LedgerHasNoHoles
  BY LgBegins, LedgerKept, LedgerIsWhole, PTL DEF LgSpec

-----------------------------------------------------------------------------
(* StrategyAlerts: no score of a rolling metric is extreme.                 *)

\* The sum of a sequence, entry by entry.
LEMMA SumSteps ==
    ASSUME NEW s \in Seq(Int)
    PROVE  \E a \in [0..Len(s) -> Int] :
              /\ a[0] = 0 /\ a[Len(s)] = Sum(s)
              /\ \A k \in 1..Len(s) : a[k] = a[k - 1] + s[k]
  <1> DEFINE n == Len(s)
             op == [i \in 1..n |-> [v \in Int |-> v + s[i]]]
             body(g) == [t \in SUBSET (DOMAIN s) |->
                           IF t = {} THEN 0 ELSE g[t \ {Max(t)}] + s[Max(t)]]
             def == CHOOSE g : g = body(g)
  <1>1. n \in Nat /\ DOMAIN s = 1..n
    OBVIOUS
  <1>2. \A i \in 1..n, v \in Int : v + s[i] \in Int
    <2>1. \A i \in 1..n : s[i] \in Int
      OBVIOUS
    <2> HIDE DEF n
    <2> QED BY <2>1
  <1>3. 0 \in Int /\ \A i \in 1..n, v \in Int : op[i][v] = v + s[i] /\ op[i][v] \in Int
    BY <1>2
  <1>4. PICK g \in [SUBSET (1..n) -> Int] : Folds(g, n, 0, op)
    <2> HIDE DEF n, op
    <2> QED BY <1>1, <1>3, SegmentFold
  <1>5. ASSUME NEW t \in SUBSET (1..n), t # {}
        PROVE  Max(t) \in 1..n /\ op[Max(t)][g[t \ {Max(t)}]] = g[t \ {Max(t)}] + s[Max(t)]
    <2>1. Max(t) \in t
      <3> HIDE DEF n
      <3> QED BY <1>1, <1>5, SegmentMax
    <2>2. t \ {Max(t)} \in SUBSET (1..n) /\ Max(t) \in 1..n
      BY <2>1
    <2>3. g[t \ {Max(t)}] \in Int
      BY <1>4, <2>2
    <2> HIDE DEF op, n
    <2> QED BY <1>3, <2>2, <2>3
  <1>6. g = body(g)
    <2>1. g = [t \in SUBSET (1..n) |-> IF t = {} THEN 0 ELSE op[Max(t)][g[t \ {Max(t)}]]]
      BY <1>4 DEF Folds
    <2> HIDE DEF op, n
    <2> QED BY <1>1, <1>5, <2>1
  <1>7. def = body(def)
    <2> HIDE DEF body
    <2> QED BY <1>6
  <1>8. Sum(s) = def[1..n]
    <2>1. Sum(s) = def[DOMAIN s]
      BY DEF FoldLeft, MapThenFoldSet, Sum
    <2> HIDE DEF def, n
    <2> QED BY <1>1, <2>1
  <1>9. PICK d : d = def /\ d = body(d)
    <2> HIDE DEF def, body
    <2> QED BY <1>7
  <1>10. d[1..n] = g[1..n]
    <2>1. d[{}] = g[{}]
      <3>1. d[{}] = 0 /\ g[{}] = 0
        BY <1>6, <1>9
      <3> QED BY <3>1
    <2>2. ASSUME NEW t \in SUBSET (1..n), t # {}, d[t \ {Max(t)}] = g[t \ {Max(t)}]
          PROVE  d[t] = g[t]
      <3>1. d[t] = d[t \ {Max(t)}] + s[Max(t)]
        <4> HIDE DEF def
        <4> QED BY <1>1, <1>9, <2>2
      <3>2. g[t] = g[t \ {Max(t)}] + s[Max(t)]
        BY <1>1, <1>6, <2>2
      <3> QED BY <2>2, <3>1, <3>2
    <2> HIDE DEF n
    <2> QED BY <1>1, <2>1, <2>2, FoldSame
  <1>14. PICK a : Accumulates(a, n, Int, 0, op, g[1..n])
    <2> HIDE DEF n, op
    <2> QED BY <1>1, <1>3, <1>4, FoldSteps
  <1>11. /\ a \in [0..n -> Int] /\ a[0] = 0 /\ a[n] = g[1..n]
         /\ \A k \in 1..n : a[k] = op[k][a[k - 1]]
    BY <1>14 DEF Accumulates
  <1>12. \A k \in 1..n : a[k] = a[k - 1] + s[k]
    <2>1. ASSUME NEW k \in 1..n PROVE a[k - 1] \in Int
      <3>1. k - 1 \in 0..n
        BY <1>1
      <3> HIDE DEF n, op
      <3> QED BY <1>11, <3>1
    <2> HIDE DEF n, op
    <2> QED BY <1>3, <1>11, <2>1
  <1>13. a[n] = Sum(s)
    <2> HIDE DEF n, def
    <2> QED BY <1>8, <1>9, <1>10, <1>11
  <1> QED BY <1>11, <1>12, <1>13


LEMMA SumTyped == ASSUME NEW s \in Seq(Int) PROVE Sum(s) \in Int
  <1>1. PICK a \in [0..Len(s) -> Int] : a[Len(s)] = Sum(s)
    BY SumSteps
  <1>2. Len(s) \in Nat
    OBVIOUS
  <1>3. PICK n \in Nat : n = Len(s)
    BY <1>2
  <1>4. a \in [0..n -> Int] /\ n \in 0..n
    BY <1>1, <1>3
  <1>5. a[n] \in Int
    BY <1>4
  <1> QED BY <1>1, <1>3, <1>5

LEMMA SquaresTyped ==
    ASSUME NEW s \in Seq(Int), NEW n \in Nat, n = Len(s), NEW q, q = Squares(s)
    PROVE  q \in Seq(Int) /\ Len(q) = n /\ \A k \in 1..n : s[k] \in Int /\ q[k] = s[k] * s[k]
  <1>1. DOMAIN s = 1..n /\ \A k \in 1..n : s[k] \in Int
    OBVIOUS
  <1>2. q = [i \in 1..n |-> s[i] * s[i]]
    BY <1>1 DEF Squares
  <1>3. \A k \in 1..n : s[k] * s[k] \in Int
    BY <1>1
  <1>4. q \in [1..n -> Int]
    BY <1>2, <1>3
  <1> QED BY <1>1, <1>2, <1>4

\* (S + x)^2 <= (m + 1) (Q + x^2): Cauchy's inequality with one entry more.
LEMMA CauchyStep ==
    ASSUME NEW m \in Nat, NEW S \in Int, NEW Q \in Nat, NEW x \in Int, S * S <= m * Q
    PROVE  (S + x) * (S + x) <= (m + 1) * (Q + x * x)
  <1>1. CASE m = 0
    <2>1. S * S <= 0
      BY <1>1
    <2>2. S = 0
      BY <2>1
    <2> QED BY <1>1, <2>2
  <1>2. CASE m > 0
    <2>1. m * (Q + m * (x * x) - 2 * (S * x)) = (m * Q - S * S) + (S - m * x) * (S - m * x)
      OBVIOUS
    <2>2. (S - m * x) * (S - m * x) >= 0
      OBVIOUS
    <2>3. m * (Q + m * (x * x) - 2 * (S * x)) >= 0
      BY <2>1, <2>2
    <2>4. Q + m * (x * x) - 2 * (S * x) >= 0
      <3>1. PICK t \in Int : t = Q + m * (x * x) - 2 * (S * x)
        OBVIOUS
      <3>2. m * t >= 0
        BY <2>3, <3>1
      <3>3. t >= 0
        BY <1>2, <3>2
      <3> QED BY <3>1, <3>3
    <2>5. (S + x) * (S + x) = S * S + 2 * (S * x) + x * x
      OBVIOUS
    <2>6. (m + 1) * (Q + x * x) = m * Q + m * (x * x) + Q + x * x
      OBVIOUS
    <2> QED BY <2>4, <2>5, <2>6
  <1> QED BY <1>1, <1>2

\* The last entry x deviates from the mean of m + 1 entries by at most m times
\* their spread.
LEMMA SpreadStep ==
    ASSUME NEW m \in Nat, NEW S \in Int, NEW Q \in Nat, NEW x \in Int, S * S <= m * Q,
           NEW dev \in Int, dev = (m + 1) * x - (S + x),
           NEW D \in Int, D = (m + 1) * (Q + x * x) - (S + x) * (S + x)
    PROVE  dev * dev <= m * D
  <1>1. dev = m * x - S
    OBVIOUS
  <1>2. m * D - dev * dev = (m + 1) * (m * Q - S * S)
    BY <1>1
  <1>3. (m + 1) * (m * Q - S * S) >= 0
    OBVIOUS
  <1>4. PICK e \in Int : e = m * D
    OBVIOUS
  <1> QED BY <1>2, <1>3, <1>4

LEMMA SquareOnTop ==
    ASSUME NEW d \in Nat, NEW x \in Int
    PROVE  d + x * x >= 0
  <1>1. PICK y \in Int : y = x * x
    OBVIOUS
  <1>2. y >= 0
    BY <1>1
  <1>3. d + y >= 0
    BY <1>2
  <1> QED BY <1>1, <1>3

\* Cauchy's inequality for any sequence, and its last entry.
LEMMA Spread ==
    ASSUME NEW s \in Seq(Int), NEW n \in Nat, n = Len(s), n >= 1,
           NEW S \in Int, S = Sum(s), NEW Q \in Int, Q = Sum(Squares(s)),
           NEW dev \in Int, dev = n * s[n] - S, NEW D \in Int, D = n * Q - S * S
    PROVE  dev * dev <= (n - 1) * D
  <1>1. PICK q : q = Squares(s)
    OBVIOUS
  <1>2. q \in Seq(Int) /\ Len(q) = n /\ \A k \in 1..n : s[k] \in Int /\ q[k] = s[k] * s[k]
    BY <1>1, SquaresTyped
  <1>3. PICK a \in [0..n -> Int] : a[0] = 0 /\ a[n] = S /\ \A k \in 1..n : a[k] = a[k - 1] + s[k]
    <2>1. PICK a \in [0..Len(s) -> Int] : a[0] = 0 /\ a[Len(s)] = Sum(s)
                                          /\ \A k \in 1..Len(s) : a[k] = a[k - 1] + s[k]
      BY SumSteps
    <2> QED BY <2>1
  <1>4. PICK b \in [0..n -> Int] : b[0] = 0 /\ b[n] = Q /\ \A k \in 1..n : b[k] = b[k - 1] + q[k]
    <2>1. PICK b \in [0..Len(q) -> Int] : b[0] = 0 /\ b[Len(q)] = Sum(q)
                                          /\ \A k \in 1..Len(q) : b[k] = b[k - 1] + q[k]
      BY <1>2, SumSteps
    <2> QED BY <1>1, <1>2, <2>1
  <1> DEFINE Good == {k \in 0..n : b[k] >= 0 /\ a[k] * a[k] <= k * b[k]}
  <1>5. 0 \in Good
    <2>1. 0 \in 0..n /\ b[0] >= 0 /\ 0 * b[0] = 0 /\ a[0] * a[0] = 0
      BY <1>3, <1>4
    <2> QED BY <2>1
  <1>6. ASSUME NEW k \in 1..n, k - 1 \in Good PROVE k \in Good
    <2>1. k \in 0..n /\ k - 1 \in 0..n
      OBVIOUS
    <2>2. PICK m \in Nat : m = k - 1
      <3>1. k - 1 \in Nat
        BY <2>1
      <3> QED BY <3>1
    <2>3. PICK x \in Int : x = s[k]
      BY <1>2
    <2>4. PICK c \in Int : c = a[k - 1]
      BY <1>3, <2>1
    <2>5. b[k - 1] \in Int /\ b[k - 1] >= 0 /\ a[k - 1] * a[k - 1] <= (k - 1) * b[k - 1]
      BY <1>4, <1>6, <2>1
    <2>6. PICK d \in Nat : d = b[k - 1]
      <3>1. b[k - 1] \in Nat
        BY <2>5
      <3> QED BY <3>1
    <2>7. c * c <= m * d
      BY <2>2, <2>4, <2>5, <2>6
    <2>8. (c + x) * (c + x) <= (m + 1) * (d + x * x)
      BY <2>7, CauchyStep
    <2>9. a[k] = c + x
      BY <1>3, <2>3, <2>4
    <2>10. b[k] = d + x * x
      BY <1>2, <1>4, <2>3, <2>6
    <2>11. k = m + 1
      BY <2>2
    <2>12. d + x * x >= 0
      BY SquareOnTop
    <2> QED BY <2>1, <2>8, <2>9, <2>10, <2>11, <2>12
  <1>7. 0..n \subseteq Good
    <2> HIDE DEF Good
    <2> QED BY <1>5, <1>6, UpTo
  <1>8. n - 1 \in 0..n /\ n \in 1..n
    OBVIOUS
  <1>9. n - 1 \in Good
    <2> HIDE DEF Good
    <2> QED BY <1>7, <1>8
  <1>10. PICK m \in Nat : m = n - 1
    <2>1. n - 1 \in Nat
      OBVIOUS
    <2> QED BY <2>1
  <1>11. PICK x \in Int : x = s[n]
    BY <1>2, <1>8
  <1>12. PICK c \in Int : c = a[n - 1]
    BY <1>3, <1>8
  <1>13. b[n - 1] \in Int /\ b[n - 1] >= 0 /\ a[n - 1] * a[n - 1] <= (n - 1) * b[n - 1]
    BY <1>4, <1>8, <1>9
  <1>14. PICK d \in Nat : d = b[n - 1]
    <2>1. b[n - 1] \in Nat
      BY <1>13
    <2> QED BY <2>1
  <1>15. c * c <= m * d
    BY <1>10, <1>12, <1>13, <1>14
  <1>16. S = c + x
    BY <1>3, <1>8, <1>11, <1>12
  <1>17. Q = d + x * x
    BY <1>2, <1>4, <1>8, <1>11, <1>14
  <1>18. n = m + 1
    BY <1>10
  <1>19. dev = (m + 1) * x - (c + x)
    BY <1>11, <1>16, <1>18
  <1>20. D = (m + 1) * (d + x * x) - (c + x) * (c + x)
    BY <1>16, <1>17, <1>18
  <1>21. dev * dev <= m * D
    BY <1>15, <1>19, <1>20, SpreadStep
  <1> QED BY <1>10, <1>21

\* The score of the last entry of a full window.
LEMMA RollingIsMild ==
    ASSUME NEW s \in Seq(Int), NEW w \in Nat, w = AlWindow, w >= 1, NEW z, z = RollingZ(s)
    PROVE  /\ z.den \in Int /\ z.sq \in Int /\ z.dev \in Int
           /\ z.den > 0 => Len(s) >= w /\ z.sq * w <= (w - 1) * (w - 1) * z.den
  <1>1. PICK l \in Nat : l = Len(s)
    <2>1. Len(s) \in Nat
      OBVIOUS
    <2> QED BY <2>1
  <1>2. CASE l < w
    BY <1>1, <1>2 DEF RollingZ
  <1>3. CASE l >= w
    <2>1. PICK t : t = LastOf(s, AlWindow)
      OBVIOUS
    <2>2. t \in Seq(Int) /\ Len(t) = w /\ t[w] = s[l] /\ s[l] \in Int
      BY <1>1, <1>3, <2>1 DEF LastOf
    <2>3. PICK S \in Int : S = Sum(t)
      BY <2>2, SumTyped
    <2>4. Squares(t) \in Seq(Int)
      BY <2>2, SquaresTyped
    <2>5. PICK Q \in Int : Q = Sum(Squares(t))
      BY <2>4, SumTyped
    <2>6. PICK x \in Int : x = s[l]
      BY <2>2
    <2>7. PICK dev \in Int : dev = w * x - S
      OBVIOUS
    <2>8. PICK D \in Int : D = w * Q - S * S
      OBVIOUS
    <2>9. dev * dev <= (w - 1) * D
      BY <2>2, <2>3, <2>5, <2>6, <2>7, <2>8, Spread
    <2>10. z = [dev |-> dev, sq |-> dev * dev * (w - 1), den |-> w * D]
      BY <1>1, <1>3, <2>1, <2>2, <2>3, <2>5, <2>6, <2>7, <2>8 DEF RollingZ, ZScore
    <2>11. z.dev = dev /\ z.sq = dev * dev * (w - 1) /\ z.den = w * D
      BY <2>10
    <2>12. (dev * dev * (w - 1)) * w <= (w - 1) * (w - 1) * (w * D)
      <3>1. PICK u \in Nat : u = (w - 1) * w
        OBVIOUS
      <3>2. PICK e \in Int : e = dev * dev
        OBVIOUS
      <3>3. PICK g \in Int : g = (w - 1) * D
        OBVIOUS
      <3>4. e * u <= g * u
        BY <2>9, <3>2, <3>3
      <3>5. (dev * dev * (w - 1)) * w = e * u /\ (w - 1) * (w - 1) * (w * D) = g * u
        BY <3>1, <3>2, <3>3
      <3> QED BY <3>4, <3>5
    <2> QED BY <1>1, <1>3, <2>11, <2>12
  <1> QED BY <1>1, <1>2, <1>3


\* What keeps the series of the detectors sequences of integers.
AlShape == alTrades \in Seq([pnl : Int, day : Nat]) /\ alNow \in Nat

LEMMA AlShapeHolds == AlSpec => []AlShape
  <1>1. AlInit => AlShape
    BY DEF AlInit, AlShape
  <1>2. AlShape /\ [AlNext]_alVars => AlShape'
    <2> SUFFICES ASSUME AlShape, [AlNext]_alVars PROVE AlShape'
      OBVIOUS
    <2>1. ASSUME NEW pnl \in AlPnls, CloseTrade(pnl) PROVE AlShape'
      <3>1. [pnl |-> pnl, day |-> alNow] \in [pnl : Int, day : Nat]
        BY AlertsAssumption DEF AlShape
      <3> QED BY <2>1, <3>1 DEF AlShape, CloseTrade
    <2>2. CASE AnalysisCompletes
      BY <2>2 DEF AlShape, AnalysisCompletes
    <2>3. CASE AlTick
      BY <2>3 DEF AlShape, AlTick
    <2>4. CASE SweepStrategyAnomalies \/ SweepPromotionGates
      BY <2>4 DEF AlShape, SweepStrategyAnomalies, SweepPromotionGates, SweepFinds
    <2>5. ASSUME NEW ok \in BOOLEAN, SweepEmits(ok) PROVE AlShape'
      BY <2>5 DEF AlShape, SweepEmits
    <2>6. CASE SweepAgentFreshness
      BY <2>6 DEF AlShape, SweepAgentFreshness
    <2>7. CASE UNCHANGED alVars
      BY <2>7 DEF AlShape, alVars
    <2> QED BY <2>1, <2>2, <2>3, <2>4, <2>5, <2>6, <2>7 DEF AlNext
  <1> QED BY <1>1, <1>2, PTL DEF AlSpec

LEMMA PnlsTyped ==
    ASSUME AlShape
    PROVE  Pnls \in Seq(Int) /\ Len(Pnls) = Len(alTrades)
  <1>1. PICK n \in Nat : n = Len(alTrades)
    <2>1. Len(alTrades) \in Nat
      BY DEF AlShape
    <2> QED BY <2>1
  <1>2. DOMAIN alTrades = 1..n /\ \A i \in 1..n : alTrades[i] \in [pnl : Int, day : Nat]
    <2>1. PICK R : R = [pnl : Int, day : Nat]
      OBVIOUS
    <2>2. PICK t \in Seq(R) : t = alTrades
      BY <2>1 DEF AlShape
    <2>3. DOMAIN t = 1..n /\ \A i \in 1..n : t[i] \in R
      BY <1>1, <2>2
    <2> QED BY <2>1, <2>2, <2>3
  <1>3. \A i \in 1..n : alTrades[i].pnl \in Int
    BY <1>2
  <1>4. Pnls = [i \in 1..n |-> alTrades[i].pnl]
    BY <1>2 DEF Pnls
  <1>5. Pnls \in [1..n -> Int]
    BY <1>3, <1>4
  <1> QED BY <1>1, <1>4, <1>5

\* The running sums of a sequence.
LEMMA EquityTyped ==
    ASSUME NEW s \in Seq(Int), NEW n \in Nat, n = Len(s), NEW e, e = Equity(s)
    PROVE  e \in [1..n -> Int]
  <1>1. DOMAIN s = 1..n
    OBVIOUS
  <1>2. ASSUME NEW i \in 1..n PROVE Sum(SubSeq(s, 1, i)) \in Int
    <2>1. PICK t : t = SubSeq(s, 1, i)
      OBVIOUS
    <2>2. t \in Seq(Int)
      BY <2>1
    <2> QED BY <2>1, <2>2, SumTyped
  <1>3. e = [i \in 1..n |-> Sum(SubSeq(s, 1, i))]
    BY <1>1 DEF Equity
  <1> QED BY <1>2, <1>3

\* The values of e up to i.
UpToHere(e, i) == {e[j] : j \in 1..i}

LEMMA UpToHereMax ==
    ASSUME NEW n \in Nat, NEW e \in [1..n -> Int], NEW i \in 1..n
    PROVE  Max(UpToHere(e, i)) \in Int
  <1>1. PICK W : W = UpToHere(e, i)
    OBVIOUS
  <1>2. IsFiniteSet(W)
    <2>1. IsFiniteSet(1..i)
      BY FS_Interval
    <2>2. [j \in 1..i |-> e[j]] \in Surjection(1..i, W)
      BY <1>1 DEF Surjection, UpToHere
    <2> QED BY <2>1, <2>2, FS_Surjection
  <1>3. W \subseteq Int /\ e[i] \in W
    BY <1>1 DEF UpToHere
  <1>4. Max(W) \in W
    BY <1>2, <1>3, MaxIs
  <1> QED BY <1>1, <1>3, <1>4

LEMMA DrawdownTyped ==
    ASSUME NEW s \in Seq(Int), NEW n \in Nat, n = Len(s), NEW d, d = Drawdown(s)
    PROVE  d \in [1..n -> Int]
  <1>1. PICK e : e = Equity(s)
    OBVIOUS
  <1>2. e \in [1..n -> Int]
    BY <1>1, EquityTyped
  <1>3. DOMAIN s = 1..n
    OBVIOUS
  <1>4. d = [i \in 1..n |-> Max(UpToHere(e, i)) - e[i]]
    BY <1>1, <1>3 DEF Drawdown, UpToHere
  <1>5. ASSUME NEW i \in 1..n PROVE Max(UpToHere(e, i)) - e[i] \in Int
    <2>1. Max(UpToHere(e, i)) \in Int /\ e[i] \in Int
      BY <1>2, UpToHereMax
    <2> QED BY <2>1
  <1> QED BY <1>4, <1>5

LEMMA VelocityTyped ==
    ASSUME NEW s \in Seq(Int), NEW n \in Nat, n = Len(s), n >= 1
    PROVE  Velocity(s) \in Seq(Int) /\ Len(Velocity(s)) = n - 1
  <1>1. PICK d : d = Drawdown(s)
    OBVIOUS
  <1>2. d \in [1..n -> Int]
    BY <1>1, DrawdownTyped
  <1>3. PICK m \in Nat : m = n - 1
    <2>1. n - 1 \in Nat
      OBVIOUS
    <2> QED BY <2>1
  <1>4. Velocity(s) = [i \in 1..m |-> d[i + 1] - d[i]]
    BY <1>1, <1>3 DEF Velocity
  <1>5. ASSUME NEW i \in 1..m PROVE d[i + 1] - d[i] \in Int
    <2>1. i \in 1..n /\ i + 1 \in 1..n
      BY <1>3
    <2>2. d[i] \in Int /\ d[i + 1] \in Int
      BY <1>2, <2>1
    <2> QED BY <2>2
  <1>6. PICK v \in [1..m -> Int] : v = Velocity(s)
    <2>1. [i \in 1..m |-> d[i + 1] - d[i]] \in [1..m -> Int]
      BY <1>5
    <2> QED BY <1>4, <2>1
  <1>7. v \in Seq(Int) /\ Len(v) = m
    BY <1>6
  <1> QED BY <1>3, <1>6, <1>7

\* Of an empty history the velocity has no entries either.
LEMMA VelocityOfNothing ==
    ASSUME NEW s \in Seq(Int), Len(s) = 0
    PROVE  Velocity(s) \in Seq(Int) /\ Len(Velocity(s)) = 0
  <1>1. 1..(Len(s) - 1) = {}
    OBVIOUS
  <1>2. Velocity(s) = [i \in {} |-> Drawdown(s)[i + 1] - Drawdown(s)[i]]
    BY <1>1 DEF Velocity
  <1>3. Velocity(s) = <<>>
    BY <1>2
  <1> QED BY <1>3

\* A metric whose score is mild is reported as a warning, and only with a full
\* window behind it.
LEMMA RollingEarned ==
    ASSUME NEW s \in Seq(Int), NEW metric, NEW fires, NEW f,
           NEW z, z = RollingZ(s), fires => z.den > 0, f \in Findings(metric, z, fires)
    PROVE  /\ f[1] = metric /\ Len(s) >= AlWindow
           /\ 9 * AlZ * AlZ * AlWindow > 400 * (AlWindow - 1) * (AlWindow - 1) => f[2] = "warning"
  <1>1. fires /\ f = <<metric, Severity(z)>>
    BY DEF Findings
  <1>2. PICK w \in Nat : w = AlWindow /\ w >= 1
    BY AlertsAssumption
  <1>3. PICK k \in Nat : k = AlZ
    BY AlertsAssumption
  <1>4. z.den \in Int /\ z.sq \in Int /\ z.den > 0 /\ Len(s) >= w
        /\ z.sq * w <= (w - 1) * (w - 1) * z.den
    BY <1>1, <1>2, RollingIsMild
  <1>5. ASSUME 9 * k * k * w > 400 * (w - 1) * (w - 1) PROVE Severity(z) = "warning"
    <2>1. SUFFICES ASSUME BeyondBand(z, 3 * AlZ, 20) PROVE FALSE
      BY DEF Severity
    <2>2. PICK q \in Int : q = z.sq
      BY <1>4
    <2>3. PICK d \in Int : d = z.den /\ d > 0
      BY <1>4
    <2>4. q * 20 * 20 >= (3 * k) * (3 * k) * d
      BY <1>3, <2>1, <2>2, <2>3 DEF BeyondBand
    <2>5. q * w <= (w - 1) * (w - 1) * d
      BY <1>4, <2>2, <2>3
    <2>6. q * 400 >= (9 * k * k) * d
      BY <2>4
    <2>7. (q * 400) * w >= ((9 * k * k) * d) * w
      BY <2>6
    <2>8. 400 * (q * w) <= 400 * ((w - 1) * (w - 1) * d)
      BY <2>5
    <2>9. (400 * (w - 1) * (w - 1)) * d >= (9 * k * k * w) * d
      BY <2>7, <2>8
    <2>10. (9 * k * k * w) * d > (400 * (w - 1) * (w - 1)) * d
      <3>1. PICK u \in Int : u = 9 * k * k * w
        OBVIOUS
      <3>2. PICK v \in Int : v = 400 * (w - 1) * (w - 1)
        OBVIOUS
      <3>3. u > v
        BY <1>5, <3>1, <3>2
      <3>4. (u - v) * d > 0
        BY <2>3, <3>3
      <3>5. u * d > v * d
        BY <3>4
      <3> QED BY <3>1, <3>2, <3>5
    <2> QED BY <2>9, <2>10
  <1> QED BY <1>1, <1>2, <1>3, <1>4, <1>5

LEMMA AlertsEarnedHere ==
    ASSUME AlShape
    PROVE  AlertsAreEarned
  <1> SUFFICES ASSUME NEW f \in DetectAnomalies
               PROVE  /\ f[1] # "frequency" => Len(alTrades) >= AlWindow
                      /\ (f[1] \in {"pnl", "drawdown"}
                          /\ 9 * AlZ * AlZ * AlWindow > 400 * (AlWindow - 1) * (AlWindow - 1))
                         => f[2] = "warning"
    BY DEF AlertsAreEarned
  <1>1. PICK p \in Seq(Int) : p = Pnls /\ Len(p) = Len(alTrades)
    BY PnlsTyped
  <1>2. PICK n \in Nat : n = Len(p)
    <2>1. Len(p) \in Nat
      OBVIOUS
    <2> QED BY <2>1
  <1>3. AlWindow \in Nat /\ AlWindow >= 1
    BY AlertsAssumption
  <1>4. CASE f \in DetectPnl(Pnls)
    <2>1. PICK z : z = RollingZ(p)
      OBVIOUS
    <2>2. f \in Findings("pnl", z, BeyondBand(z, AlZ, 10))
      BY <1>1, <1>4, <2>1 DEF DetectPnl
    <2>3. BeyondBand(z, AlZ, 10) => z.den > 0
      BY DEF BeyondBand
    <2>4. Len(p) >= AlWindow
          /\ (9 * AlZ * AlZ * AlWindow > 400 * (AlWindow - 1) * (AlWindow - 1) => f[2] = "warning")
      BY <2>1, <2>2, <2>3, RollingEarned
    <2> QED BY <1>1, <2>4
  <1>5. CASE f \in DetectDrawdownVelocity(Pnls)
    <2>0. PICK v : v = Velocity(p)
      OBVIOUS
    <2>1. PICK z : z = RollingZ(v)
      OBVIOUS
    <2>7. PICK g : g = (z.dev > 0 /\ BeyondBand(z, AlZ, 10))
      OBVIOUS
    <2>2. f \in Findings("drawdown", z, g)
      BY <1>1, <1>5, <2>0, <2>1, <2>7 DEF DetectDrawdownVelocity
    <2>3. g => z.den > 0
      BY <2>7 DEF BeyondBand
    <2>4. v \in Seq(Int) /\ Len(v) <= n
      <3>1. CASE n = 0
        <4>1. Len(p) = 0
          BY <1>2, <3>1
        <4>2. Velocity(p) \in Seq(Int) /\ Len(Velocity(p)) = 0
          BY <4>1, VelocityOfNothing
        <4> QED BY <2>0, <3>1, <4>2
      <3>2. CASE n >= 1
        <4>1. Velocity(p) \in Seq(Int) /\ Len(Velocity(p)) = n - 1
          BY <1>2, <3>2, VelocityTyped
        <4>2. n - 1 <= n
          OBVIOUS
        <4> QED BY <2>0, <4>1, <4>2
      <3> QED BY <3>1, <3>2
    <2>5. Len(v) >= AlWindow
          /\ (9 * AlZ * AlZ * AlWindow > 400 * (AlWindow - 1) * (AlWindow - 1) => f[2] = "warning")
      BY <2>1, <2>2, <2>3, <2>4, RollingEarned
    <2>6. Len(v) \in Nat
      BY <2>4
    <2> QED BY <1>1, <1>2, <1>3, <2>4, <2>5, <2>6
  <1>6. CASE f \in DetectWinRateCollapse(Pnls)
    <2>1. ~(Len(p) < AlWindow + 1)
      BY <1>1, <1>6 DEF DetectWinRateCollapse
    <2>2. f[1] = "win_rate"
      BY <1>6 DEF DetectWinRateCollapse, Findings
    <2> QED BY <1>1, <1>2, <1>3, <2>1, <2>2
  <1>7. CASE f \in DetectTradeFrequency(BucketCounts)
    <2>1. f[1] = "frequency"
      BY <1>7 DEF DetectTradeFrequency, Findings
    <2> QED BY <2>1
  <1> QED BY <1>4, <1>5, <1>6, <1>7 DEF DetectAnomalies

\* An alert is earned, in any history of trades and for every window and
\* threshold: a metric over the trades needs a full window, and a rolling metric
\* is never critical under a threshold that its own window cannot reach.
THEOREM AlertsEarned == AlSpec => []AlertsAreEarned
  <1>1. AlShape => AlertsAreEarned
    BY AlertsEarnedHere
  <1> QED BY <1>1, AlShapeHolds, PTL

-----------------------------------------------------------------------------
(* The ladder: the platform's instance of PositionTracking is an instance of *)
(* its proofs, so the theorem about calm ladders is one about it.            *)

LP == INSTANCE PositionTrackingProofs WITH
    Close <- <<2, 1, 1>>, Original <- 4,
    Deliveries <- {<<"o", "p">>, <<"o", "o", "p">>}, Addressed <- BOOLEAN,
    Faults <- {}, ManualCuts <- {}, MaxManual <- 1, MaxLosses <- 0, MaxInbox <- 3

\* What the state machine does.
LEMMA SameMachine ==
    /\ \A m, t : Ladder!CanTransition(m, t) <=> LP!CanTransition(m, t)
    /\ \A m, t : Ladder!Transition(m, t) = LP!Transition(m, t)
    /\ \A m, t : Ladder!TryTransition(m, t) = LP!TryTransition(m, t)
    /\ \A m : Ladder!AllClosed(m) = LP!AllClosed(m)
    /\ \A m : Ladder!PartialClose(m) = LP!PartialClose(m)
    /\ \A m, t, target : Ladder!ForcedTransition(m, t, target) = LP!ForcedTransition(m, t, target)
    /\ \A m, q : Ladder!Synced(m, q) = LP!Synced(m, q)
  <1>1. \A m, t : Ladder!CanTransition(m, t) <=> LP!CanTransition(m, t)
    BY DEF Ladder!PositionStates, LP!PositionStates, Ladder!From, LP!From,
           Ladder!VALID_TRANSITIONS, LP!VALID_TRANSITIONS, Ladder!CanTransition, LP!CanTransition
  <1>2. \A m, t : Ladder!Transition(m, t) = LP!Transition(m, t)
    BY DEF Ladder!PositionStates, LP!PositionStates, Ladder!NoSavedState, LP!NoSavedState,
           Ladder!From, LP!From, Ladder!VALID_TRANSITIONS, LP!VALID_TRANSITIONS,
           Ladder!Transition, LP!Transition
  <1>3. \A m, t : Ladder!TryTransition(m, t) = LP!TryTransition(m, t)
    BY <1>1, <1>2 DEF Ladder!TryTransition, LP!TryTransition
  <1>4. \A m, t, target : Ladder!ForcedTransition(m, t, target) = LP!ForcedTransition(m, t, target)
    BY <1>1, <1>2 DEF Ladder!ForcedTransition, LP!ForcedTransition
  <1>5. \A m, q : Ladder!Synced(m, q) = LP!Synced(m, q)
    BY <1>4 DEF Ladder!Synced, LP!Synced, Ladder!Reopened, LP!Reopened
  <1>6. \A m : Ladder!AllClosed(m) = LP!AllClosed(m) /\ Ladder!PartialClose(m) = LP!PartialClose(m)
    BY <1>1, <1>2, <1>3 DEF Ladder!AllClosed, LP!AllClosed, Ladder!PartialClose, LP!PartialClose
  <1> QED BY <1>1, <1>2, <1>3, <1>4, <1>5, <1>6

\* What the exchange sends.
LEMMA SameMessages ==
    /\ \A m : Ladder!Emit(m) <=> LP!Emit(m)
    /\ \A t, l, q : Ladder!FillEvents(t, l, q) = LP!FillEvents(t, l, q)
  <1>1. \A m : Ladder!Emit(m) <=> LP!Emit(m)
    BY DEF Ladder!Emit, LP!Emit
  <1>2. \A t, l, q : Ladder!FillEvents(t, l, q) = LP!FillEvents(t, l, q)
    BY DEF Ladder!FillEvents, LP!FillEvents, Ladder!OrderEvent, LP!OrderEvent,
           Ladder!PositionEvent, LP!PositionEvent
  <1> QED BY <1>1, <1>2

\* What the exchange does.
LEMMA SameFills ==
    /\ \A l : Ladder!FillTp(l) <=> LP!FillTp(l)
    /\ Ladder!FillSl <=> LP!FillSl
    /\ Ladder!ManualClose <=> LP!ManualClose
    /\ Ladder!StopVanishes <=> LP!StopVanishes
  <1>1. \A l : Ladder!FillTp(l) <=> LP!FillTp(l)
    BY SameMessages
       DEF Ladder!context, LP!context, Ladder!queue, LP!queue, Ladder!env, LP!env, Ladder!FillTp,
           LP!FillTp
  <1>2. Ladder!FillSl <=> LP!FillSl
    BY SameMessages
       DEF Ladder!context, LP!context, Ladder!queue, LP!queue, Ladder!env, LP!env, Ladder!FillSl,
           LP!FillSl
  <1>3. Ladder!ManualClose <=> LP!ManualClose
    BY SameMessages
       DEF Ladder!context, LP!context, Ladder!queue, LP!queue, Ladder!PositionEvent,
           LP!PositionEvent, Ladder!ManualClose, LP!ManualClose
  <1>4. Ladder!StopVanishes <=> LP!StopVanishes
    BY DEF Ladder!link, LP!link, Ladder!queue, LP!queue, Ladder!env, LP!env, Ladder!StopVanishes,
           LP!StopVanishes
  <1> QED BY <1>1, <1>2, <1>3, <1>4

\* What the stream's handlers do.
LEMMA SameStream ==
    /\ Ladder!SuppressOrderUpdate <=> LP!SuppressOrderUpdate
    /\ Ladder!TpEvent <=> LP!TpEvent
    /\ Ladder!SingleTpEvent <=> LP!SingleTpEvent
    /\ Ladder!SlEvent <=> LP!SlEvent
    /\ Ladder!PositionFlat <=> LP!PositionFlat
    /\ Ladder!PositionResized <=> LP!PositionResized
  <1>1. Ladder!SuppressOrderUpdate <=> LP!SuppressOrderUpdate
    BY DEF Ladder!exchange, LP!exchange, Ladder!context, LP!context, Ladder!env, LP!env,
           Ladder!Idle, LP!Idle, Ladder!Receive, LP!Receive, Ladder!Ignore, LP!Ignore,
           Ladder!SuppressOrderUpdate, LP!SuppressOrderUpdate
  <1>2. Ladder!TpEvent <=> LP!TpEvent
    BY DEF Ladder!N, LP!N, Ladder!Levels, LP!Levels, Ladder!exchange, LP!exchange, Ladder!context,
           LP!context, Ladder!env, LP!env, Ladder!Idle, LP!Idle, Ladder!Duplicate, LP!Duplicate,
           Ladder!CloseQty, LP!CloseQty, Ladder!Cut, LP!Cut, Ladder!EngineBook, LP!EngineBook,
           Ladder!Purged, LP!Purged, Ladder!Cleanup, LP!Cleanup, Ladder!Receive, LP!Receive,
           Ladder!Ignore, LP!Ignore, Ladder!Matches, LP!Matches, Ladder!MatchesTriggered,
           LP!MatchesTriggered, Ladder!TpEvent, LP!TpEvent
  <1>3. Ladder!SingleTpEvent <=> LP!SingleTpEvent
    BY SameMachine
       DEF Ladder!N, LP!N, Ladder!exchange, LP!exchange, Ladder!context, LP!context, Ladder!env,
           LP!env, Ladder!Idle, LP!Idle, Ladder!MayFail, LP!MayFail, Ladder!AttemptStateSync,
           LP!AttemptStateSync, Ladder!Purged, LP!Purged, Ladder!Cleanup, LP!Cleanup,
           Ladder!Receive, LP!Receive, Ladder!Ignore, LP!Ignore, Ladder!ClosePosition,
           LP!ClosePosition, Ladder!Gone, LP!Gone, Ladder!SingleTpEvent, LP!SingleTpEvent
  <1>4. Ladder!SlEvent <=> LP!SlEvent
    BY SameMachine
       DEF Ladder!exchange, LP!exchange, Ladder!context, LP!context, Ladder!env, LP!env,
           Ladder!Idle, LP!Idle, Ladder!MayFail, LP!MayFail, Ladder!AttemptStateSync,
           LP!AttemptStateSync, Ladder!Purged, LP!Purged, Ladder!Cleanup, LP!Cleanup,
           Ladder!Receive, LP!Receive, Ladder!Ignore, LP!Ignore, Ladder!ClosePosition,
           LP!ClosePosition, Ladder!Gone, LP!Gone, Ladder!SlEvent, LP!SlEvent
  <1>5. Ladder!PositionFlat <=> LP!PositionFlat
    BY SameMachine
       DEF Ladder!exchange, LP!exchange, Ladder!context, LP!context, Ladder!env, LP!env,
           Ladder!Idle, LP!Idle, Ladder!MayFail, LP!MayFail, Ladder!AttemptStateSync,
           LP!AttemptStateSync, Ladder!Purged, LP!Purged, Ladder!Cleanup, LP!Cleanup,
           Ladder!Receive, LP!Receive, Ladder!Ignore, LP!Ignore, Ladder!ClosePosition,
           LP!ClosePosition, Ladder!Gone, LP!Gone, Ladder!IsFlat, LP!IsFlat, Ladder!PositionFlat,
           LP!PositionFlat
  <1>6. Ladder!PositionResized <=> LP!PositionResized
    BY DEF Ladder!N, LP!N, Ladder!exchange, LP!exchange, Ladder!env, LP!env, Ladder!Idle, LP!Idle,
           Ladder!Receive, LP!Receive, Ladder!IsFlat, LP!IsFlat, Ladder!PositionResized,
           LP!PositionResized
  <1> QED BY <1>1, <1>2, <1>3, <1>4, <1>5, <1>6

\* What the engine, its clean-up and the reconciler do.
LEMMA SameEngine ==
    /\ Ladder!EngineFinish <=> LP!EngineFinish
    /\ Ladder!CancelRemainingOrders <=> LP!CancelRemainingOrders
    /\ Ladder!ReconcilePartialClose <=> LP!ReconcilePartialClose
  <1>1. Ladder!EngineFinish <=> LP!EngineFinish
    BY SameMachine
       DEF Ladder!N, LP!N, Ladder!Levels, LP!Levels, Ladder!exchange, LP!exchange, Ladder!link,
           LP!link, Ladder!env, LP!env, Ladder!Task, LP!Task, Ladder!Idle, LP!Idle,
           Ladder!Remaining, LP!Remaining, Ladder!Purged, LP!Purged, Ladder!Cleanup, LP!Cleanup,
           Ladder!EngineFinish, LP!EngineFinish
  <1>2. Ladder!CancelRemainingOrders <=> LP!CancelRemainingOrders
    BY DEF Ladder!N, LP!N, Ladder!Levels, LP!Levels, Ladder!link, LP!link, Ladder!queue, LP!queue,
           Ladder!env, LP!env, Ladder!StopKinds, LP!StopKinds, Ladder!Idle, LP!Idle,
           Ladder!MayFail, LP!MayFail, Ladder!FetchedTp, LP!FetchedTp,
           Ladder!CancelRemainingOrders, LP!CancelRemainingOrders
  <1>3. Ladder!ReconcilePartialClose <=> LP!ReconcilePartialClose
    BY DEF Ladder!N, LP!N, Ladder!Levels, LP!Levels, Ladder!exchange, LP!exchange, Ladder!link,
           LP!link, Ladder!context, LP!context, Ladder!queue, LP!queue, Ladder!env, LP!env,
           Ladder!Idle, LP!Idle, Ladder!Duplicate, LP!Duplicate, Ladder!CloseQty, LP!CloseQty,
           Ladder!Cut, LP!Cut, Ladder!EngineBook, LP!EngineBook, Ladder!ClosestOpenLevel,
           LP!ClosestOpenLevel, Ladder!Restored, LP!Restored, Ladder!ReconcilePartialClose,
           LP!ReconcilePartialClose
  <1> QED BY <1>1, <1>2, <1>3

\* What the queue's worker does.
LEMMA SameWorker ==
    /\ Ladder!StartTask <=> LP!StartTask
    /\ Ladder!ExecuteTask <=> LP!ExecuteTask
    /\ Ladder!RunCallback <=> LP!RunCallback
  <1>1. Ladder!StartTask <=> LP!StartTask
    BY DEF Ladder!exchange, LP!exchange, Ladder!link, LP!link, Ladder!context, LP!context,
           Ladder!env, LP!env, Ladder!Task, LP!Task, Ladder!NoTask, LP!NoTask, Ladder!Rank,
           LP!Rank, Ladder!StartTask, LP!StartTask
  <1>2. Ladder!ExecuteTask <=> LP!ExecuteTask
    BY SameMessages
       DEF Ladder!exchange, LP!exchange, Ladder!link, LP!link, Ladder!env, LP!env, Ladder!Task,
           LP!Task, Ladder!NoTask, LP!NoTask, Ladder!StopKinds, LP!StopKinds,
           Ladder!PositionEvent, LP!PositionEvent, Ladder!MayFail, LP!MayFail, Ladder!ExecuteTask,
           LP!ExecuteTask
  <1>3. Ladder!RunCallback <=> LP!RunCallback
    BY SameMachine
       DEF Ladder!N, LP!N, Ladder!Levels, LP!Levels, Ladder!exchange, LP!exchange, Ladder!link,
           LP!link, Ladder!env, LP!env, Ladder!Task, LP!Task, Ladder!NoTask, LP!NoTask,
           Ladder!RunCallback, LP!RunCallback
  <1> QED BY <1>1, <1>2, <1>3

\* What losing the stream and coming back does.
LEMMA SameLink ==
    /\ Ladder!LoseStream <=> LP!LoseStream
    /\ Ladder!WarmUp <=> LP!WarmUp
    /\ Ladder!Reconnect <=> LP!Reconnect
    /\ Ladder!SyncRead <=> LP!SyncRead
    /\ Ladder!SyncApply <=> LP!SyncApply
    /\ Ladder!SyncOrders <=> LP!SyncOrders
    /\ Ladder!GiveUp <=> LP!GiveUp
    /\ Ladder!Hydrate <=> LP!Hydrate
  <1>1. Ladder!LoseStream <=> LP!LoseStream
    BY SameMachine
       DEF Ladder!exchange, LP!exchange, Ladder!queue, LP!queue, Ladder!Terminal, LP!Terminal,
           Ladder!MayFail, LP!MayFail, Ladder!AttemptStateSync, LP!AttemptStateSync,
           Ladder!NoStreamHandler, LP!NoStreamHandler, Ladder!LoseStream, LP!LoseStream
  <1>2. Ladder!WarmUp <=> LP!WarmUp
    BY DEF Ladder!exchange, LP!exchange, Ladder!context, LP!context, Ladder!queue, LP!queue,
           Ladder!env, LP!env, Ladder!WarmUp, LP!WarmUp
  <1>3. Ladder!Reconnect <=> LP!Reconnect
    BY DEF Ladder!exchange, LP!exchange, Ladder!context, LP!context, Ladder!queue, LP!queue,
           Ladder!env, LP!env, Ladder!Restart, LP!Restart, Ladder!Reconnect, LP!Reconnect
  <1>4. Ladder!SyncRead <=> LP!SyncRead
    BY DEF Ladder!exchange, LP!exchange, Ladder!link, LP!link, Ladder!context, LP!context,
           Ladder!queue, LP!queue, Ladder!env, LP!env, Ladder!SyncRead, LP!SyncRead
  <1>5. Ladder!SyncApply <=> LP!SyncApply
    BY SameMachine
       DEF Ladder!exchange, LP!exchange, Ladder!link, LP!link, Ladder!queue, LP!queue, Ladder!env,
           LP!env, Ladder!NoSync, LP!NoSync, Ladder!SyncApply, LP!SyncApply
  <1>6. Ladder!SyncOrders <=> LP!SyncOrders
    BY SameMachine
       DEF Ladder!exchange, LP!exchange, Ladder!link, LP!link, Ladder!env, LP!env, Ladder!Task,
           LP!Task, Ladder!NoSync, LP!NoSync, Ladder!MissingStop, LP!MissingStop,
           Ladder!SyncCompleted, LP!SyncCompleted, Ladder!SyncOrders, LP!SyncOrders
  <1>7. Ladder!GiveUp <=> LP!GiveUp
    BY DEF Ladder!exchange, LP!exchange, Ladder!link, LP!link, Ladder!context, LP!context,
           Ladder!env, LP!env, Ladder!Task, LP!Task, Ladder!NoSync, LP!NoSync, Ladder!GiveUp,
           LP!GiveUp
  <1>8. Ladder!Hydrate <=> LP!Hydrate
    BY DEF Ladder!exchange, LP!exchange, Ladder!context, LP!context, Ladder!queue, LP!queue,
           Ladder!env, LP!env, Ladder!Terminal, LP!Terminal, Ladder!Restart, LP!Restart,
           Ladder!Hydrate, LP!Hydrate
  <1> QED BY <1>1, <1>2, <1>3, <1>4, <1>5, <1>6, <1>7, <1>8

\* Where it starts and what is promised of it.
LEMMA SameStart == Ladder!TpOrders = LP!TpOrders /\ (Ladder!Init <=> LP!Init)
  BY DEF Ladder!NoSavedState, LP!NoSavedState, Ladder!N, LP!N, Ladder!Levels, LP!Levels,
         Ladder!TpOrders, LP!TpOrders, Ladder!Task, LP!Task, Ladder!NoTask, LP!NoTask, Ladder!Idle,
         LP!Idle, Ladder!NoSync, LP!NoSync, Ladder!Init, LP!Init

LEMMA SameBooks == LP!LadderAgrees => LadderBooksAgree
  BY DEF Ladder!N, LP!N, Ladder!Levels, LP!Levels, Ladder!Task, LP!Task, Ladder!NoTask, LP!NoTask,
         Ladder!Idle, LP!Idle, Ladder!ClosedIsFlat, LP!ClosedIsFlat, Ladder!Quiet, LP!Quiet,
         Ladder!Settled, LP!Settled, Ladder!QuantityAgrees, LP!QuantityAgrees, Ladder!ClosedIsClean,
         LP!ClosedIsClean, LP!LadderAgrees, LadderBooksAgree

LEMMA SameNext == Ladder!Next <=> LP!Next
  <1>1. Ladder!StreamStep <=> LP!StreamStep
    BY SameStream DEF Ladder!StreamStep, LP!StreamStep
  <1>2. Ladder!WorkerStep <=> LP!WorkerStep
    BY SameWorker DEF Ladder!WorkerStep, LP!WorkerStep
  <1>3. Ladder!SyncStep <=> LP!SyncStep
    BY SameLink DEF Ladder!SyncStep, LP!SyncStep
  <1>4. (\E l \in Ladder!TpOrders : Ladder!FillTp(l)) <=> (\E l \in LP!TpOrders : LP!FillTp(l))
    BY SameFills, SameStart
  <1> QED BY <1>1, <1>2, <1>3, <1>4, SameFills, SameEngine, SameLink DEF Ladder!Next, LP!Next

\* What is left of the 4 units after each level.
LadderRest == [l \in 0 .. 3 |-> IF l = 0 THEN 4 ELSE IF l = 1 THEN 2 ELSE IF l = 2 THEN 1 ELSE 0]

\* The instance's constants are what PositionTracking assumes of them.
LEMMA LadderAssumptions ==
    /\ <<2, 1, 1>> \in Seq(Nat \ {0}) /\ 4 \in Nat \ {0}
    /\ {<<"o", "p">>, <<"o", "o", "p">>} \subseteq Seq({"o", "p"})
    /\ BOOLEAN \subseteq BOOLEAN /\ {} \subseteq Nat \ {0}
    /\ 1 \in Nat /\ 0 \in Nat /\ 3 \in Nat
  OBVIOUS

LEMMA LadderIsCalm == LP!CalmLadder(LadderRest)
  <1>1. LP!N = 3 /\ LP!Levels = 1 .. 3
    BY DEF LP!N, LP!Levels
  <1>2. LadderRest \in [0 .. 3 -> Nat]
    BY DEF LadderRest
  <1>3. LadderRest[0] = 4 /\ LadderRest[1] = 2 /\ LadderRest[2] = 1 /\ LadderRest[3] = 0
    BY DEF LadderRest
  <1>4. \A l \in 1 .. 3 : l = 1 \/ l = 2 \/ l = 3
    OBVIOUS
  <1>5. \A l \in 1 .. 3 : LadderRest[l] = LadderRest[l - 1] - <<2, 1, 1>>[l]
    BY <1>3, <1>4
  <1>6. \A k, l \in 1 .. 3 - 1 : <<2, 1, 1>>[k] = <<2, 1, 1>>[l] => k = l
    <2>1. \A k \in 1 .. 3 - 1 : k = 1 \/ k = 2
      OBVIOUS
    <2> QED BY <2>1
  <1> QED BY <1>1, <1>2, <1>3, <1>5, <1>6 DEF LP!CalmLadder

LEMMA LadderSpecAgrees == Ladder!Spec => []LadderBooksAgree
  <1>1. Ladder!Init => LP!Init
    BY SameStart
  <1>2. [Ladder!Next]_Ladder!vars => [LP!Next]_LP!vars
    <2>1. UNCHANGED Ladder!vars => UNCHANGED LP!vars
      BY DEF Ladder!vars, LP!vars, Ladder!exchange, LP!exchange, Ladder!link, LP!link,
             Ladder!context, LP!context, Ladder!queue, LP!queue, Ladder!env, LP!env
    <2> QED BY <2>1, SameNext
  <1>3. LP!Spec => []LP!LadderAgrees
    BY LadderIsCalm, LP!LaddersAgree, SMTT(30)
  <1> QED BY <1>1, <1>2, <1>3, SameBooks, PTL DEF Ladder!Spec, LP!Spec

-----------------------------------------------------------------------------
(* The components side by side: a step of one is none of another, so the    *)
(* whole implements each of them, and each keeps in it what it promises     *)
(* alone.                                                                   *)

LEMMA SafetyStep ==
    ASSUME [SafetyNext]_<<part, vars, ladderVars, bnVars, byVars, cxVars, lgVars,
                          icVars, acVars, alVars, prVars, lpVars, ovVars>>
    PROVE  /\ [Next]_vars /\ [Ladder!Next]_Ladder!vars
           /\ [BnNext]_bnVars /\ [ByNext]_byVars /\ [CxNext]_cxVars
           /\ [LgNext]_lgVars /\ [IcNext]_icVars /\ [AcNext]_acVars /\ [AlNext]_alVars
           /\ [PrNext]_prVars /\ [LpNext]_lpVars /\ [OvNext]_ovVars
  <1>1. UNCHANGED ladderVars => UNCHANGED Ladder!vars
    BY DEF ladderVars, Ladder!vars, Ladder!exchange, Ladder!link, Ladder!context, Ladder!queue,
           Ladder!env
  <1>2. CASE UNCHANGED <<part, vars, ladderVars, bnVars, byVars, cxVars, lgVars,
                         icVars, acVars, alVars, prVars, lpVars, ovVars>>
    BY <1>1, <1>2
  <1>3. CASE RestBut("rules") /\ Next
    BY <1>1, <1>3 DEF RestBut
  <1>4. CASE RestBut("ladder") /\ Ladder!Next
    BY <1>4 DEF RestBut
  <1>5. CASE RestBut("binance") /\ BnNext
    BY <1>1, <1>5 DEF RestBut
  <1>6. CASE RestBut("bybit") /\ ByNext
    BY <1>1, <1>6 DEF RestBut
  <1>7. CASE RestBut("execution") /\ CxNext
    BY <1>1, <1>7 DEF RestBut
  <1>8. CASE RestBut("ledger") /\ LgNext
    BY <1>1, <1>8 DEF RestBut
  <1>9. CASE RestBut("income") /\ IcNext
    BY <1>1, <1>9 DEF RestBut
  <1>10. CASE RestBut("accounts") /\ AcNext
    BY <1>1, <1>10 DEF RestBut
  <1>11. CASE RestBut("alerts") /\ AlNext
    BY <1>1, <1>11 DEF RestBut
  <1>12. CASE RestBut("risk") /\ PrNext
    BY <1>1, <1>12 DEF RestBut
  <1>13. CASE RestBut("paper") /\ LpNext
    BY <1>1, <1>13 DEF RestBut
  <1>14. CASE RestBut("overlay") /\ OvNext
    BY <1>1, <1>14 DEF RestBut
  <1> QED BY <1>2, <1>3, <1>4, <1>5, <1>6, <1>7, <1>8, <1>9, <1>10, <1>11, <1>12, <1>13, <1>14,
              SMTT(30) DEF SafetyNext

\* The platform implements each of its components: a behaviour of the whole is
\* one of every part, since no part's state is written by another.
THEOREM EveryPartIsKept ==
    SafetySpec => /\ Spec /\ Ladder!Spec /\ BnSpec /\ BySpec /\ CxSpec /\ LgSpec /\ IcSpec
                  /\ AcSpec /\ AlSpec /\ PrSpec /\ LpSpec /\ OvSpec
  <1>1. SafetyInit => /\ Init /\ Ladder!Init /\ BnInit /\ ByInit /\ CxInit /\ LgInit /\ IcInit
                      /\ AcInit /\ AlInit /\ PrInit /\ LpInit /\ OvInit
    BY DEF SafetyInit
  <1>2. [SafetyNext]_<<part, vars, ladderVars, bnVars, byVars, cxVars, lgVars,
                       icVars, acVars, alVars, prVars, lpVars, ovVars>>
           => /\ [Next]_vars /\ [Ladder!Next]_Ladder!vars
              /\ [BnNext]_bnVars /\ [ByNext]_byVars /\ [CxNext]_cxVars
              /\ [LgNext]_lgVars /\ [IcNext]_icVars /\ [AcNext]_acVars /\ [AlNext]_alVars
              /\ [PrNext]_prVars /\ [LpNext]_lpVars /\ [OvNext]_ovVars
    BY SafetyStep
  <1> QED BY <1>1, <1>2, PTL DEF SafetySpec, Spec, Ladder!Spec, BnSpec, BySpec, CxSpec, LgSpec,
                                 IcSpec, AcSpec, AlSpec, PrSpec, LpSpec, OvSpec

\* What a caller of either exchange adapter concludes from the end of a call is
\* true at the venue.
THEOREM AdaptersTruthful == SafetySpec => []AdaptersTellTheTruth
  <1>1. BinanceTellsTheTruth /\ BybitTellsTheTruth => AdaptersTellTheTruth
    BY DEF AdaptersTellTheTruth
  <1> QED BY <1>1, EveryPartIsKept, BinanceTruthful, BybitTruthful, PTL

\* Neither ledger has a hole, with their passes side by side and beside
\* everything else the platform does.
THEOREM BooksAreWhole == SafetySpec => []BooksHaveNoHoles
  <1>1. LedgerHasNoHoles /\ FundingHasNoHoles => BooksHaveNoHoles
    BY DEF BooksHaveNoHoles
  <1> QED BY <1>1, EveryPartIsKept, LedgerIsContiguous, FundingIsWhole, PTL

\* Between two handlers the ladder of the platform agrees with its exchange; a
\* closed context means a flat position with no order left behind.
THEOREM LadderAgreesWithExchange == SafetySpec => []LadderBooksAgree
BY EveryPartIsKept, LadderSpecAgrees, PTL

\* The platform's promises, side by side: stops never weaken a protection and are
\* loosened at most once, and to the entry; entries are placed once, and with one
\* trend; the caps hold up to the workers; the ledgers balance and the paper
\* books are complete; an alert is earned; a second factor goes off only after
\* a re-authentication.
THEOREM PlatformKeepsItsPromises ==
    SafetySpec => /\ LoosenedOnceToEntry /\ ProtectionNeverWeakens /\ FactorsGoOffByReauth
                  /\ [](PlacedOnce /\ OneTrendPerEntry /\ CapsHoldUpToWorkers)
                  /\ [](BooksBalance /\ PaperBooksComplete /\ AlertsAreEarned)
BY EveryPartIsKept, LoosenedOnce, ProtectionKept, ReauthTakesFactorsOff, OrdersPlacedOnce,
   OneTrendUsed, CapsHold, LedgerBalances, PaperComplete, AlertsEarned, PTL
=============================================================================
