-------------------------- MODULE SLPipelineProofs --------------------------
(***************************************************************************)
(* Proofs about SLPipeline: the types, that the booked stop moves back at  *)
(* most once, to the entry (and never while the breakeven rule is off),    *)
(* and that the protection on the exchange never weakens.                  *)
(***************************************************************************)
EXTENDS SLPipeline, SequenceTheorems, TLAPS

Request == [existing : 1 .. MaxOrders, price : Int]

\* What the stop order named by sl_exchange_order_id is: always the first one,
\* since the realtime replacements have no success callback.
OnlyFirstNamed ==
    /\ orderId \in {0, 1}
    /\ \A i \in DOMAIN replacing : replacing[i].existing = 1
    /\ \A o \in live : o.id = 1 => o.price = FirstStop(side)

\* Neither the booked stop nor a requested one is behind the first stop.
NeverBehindFirst ==
    /\ ~Better(FirstStop(side), sl)
    /\ \A i \in DOMAIN replacing : ~Better(FirstStop(side), replacing[i].price)

\* When the old order is about to be cancelled its replacement is on the book.
ReplacedFirst ==
    step = "cancel" =>
        /\ replacing # <<>>
        /\ \E o \in live : o.id # 1 /\ o.price = Head(replacing).price

\* The inductive invariant.
IInv == TypeOK /\ OnlyFirstNamed /\ NeverBehindFirst /\ ReplacedFirst

\* Every candidate is a price of the type of a stop, and its source is a rule.
LEMMA CandidatesTyped ==
    ASSUME TypeOK, NEW price \in Prices, NEW atr \in Atrs,
           NEW c \in Candidates(price, atr)
    PROVE  /\ c.stop \in Int
           /\ c.by = "breakeven" => "breakeven" \in Rules /\ ~activated /\ c.stop = Entry
           /\ c.by # "breakeven" => Better(c.stop, sl)
<1>1. Entry \in Int /\ Multiplier \in Int /\ Callback \in Int /\ price \in Int /\ atr \in Int
  BY PipelineAssumption
<1>2. NewPeak(price) \in Int
  BY <1>1 DEF NewPeak, Better, TypeOK
<1>3. TrailingStop(NewPeak(price)) \in Int
  BY <1>1, <1>2 DEF TrailingStop
<1>4. Beyond(Entry, 0 - atr * Multiplier) \in Int
  BY <1>1 DEF Beyond
<1>5. CASE \E s \in Trailing(price) : c = [stop |-> s, by |-> "trailing"]
  BY <1>3, <1>5 DEF Trailing
<1>6. CASE \E s \in Breakeven(price) : c = [stop |-> s, by |-> "breakeven"]
  BY <1>1, <1>6 DEF Breakeven
<1>7. CASE \E s \in Volatility(atr) : c = [stop |-> s, by |-> "volatility"]
  BY <1>4, <1>7 DEF Volatility
<1> QED
  BY <1>5, <1>6, <1>7 DEF Candidates

\* The peak that a tick books is a price.
LEMMA PeakTyped ==
    ASSUME TypeOK, NEW price \in Prices
    PROVE  NewPeak(price) \in Nat
BY PipelineAssumption DEF NewPeak, Better, TypeOK

LEMMA InitInv == Init => IInv
<1> SUFFICES ASSUME Init PROVE IInv
  OBVIOUS
<1>1. FirstStop(side) \in Int
  BY PipelineAssumption DEF Init, FirstStop, Sides
<1>2. /\ 0 - Throttle \in Int
      /\ 0 \in 0 .. MaxOrders /\ 1 \in 0 .. MaxOrders /\ 1 \in 1 .. MaxOrders
      /\ 2 \in 2 .. MaxOrders + 1 /\ 0 \in 0 .. MaxClock
  BY PipelineAssumption
<1>3. live \subseteq Orders
  BY <1>1, <1>2 DEF Init, Orders
<1>4. replacing \in Seq(Request) /\ DOMAIN replacing = {}
  BY DEF Init
<1>5. TypeOK
  BY <1>1, <1>2, <1>3, <1>4 DEF Init, TypeOK, Request
<1>6. OnlyFirstNamed
  BY <1>4 DEF Init, OnlyFirstNamed
<1>7. NeverBehindFirst
  BY <1>1, <1>4 DEF Init, NeverBehindFirst, Better
<1>8. ReplacedFirst
  BY DEF Init, ReplacedFirst
<1> QED
  BY <1>5, <1>6, <1>7, <1>8 DEF IInv

LEMMA TickTyped ==
    ASSUME TypeOK, NEW price \in Prices, NEW atr \in Atrs, Tick(price, atr)
    PROVE  TypeOK'
<1>1. PICK c \in Chosen(Candidates(price, atr)) :
        /\ sl' = c.stop
        /\ peak' = IF c.by = "trailing" THEN NewPeak(price) ELSE peak
        /\ activated' = (activated \/ c.by = "breakeven")
  BY DEF Tick
<1>2. sl' \in Int
  BY <1>1, CandidatesTyped DEF Chosen
<1>3. peak' \in Nat
  BY <1>1, PeakTyped DEF TypeOK
<1>4. activated' \in BOOLEAN
  BY <1>1
<1>5. replacing' \in Seq(Request)
  <2>1. CASE replacing' = replacing
    BY <2>1 DEF TypeOK, Request
  <2>2. CASE Dispatchable /\ replacing' = Append(replacing, [existing |-> orderId, price |-> sl'])
    <3>1. [existing |-> orderId, price |-> sl'] \in Request
      BY <1>2, <2>2, PipelineAssumption DEF TypeOK, Request, Dispatchable
    <3> QED
      BY <2>2, <3>1 DEF TypeOK, Request
  <2> QED
    BY <2>1, <2>2 DEF Tick
<1> QED
  BY <1>2, <1>3, <1>4, <1>5 DEF TypeOK, Tick, Request

\* A tick books a stop that is not behind the first one.
LEMMA TickInv ==
    ASSUME IInv, NEW price \in Prices, NEW atr \in Atrs, Tick(price, atr)
    PROVE  IInv'
<1>1. TypeOK /\ TypeOK'
  BY TickTyped DEF IInv
<1>2. PICK c \in Candidates(price, atr) : sl' = c.stop
  BY DEF Tick, Chosen
<1>3. FirstStop(side) \in Int /\ Entry \in Int /\ ~Better(FirstStop(side), Entry)
  BY <1>1, PipelineAssumption DEF FirstStop, Better, TypeOK, Sides
<1>4. ~Better(FirstStop(side), sl')
  <2>1. /\ c.stop \in Int
        /\ c.by = "breakeven" => c.stop = Entry
        /\ c.by # "breakeven" => Better(c.stop, sl)
    BY <1>1, CandidatesTyped
  <2>2. CASE c.stop = Entry
    BY <1>2, <1>3, <2>2
  <2>3. CASE Better(c.stop, sl)
    <3>1. ~Better(FirstStop(side), sl) /\ sl \in Int
      BY <1>1 DEF IInv, NeverBehindFirst, TypeOK
    <3> QED
      BY <1>2, <1>3, <2>1, <2>3, <3>1 DEF Better
  <2> QED
    BY <2>1, <2>2, <2>3
<1>5. side' = side
  BY DEF Tick
<1>6. \A i \in DOMAIN replacing' :
         /\ replacing'[i].existing = 1
         /\ ~Better(FirstStop(side), replacing'[i].price)
  <2>1. CASE replacing' = replacing
    BY <2>1 DEF IInv, OnlyFirstNamed, NeverBehindFirst
  <2>2. CASE Dispatchable /\ replacing' = Append(replacing, [existing |-> orderId, price |-> sl'])
    <3>1. orderId = 1
      BY <2>2 DEF IInv, OnlyFirstNamed, Dispatchable
    <3>2. SUFFICES ASSUME NEW i \in DOMAIN replacing'
                   PROVE  /\ replacing'[i].existing = 1
                          /\ ~Better(FirstStop(side), replacing'[i].price)
      OBVIOUS
    <3>3. \/ i \in DOMAIN replacing /\ replacing'[i] = replacing[i]
          \/ replacing'[i] = [existing |-> orderId, price |-> sl']
      <4>1. replacing \in Seq(Request) /\ [existing |-> orderId, price |-> sl'] \in Request
        BY <1>1, <3>1, PipelineAssumption DEF TypeOK, Request
      <4> QED
        BY <2>2, <3>2, <4>1, AppendProperties
    <3> QED
      BY <1>4, <3>1, <3>3 DEF IInv, OnlyFirstNamed, NeverBehindFirst
  <2> QED
    BY <2>1, <2>2 DEF Tick
<1>7. OnlyFirstNamed'
  BY <1>5, <1>6 DEF IInv, OnlyFirstNamed, Tick
<1>8. NeverBehindFirst'
  BY <1>4, <1>5, <1>6 DEF NeverBehindFirst, Better
<1>9. ReplacedFirst'
  <2>1. replacing # <<>> => replacing' # <<>> /\ Head(replacing') = Head(replacing)
    <3>1. CASE replacing' = replacing
      BY <3>1
    <3>2. CASE replacing' = Append(replacing, [existing |-> orderId, price |-> sl'])
      <4>1. replacing \in Seq(Request)
        BY <1>1 DEF TypeOK, Request
      <4>2. replacing # <<>> =>
               /\ Len(replacing) \in Nat /\ Len(replacing) > 0
               /\ Len(replacing') = Len(replacing) + 1 /\ replacing'[1] = replacing[1]
        BY <3>2, <4>1
      <4> QED
        BY <3>2, <4>1, <4>2
    <3> QED
      BY <3>1, <3>2 DEF Tick
  <2> QED
    BY <2>1 DEF IInv, ReplacedFirst, Tick
<1> QED
  BY <1>1, <1>7, <1>8, <1>9 DEF IInv

\* Dropping the head of the requests keeps what is true of every request.
LEMMA TailRequests ==
    ASSUME TypeOK, replacing # <<>>
    PROVE  /\ Tail(replacing) \in Seq(Request)
           /\ Head(replacing) \in Request
           /\ Head(replacing) = replacing[1] /\ 1 \in DOMAIN replacing
           /\ \A i \in DOMAIN Tail(replacing) :
                 i + 1 \in DOMAIN replacing /\ Tail(replacing)[i] = replacing[i + 1]
<1>1. replacing \in Seq(Request)
  BY DEF TypeOK, Request
<1>2. Len(replacing) \in Nat /\ Len(replacing) >= 1 /\ DOMAIN replacing = 1 .. Len(replacing)
  BY <1>1
<1>3. /\ Head(replacing) = replacing[1] /\ 1 \in DOMAIN replacing
      /\ Head(replacing) \in Request
  BY <1>1, <1>2
<1>4. /\ Tail(replacing) \in Seq(Request) /\ Len(Tail(replacing)) = Len(replacing) - 1
      /\ \A i \in 1 .. Len(Tail(replacing)) : Tail(replacing)[i] = replacing[i + 1]
  BY <1>1, HeadTailProperties
<1> QED
  BY <1>2, <1>3, <1>4

LEMMA PlaceInv == ASSUME IInv, PlaceReplacement PROVE IInv'
<1> DEFINE new == [id |-> nextId, price |-> Head(replacing).price]
<1>1. /\ TypeOK /\ replacing # <<>>
      /\ UNCHANGED <<side, sl, peak, activated, orderId, now, lastAt>>
  BY DEF IInv, PlaceReplacement
<1>2. CASE /\ nextId <= MaxOrders
           /\ live' = live \cup {new}
           /\ nextId' = nextId + 1 /\ step' = "cancel" /\ UNCHANGED replacing
  <2>1. new \in Orders /\ new.id # 1 /\ new.price = Head(replacing).price
    BY <1>1, <1>2, TailRequests, PipelineAssumption DEF TypeOK, Orders, Request
  <2>2. nextId' \in 2 .. MaxOrders + 1
    BY <1>1, <1>2, PipelineAssumption DEF TypeOK
  <2>3. TypeOK'
    BY <1>1, <1>2, <2>1, <2>2 DEF TypeOK
  <2>4. OnlyFirstNamed' /\ NeverBehindFirst' /\ ReplacedFirst'
    BY <1>1, <1>2, <2>1 DEF IInv, OnlyFirstNamed, NeverBehindFirst, ReplacedFirst, Better
  <2> QED
    BY <2>3, <2>4 DEF IInv
<1>3. CASE live' = live /\ Done /\ UNCHANGED nextId
  <2>1. TypeOK'
    BY <1>1, <1>3, TailRequests DEF TypeOK, Done, Request
  <2>2. OnlyFirstNamed' /\ NeverBehindFirst' /\ ReplacedFirst'
    BY <1>1, <1>3, TailRequests
       DEF IInv, Done, OnlyFirstNamed, NeverBehindFirst, ReplacedFirst, Better
  <2> QED
    BY <2>1, <2>2 DEF IInv
<1> QED
  BY <1>2, <1>3 DEF PlaceReplacement, Standing

LEMMA CancelInv == ASSUME IInv, CancelReplaced PROVE IInv'
<1>1. TypeOK /\ replacing # <<>>
  BY DEF IInv, CancelReplaced, ReplacedFirst
<1>2. live' \subseteq live
  BY DEF CancelReplaced
<1>3. TypeOK'
  BY <1>1, <1>2, TailRequests DEF TypeOK, CancelReplaced, Done, Request
<1>4. OnlyFirstNamed' /\ NeverBehindFirst' /\ ReplacedFirst'
  BY <1>1, <1>2, TailRequests
     DEF IInv, CancelReplaced, Done, OnlyFirstNamed, NeverBehindFirst, ReplacedFirst, Better
<1> QED
  BY <1>3, <1>4 DEF IInv

LEMMA StepInv == IInv /\ [Next]_vars => IInv'
<1> SUFFICES ASSUME IInv, [Next]_vars PROVE IInv'
  OBVIOUS
<1>1. CASE \E price \in Prices, atr \in Atrs : Tick(price, atr)
  BY <1>1, TickInv
<1>2. CASE StoreOrderId
  <2>1. TypeOK'
    BY <1>2, PipelineAssumption DEF StoreOrderId, IInv, TypeOK
  <2> QED
    BY <1>2, <2>1
       DEF StoreOrderId, IInv, OnlyFirstNamed, NeverBehindFirst, ReplacedFirst, Better
<1>3. CASE PlaceReplacement
  BY <1>3, PlaceInv
<1>4. CASE CancelReplaced
  BY <1>4, CancelInv
<1>5. CASE Advance
  <2>1. TypeOK'
    BY <1>5, PipelineAssumption DEF Advance, IInv, TypeOK
  <2> QED
    BY <1>5, <2>1
       DEF Advance, IInv, OnlyFirstNamed, NeverBehindFirst, ReplacedFirst, Better
<1>6. CASE UNCHANGED vars
  BY <1>6
     DEF vars, IInv, TypeOK, OnlyFirstNamed, NeverBehindFirst, ReplacedFirst, Better
<1> QED
  BY <1>1, <1>2, <1>3, <1>4, <1>5, <1>6 DEF Next

LEMMA Invariance == Spec => []IInv
BY InitInv, StepInv, PTL DEF Spec

\* Every variable of the pipeline keeps its type.
THEOREM TypeCorrect == Spec => []TypeOK
<1>1. IInv => TypeOK
  BY DEF IInv
<1> QED
  BY <1>1, Invariance, PTL

\* Only the one-time breakeven moves the booked stop back, and only to the
\* entry, whatever rules are on and whatever the prices and parameters are.
THEOREM LoosenedOnce == Spec => LoosenedOnceToEntry
<1>1. ASSUME IInv, [Next]_vars
      PROVE  [Better(sl, sl') => sl' = Entry /\ ~activated /\ activated']_<<sl, activated>>
  <2>1. SUFFICES ASSUME NEW price \in Prices, NEW atr \in Atrs, Tick(price, atr),
                        Better(sl, sl')
                 PROVE  sl' = Entry /\ ~activated /\ activated'
    BY <1>1 DEF Next, vars, StoreOrderId, PlaceReplacement, CancelReplaced, Advance
  <2>2. PICK c \in Candidates(price, atr) :
           sl' = c.stop /\ activated' = (activated \/ c.by = "breakeven")
    BY <2>1 DEF Tick, Chosen
  <2>3. CASE c.by = "breakeven"
    BY <1>1, <2>1, <2>2, <2>3, CandidatesTyped DEF IInv
  <2>4. CASE c.by # "breakeven"
    <3>1. c.stop \in Int /\ Better(c.stop, sl) /\ sl \in Int
      BY <1>1, <2>1, <2>4, CandidatesTyped DEF IInv, TypeOK
    <3> QED
      BY <2>1, <2>2, <3>1 DEF Better
  <2> QED
    BY <2>3, <2>4
<1> QED
  BY <1>1, Invariance, PTL DEF Spec, LoosenedOnceToEntry

\* As long as the breakeven rule is off, the booked stop never moves back,
\* whatever the prices and the other rules' parameters.
THEOREM StopOnlyTightens ==
    ASSUME "breakeven" \notin Rules
    PROVE  Spec => SlNeverLoosened
<1>1. ASSUME IInv, [Next]_vars PROVE [~Better(sl, sl')]_sl
  <2>1. SUFFICES ASSUME NEW price \in Prices, NEW atr \in Atrs, Tick(price, atr)
                 PROVE  ~Better(sl, sl')
    BY <1>1 DEF Next, vars, StoreOrderId, PlaceReplacement, CancelReplaced, Advance
  <2>2. PICK c \in Candidates(price, atr) : sl' = c.stop
    BY <2>1 DEF Tick, Chosen
  <2>3. c.stop \in Int /\ Better(c.stop, sl)
    BY <1>1, <2>1, CandidatesTyped DEF IInv
  <2> QED
    BY <1>1, <2>2, <2>3 DEF IInv, TypeOK, Better
<1> QED
  BY <1>1, Invariance, PTL DEF Spec, SlNeverLoosened

\* Every stop on the exchange's book is matched or bettered after every step:
\* the reduce-only replacement never leaves the position less protected.
THEOREM ProtectionKept == Spec => ProtectionNeverWeakens
<1>1. ASSUME IInv, [Next]_vars
      PROVE  [\A o \in live : \E n \in live' : ~Better(o.price, n.price)]_live
  <2>1. CASE live \subseteq live'
    BY <1>1, <2>1 DEF IInv, TypeOK, Orders, Better
  <2>2. CASE CancelReplaced
    <3>1. PICK n \in live : n.id # 1 /\ n.price = Head(replacing).price
      BY <1>1, <2>2 DEF IInv, CancelReplaced, ReplacedFirst
    <3>2. /\ Head(replacing).existing = 1
          /\ ~Better(FirstStop(side), n.price)
      BY <1>1, <2>2, <3>1, TailRequests
         DEF IInv, CancelReplaced, ReplacedFirst, OnlyFirstNamed, NeverBehindFirst
    <3>3. n \in live'
      BY <2>2, <3>1, <3>2 DEF CancelReplaced
    <3>4. ASSUME NEW o \in live PROVE \E m \in live' : ~Better(o.price, m.price)
      <4>1. CASE o \in live'
        BY <1>1, <4>1 DEF IInv, TypeOK, Orders, Better
      <4>2. CASE o \notin live'
        <5>1. o.price = FirstStop(side)
          BY <1>1, <2>2, <3>2, <4>2 DEF IInv, CancelReplaced, OnlyFirstNamed
        <5> QED
          BY <3>2, <3>3, <5>1
      <4> QED
        BY <4>1, <4>2
    <3> QED
      BY <3>4
  <2> QED
    BY <1>1, <2>1, <2>2
       DEF Next, vars, Tick, StoreOrderId, PlaceReplacement, Standing, Advance
<1> QED
  BY <1>1, Invariance, PTL DEF Spec, ProtectionNeverWeakens
=============================================================================
