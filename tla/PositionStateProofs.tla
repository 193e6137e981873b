------------------------ MODULE PositionStateProofs ------------------------
(***************************************************************************)
(* Proofs about PositionState, for every valid ladder and configuration    *)
(* and every sequence of prices and times.                                 *)
(***************************************************************************)
EXTENDS PositionState, NaturalLemmas, FiniteSetTheorems, TLAPS

\* Selling n parts of d, rounded down, leaves no more than there was and no debt.
LEMMA KeptIsBounded ==
  ASSUME NEW h \in Nat, NEW d \in Nat, NEW n \in Nat, d # 0, n <= d
  PROVE  Kept(h, n, d) \in Nat /\ Kept(h, n, d) <= h
<1> DEFINE q == (h * n) \div d
<1>1. h * n \in Nat /\ h * n <= h * d
  OBVIOUS
<1>2. q \in Nat /\ d * q <= h * n
  BY <1>1
<1>3. ASSUME q > h
      PROVE  FALSE
  <2>1. q >= h + 1
    BY <1>2, <1>3
  <2>2. d * q >= d * (h + 1)
    BY <1>2, <2>1
  <2>3. d * (h + 1) = h * d + d
    OBVIOUS
  <2>4. QED
    BY <1>1, <1>2, <2>2, <2>3
<1>4. QED
  BY <1>2, <1>3 DEF Kept

LEMMA ElementOfSeq ==
  ASSUME NEW S, NEW s \in Seq(S), NEW i \in DOMAIN s
  PROVE  s[i] \in S
OBVIOUS

\* The part of the assumption that is not about the section.
LEMMA Inputs ==
  EntryPrice \in Nat \ {0} /\ EntryTs \in Nat /\ Prices \subseteq Nat /\ Times \subseteq Nat
BY PositionAssumption

\* What the fields of the section are, once it was validated.
LEMMA LadderType ==
  ASSUME cfg \in Configs
  PROVE  ladder \in Seq([target : Int, pct : Int])
BY PositionAssumption DEF Configs, ladder

LEMMA FieldTypes ==
  ASSUME cfg \in Configs
  PROVE  /\ StopLoss \in Int /\ Activation \in Int /\ DrawdownPct \in Int
         /\ MaxHold \in Nat
BY PositionAssumption DEF Configs, StopLoss, Activation, DrawdownPct, MaxHold

\* What Config::validate leaves of a rung.
LEMMA ValidRung ==
  ASSUME TypeOK, NEW i \in Rungs
  PROVE  ladder[i].target \in Nat /\ ladder[i].pct \in 1 .. 100
<1>1. cfg \in Candidates /\ Validates(cfg)
  BY DEF TypeOK, Configs
<1>2. ladder[i] \in [target : Int, pct : Int]
  <2>1. ladder \in Seq([target : Int, pct : Int]) /\ i \in DOMAIN ladder
    BY LadderType DEF TypeOK, Rungs
  <2>2. QED
    BY <2>1, ElementOfSeq, Zenon
<1>3. ladder[i].target > EntryPrice /\ ladder[i].pct \in 1 .. 100
  BY <1>1 DEF Validates, ladder, Rungs
<1>4. QED
  BY <1>2, <1>3, Inputs

\* The two kinds of answer an open position gives.
LEMMA Answers ==
  ASSUME NEW n, NEW d, NEW r
  PROVE  /\ Sell(n, d, r).kind = "Sell"
         /\ Sell(n, d, r).num = n
         /\ Sell(n, d, r).den = d
         /\ Sell(n, d, r).reason = r
         /\ Hold.kind # "Sell"
BY DEF Sell, Hold

LEMMA AnswerTypes ==
  /\ Unticked \in Actions /\ Hold \in Actions /\ Closed \in Actions
  /\ \A n \in 1 .. 100, d \in 1 .. 100, r \in Reasons :
       n <= d => Sell(n, d, r) \in Actions
BY DEF Actions, Sells, Sell

\* One sale of n parts of d leaves the caller's tokens in range.
LEMMA SaleType ==
  ASSUME TypeOK, NEW d \in 1 .. 100, NEW n \in 1 .. 100, n <= d
  PROVE  Kept(held, n, d) \in 0 .. Whole
<1>0. Whole \in Nat
  BY DEF Whole
<1>1. held \in Nat /\ held <= Whole
  BY <1>0 DEF TypeOK
<1>2. d \in Nat /\ n \in Nat /\ d # 0
  OBVIOUS
<1> DEFINE k == Kept(held, n, d)
<1>3. k \in Nat /\ k <= held
  BY <1>1, <1>2, KeptIsBounded
<1> HIDE DEF k
<1>4. k \in 0 .. Whole
  BY <1>0, <1>1, <1>3
<1>5. QED
  BY <1>4 DEF k

LEMMA ObserveType ==
  ASSUME TypeOK, NEW p \in Nat, NEW t \in Nat, NEW a, Observe(p, t, a)
  PROVE  /\ cfg' \in Configs
         /\ Rungs' = Rungs
         /\ peak' \in Nat
         /\ tick' \in [price : Nat, now : Nat]
         /\ remaining \in 1 .. 100
<1>1. cfg \in Configs /\ peak \in Nat /\ remaining \in 0 .. 100
  BY DEF TypeOK
<1>2. QED
  BY <1>1 DEF Observe, NewPeak, IsClosed, Rungs, ladder

\* What a full exit does to the type of the state.
LEMMA SellAllType ==
  ASSUME TypeOK, NEW p \in Nat, NEW t \in Nat, NEW r \in Reasons, SellAll(p, t, r),
         armed' \in BOOLEAN
  PROVE  TypeOK'
<1>1. Observe(p, t, Sell(remaining, 100, r)) /\ remaining' = 0 /\ fired' = fired
  BY DEF SellAll
<1>2. /\ cfg' \in Configs
      /\ Rungs' = Rungs
      /\ peak' \in Nat
      /\ tick' \in [price : Nat, now : Nat]
      /\ remaining \in 1 .. 100
  BY <1>1, ObserveType
<1>3. 100 \in 1 .. 100 /\ remaining \in 1 .. 100 /\ remaining <= 100
  BY <1>2
<1>4. action' \in Actions /\ held' \in 0 .. Whole
  <2>1. /\ action' = Sell(remaining, 100, r)
        /\ held' = Kept(held, remaining, 100)
    BY <1>1, Answers DEF Observe
  <2>2. Kept(held, remaining, 100) \in 0 .. Whole
    BY <1>3, SaleType
  <2>3. Sell(remaining, 100, r) \in Actions
    BY <1>3, AnswerTypes
  <2>4. QED
    BY <2>1, <2>2, <2>3, Zenon
<1>5. fired \subseteq Rungs
  BY DEF TypeOK
<1>6. remaining' \in 0 .. 100 /\ fired' \subseteq Rungs'
  BY <1>1, <1>2, <1>5
<1>7. QED
  BY <1>2, <1>4, <1>6 DEF TypeOK

\* The numbers of the state machine stay in range: in particular no sell
\* fraction leaves (0, 1] and the caller never owes tokens.
THEOREM TypeCorrect == Spec => []TypeOK
<1> USE Inputs
<1>1. Init => TypeOK
  <2> SUFFICES ASSUME Init
               PROVE  TypeOK
    OBVIOUS
  <2>1. cfg \in Configs /\ peak \in Nat /\ tick \in [price : Nat, now : Nat]
    BY DEF Init
  <2>2. remaining \in 0 .. 100 /\ fired \subseteq Rungs /\ held \in 0 .. Whole
    BY DEF Init, Whole
  <2>3. armed \in BOOLEAN /\ action \in Actions
    BY AnswerTypes DEF Init
  <2>4. QED
    BY <2>1, <2>2, <2>3 DEF TypeOK
<1>2. TypeOK /\ [Next]_vars => TypeOK'
  <2> SUFFICES ASSUME TypeOK, [Next]_vars
               PROVE  TypeOK'
    OBVIOUS
  <2>1. ASSUME NEW p \in Prices, NEW t \in Times, OnTick(p, t)
        PROVE  TypeOK'
    <3>0. /\ p \in Nat /\ t \in Nat /\ peak \in Nat
          /\ remaining \in 0 .. 100 /\ fired \subseteq Rungs /\ cfg \in Configs
          /\ held \in 0 .. Whole
      BY DEF TypeOK
    <3>a. armed \in BOOLEAN /\ Arming(p) \in BOOLEAN
      BY DEF TypeOK, Arming
    <3>1. CASE CheckStopLoss(p, t)
      BY <3>0, <3>a, <3>1, SellAllType DEF CheckStopLoss, Reasons
    <3>2. CASE CheckTakeProfit(p, t)
      <4>1. PICK i \in Rungs :
              LET wanted == ladder[i].pct
                  sold == IF wanted > remaining THEN remaining ELSE wanted
              IN /\ Observe(p, t, SellOfRemaining(sold))
                 /\ remaining' = remaining - sold
                 /\ fired' = fired \cup {i}
        BY <3>2 DEF CheckTakeProfit, MarkFired
      <4> DEFINE sold == IF ladder[i].pct > remaining THEN remaining ELSE ladder[i].pct
      <4>2. /\ Observe(p, t, Sell(sold, remaining, "TakeProfit"))
            /\ remaining' = remaining - sold
        BY <4>1 DEF SellOfRemaining
      <4> HIDE DEF sold
      <4>3. /\ cfg' \in Configs
            /\ Rungs' = Rungs
            /\ peak' \in Nat
            /\ tick' \in [price : Nat, now : Nat]
            /\ remaining \in 1 .. 100
        BY <3>0, <4>2, ObserveType
      <4>4. sold \in 1 .. 100 /\ sold <= remaining
        BY <4>3, ValidRung DEF sold
      <4>5. action' \in Actions /\ held' \in 0 .. Whole
        <5>1. /\ action' = Sell(sold, remaining, "TakeProfit")
              /\ held' = Kept(held, sold, remaining)
          BY <4>2, Answers DEF Observe
        <5>2. Kept(held, sold, remaining) \in 0 .. Whole
          BY <4>3, <4>4, SaleType
        <5>3. Sell(sold, remaining, "TakeProfit") \in Actions
          BY <4>3, <4>4, AnswerTypes DEF Reasons
        <5>4. QED
          BY <5>1, <5>2, <5>3, Zenon
      <4>6. remaining' \in 0 .. 100
        BY <4>2, <4>3, <4>4
      <4>7. fired' \subseteq Rungs'
        BY <3>0, <4>1, <4>3
      <4>8. armed' = armed
        BY <3>2 DEF CheckTakeProfit
      <4>9. QED
        BY <3>a, <4>3, <4>5, <4>6, <4>7, <4>8 DEF TypeOK
    <3>3. CASE CheckTrailingStop(p, t)
      <4>1. SellAll(p, t, "TrailingStop") /\ armed' = TRUE
        BY <3>3 DEF CheckTrailingStop
      <4>2. QED
        BY <3>0, <4>1, SellAllType DEF Reasons
    <3>4. CASE CheckMaxHold(p, t)
      <4>1. SellAll(p, t, "MaxHold") /\ armed' = Arming(p)
        BY <3>4 DEF CheckMaxHold
      <4>2. QED
        BY <3>0, <3>a, <4>1, SellAllType DEF Reasons
    <3>5. CASE HoldOn(p, t)
      <4>1. Observe(p, t, Hold) /\ UNCHANGED <<remaining, fired>> /\ armed' = Arming(p)
        BY <3>5 DEF HoldOn
      <4>2. /\ cfg' \in Configs
            /\ Rungs' = Rungs
            /\ peak' \in Nat
            /\ tick' \in [price : Nat, now : Nat]
        BY <3>0, <4>1, ObserveType
      <4>3. action' \in Actions /\ held' = held
        BY <4>1, Answers, AnswerTypes DEF Observe
      <4>4. QED
        BY <3>0, <3>a, <4>1, <4>2, <4>3 DEF TypeOK
    <3>6. CASE TickClosed(p, t)
      <4>1. UNCHANGED <<cfg, peak, remaining, fired, armed, held>> /\ action' \in Actions
        BY <3>6, AnswerTypes DEF TickClosed, position
      <4>2. Rungs' = Rungs /\ tick' \in [price : Nat, now : Nat]
        BY <3>0, <3>6, <4>1 DEF TickClosed, Rungs, ladder
      <4>3. QED
        BY <3>0, <3>a, <4>1, <4>2 DEF TypeOK
    <3>7. QED
      BY <2>1, <3>1, <3>2, <3>3, <3>4, <3>5, <3>6 DEF OnTick
  <2>2. CASE UNCHANGED vars
    BY <2>2 DEF vars, position, TypeOK, Rungs, ladder
  <2>3. QED
    BY <2>1, <2>2 DEF Next
<1>3. QED
  BY <1>1, <1>2, PTL DEF Spec

-----------------------------------------------------------------------------
\* A position past max_hold_seconds is closed by the very next tick that fires
\* no rung, whatever the prices: the exit cannot be starved by other checks.
THEOREM OverdueExits == Spec => []OverdueWaitsForRungsOnly
<1> USE Inputs
<1>1. Init => OverdueWaitsForRungsOnly
  BY DEF Init, OverdueWaitsForRungsOnly
<1>2. TypeOK /\ OverdueWaitsForRungsOnly /\ [Next]_vars => OverdueWaitsForRungsOnly'
  <2> SUFFICES ASSUME TypeOK, OverdueWaitsForRungsOnly, [Next]_vars
               PROVE  OverdueWaitsForRungsOnly'
    OBVIOUS
  <2>1. ASSUME NEW p \in Prices, NEW t \in Times, OnTick(p, t)
        PROVE  OverdueWaitsForRungsOnly'
    <3>1. CASE \E r : SellAll(p, t, r)
      BY <3>1 DEF SellAll, OverdueWaitsForRungsOnly, IsClosed
    <3>2. CASE CheckTakeProfit(p, t)
      BY <3>2, Answers
         DEF CheckTakeProfit, Observe, SellOfRemaining, OverdueWaitsForRungsOnly, SoldRung
    <3>3. CASE HoldOn(p, t)
      <4>1. tick'.now = t /\ MaxHold' = MaxHold
        BY <3>3 DEF HoldOn, Observe, MaxHold
      <4>2. MaxHold \in Nat
        BY FieldTypes DEF TypeOK
      <4>3. t \in Nat /\ t < EntryTs + MaxHold
        BY <3>3, <4>2 DEF HoldOn, Overdue, Held
      <4>4. QED
        BY <4>1, <4>2, <4>3 DEF OverdueWaitsForRungsOnly
    <3>4. CASE TickClosed(p, t)
      BY <3>4 DEF TickClosed, position, OverdueWaitsForRungsOnly, IsClosed
    <3>5. QED
      BY <2>1, <3>1, <3>2, <3>3, <3>4
         DEF OnTick, CheckStopLoss, CheckTrailingStop, CheckMaxHold
  <2>2. CASE UNCHANGED vars
    BY <2>2 DEF vars, position, OverdueWaitsForRungsOnly, IsClosed, SoldRung, MaxHold
  <2>3. QED
    BY <2>1, <2>2 DEF Next
<1>3. QED
  BY <1>1, <1>2, TypeCorrect, PTL DEF Spec

\* A spike that reached the activation price is never forgotten, even when the
\* tick that saw it only sold a rung: in drawdown the next other tick exits.
THEOREM TrailingExits == Spec => []TrailWaitsForRungsOnly
<1> USE Inputs
<1>1. Init => TrailWaitsForRungsOnly
  BY DEF Init, TrailWaitsForRungsOnly
<1>2. TypeOK /\ TrailWaitsForRungsOnly /\ [Next]_vars => TrailWaitsForRungsOnly'
  <2> SUFFICES ASSUME TypeOK, TrailWaitsForRungsOnly, [Next]_vars
               PROVE  TrailWaitsForRungsOnly'
    OBVIOUS
  <2>1. ASSUME NEW p \in Prices, NEW t \in Times, OnTick(p, t)
        PROVE  TrailWaitsForRungsOnly'
    <3>1. CASE \E r : SellAll(p, t, r)
      BY <3>1 DEF SellAll, TrailWaitsForRungsOnly, IsClosed
    <3>2. CASE CheckTakeProfit(p, t)
      BY <3>2, Answers
         DEF CheckTakeProfit, Observe, SellOfRemaining, TrailWaitsForRungsOnly, SoldRung
    <3>3. CASE HoldOn(p, t)
      <4>1. /\ tick'.price = p /\ peak' = NewPeak(p)
            /\ Activation' = Activation /\ DrawdownPct' = DrawdownPct
        BY <3>3 DEF HoldOn, Observe, Activation, DrawdownPct
      <4>2. ~(NewPeak(p) >= Activation) \/ ~DrawdownHit(p)
        BY <3>3 DEF HoldOn, TrailHit, Arming
      <4>3. QED
        BY <4>1, <4>2 DEF TrailWaitsForRungsOnly, DrawdownHit
    <3>4. CASE TickClosed(p, t)
      BY <3>4 DEF TickClosed, position, TrailWaitsForRungsOnly, IsClosed
    <3>5. QED
      BY <2>1, <3>1, <3>2, <3>3, <3>4
         DEF OnTick, CheckStopLoss, CheckTrailingStop, CheckMaxHold
  <2>2. CASE UNCHANGED vars
    BY <2>2 DEF vars, position, TrailWaitsForRungsOnly, IsClosed, SoldRung,
                Activation, DrawdownPct
  <2>3. QED
    BY <2>1, <2>2 DEF Next
<1>3. QED
  BY <1>1, <1>2, TypeCorrect, PTL DEF Spec

-----------------------------------------------------------------------------
\* A ladder in ascending order fires in that order, however the price jumps:
\* the search takes the first rung that is due, so a lower one is never left.
THEOREM RungsAreInOrder == Spec => []RungsFireInOrder
<1> USE Inputs
<1>1. Init => RungsFireInOrder
  BY DEF Init, RungsFireInOrder
<1>2. TypeOK /\ RungsFireInOrder /\ [Next]_vars => RungsFireInOrder'
  <2> SUFFICES ASSUME TypeOK, RungsFireInOrder, [Next]_vars
               PROVE  RungsFireInOrder'
    OBVIOUS
  <2>1. ASSUME NEW p \in Prices, NEW t \in Times, CheckTakeProfit(p, t)
        PROVE  RungsFireInOrder'
    <3>1. PICK k \in Rungs : NextRung(p, k) /\ fired' = fired \cup {k}
      BY <2>1 DEF CheckTakeProfit, MarkFired
    <3>2. cfg' = cfg
      BY <2>1 DEF CheckTakeProfit, Observe
    <3>3. SUFFICES ASSUME SortedLadder,
                          NEW i \in Rungs, NEW j \in Rungs, i < j, j \in fired'
                   PROVE  i \in fired'
      BY <3>2 DEF RungsFireInOrder, SortedLadder, Rungs, ladder
    <3>4. CASE j \in fired
      BY <3>1, <3>3, <3>4 DEF RungsFireInOrder
    <3>5. CASE j = k
      <4>1. p \in Nat /\ ladder[i].target \in Nat /\ ladder[k].target \in Nat
        BY ValidRung
      <4>2. ladder[i].target <= ladder[k].target /\ ladder[k].target <= p
        BY <3>1, <3>3, <3>5, <4>1 DEF SortedLadder, NextRung, RungHit
      <4>3. i \in 1 .. k - 1
        <5>3. ladder \in Seq([target : Int, pct : Int])
          BY LadderType DEF TypeOK
        <5>4. i \in Nat \ {0} /\ k \in Nat
          BY <5>3 DEF Rungs
        <5>5. QED
          BY <3>3, <3>5, <5>4
      <4>4. ~RungHit(p, i)
        BY <3>1, <4>3 DEF NextRung
      <4>5. ladder[i].target <= p
        BY <4>1, <4>2
      <4>6. QED
        BY <3>1, <4>1, <4>4, <4>5 DEF RungHit
    <3>6. QED
      BY <3>1, <3>3, <3>4, <3>5
  <2>2. CASE UNCHANGED <<cfg, fired>>
    BY <2>2 DEF RungsFireInOrder, SortedLadder, Rungs, ladder
  <2>3. QED
    BY <2>1, <2>2
       DEF Next, OnTick, CheckStopLoss, CheckTrailingStop, CheckMaxHold, SellAll, HoldOn,
           TickClosed, Observe, position, vars
<1>3. QED
  BY <1>1, <1>2, TypeCorrect, PTL DEF Spec

-----------------------------------------------------------------------------
\* Selling n of the d percent that are left takes exactly n percent of the whole.
LEMMA KeptShare ==
  ASSUME NEW d \in Nat, NEW n \in Nat, d # 0, n <= d
  PROVE  Kept(100 * d, n, d) = 100 * (d - n)
<1>1. (100 * d) * n = d * (100 * n)
  OBVIOUS
<1>2. (d * (100 * n)) \div d = 100 * n
  OBVIOUS
<1>3. QED
  BY <1>1, <1>2 DEF Kept

\* The fractions of sell_from_rung keep the caller's holdings equal to the share
\* of the original position that the state machine believes is left.
THEOREM HoldingsAreFollowed == Spec => []HoldingsFollow
<1> USE Inputs
<1>1. Init => HoldingsFollow
  BY DEF Init, HoldingsFollow, Whole
<1>2. TypeOK /\ HoldingsFollow /\ [Next]_vars => HoldingsFollow'
  <2> SUFFICES ASSUME TypeOK, HoldingsFollow, [Next]_vars
               PROVE  HoldingsFollow'
    OBVIOUS
  <2>1. ASSUME NEW p \in Prices, NEW t \in Times, CheckTakeProfit(p, t)
        PROVE  HoldingsFollow'
    <3>1. PICK i \in Rungs :
            LET wanted == ladder[i].pct
                sold == IF wanted > remaining THEN remaining ELSE wanted
            IN /\ Observe(p, t, SellOfRemaining(sold))
               /\ remaining' = remaining - sold
      BY <2>1 DEF CheckTakeProfit
    <3> DEFINE sold == IF ladder[i].pct > remaining THEN remaining ELSE ladder[i].pct
    <3>2. /\ Observe(p, t, Sell(sold, remaining, "TakeProfit"))
          /\ remaining' = remaining - sold
      BY <3>1 DEF SellOfRemaining
    <3>3. remaining \in 1 .. 100 /\ held = 100 * remaining
      BY <3>2 DEF Observe, IsClosed, TypeOK, HoldingsFollow
    <3>4. sold \in Nat /\ sold <= remaining
      <4>1. ladder[i].pct \in 1 .. 100
        BY ValidRung
      <4>2. QED
        BY <3>3, <4>1
    <3> HIDE DEF sold
    <3>5. held' = Kept(held, sold, remaining)
      BY <3>2, Answers DEF Observe
    <3>6. Kept(100 * remaining, sold, remaining) = 100 * (remaining - sold)
      BY <3>3, <3>4, KeptShare
    <3>7. QED
      BY <3>2, <3>3, <3>5, <3>6 DEF HoldingsFollow
  <2>2. CASE remaining' = 0
    BY <2>2 DEF HoldingsFollow, IsClosed
  <2>3. ASSUME NEW p \in Prices, NEW t \in Times, HoldOn(p, t)
        PROVE  HoldingsFollow'
    BY <2>3, Answers DEF HoldOn, Observe, HoldingsFollow, IsClosed
  <2>4. CASE UNCHANGED <<remaining, held>>
    BY <2>4 DEF HoldingsFollow, IsClosed
  <2>5. QED
    BY <2>1, <2>2, <2>3, <2>4
       DEF Next, OnTick, CheckStopLoss, CheckTrailingStop, CheckMaxHold, SellAll,
           TickClosed, position, vars
<1>3. QED
  BY <1>1, <1>2, TypeCorrect, PTL DEF Spec

-----------------------------------------------------------------------------
\* The equation of the running sum in SellPct, on the first n rungs, and the
\* sum itself.
SumsUp(g, l, rungs, n) ==
  g = [k \in 0 .. n |->
         IF k = 0 THEN 0 ELSE g[k - 1] + IF k \in rungs THEN l[k].pct ELSE 0]

RunningSum(l, rungs) == CHOOSE g : SumsUp(g, l, rungs, Len(l))

Rung == [target : Int, pct : Int]

\* A running sum exists: one over n rungs is extended to n + 1 of them.
LEMMA RunningSumExists ==
  ASSUME NEW l, NEW rungs
  PROVE  \A n \in Nat : \E g : SumsUp(g, l, rungs, n)
<1> DEFINE T == {n \in Nat : ~\E g : SumsUp(g, l, rungs, n)}
<1>1. SUFFICES ASSUME T # {}
               PROVE  FALSE
  OBVIOUS
<1>2. PICK m \in T : \A k \in T : m <= k
  <2>1. T \subseteq Nat
    OBVIOUS
  <2> HIDE DEF T
  <2>2. QED
    BY <1>1, <2>1, LeastNumber
<1>3. m \in Nat /\ ~\E g : SumsUp(g, l, rungs, m)
  OBVIOUS
<1>4. CASE m = 0
  <2>1. SumsUp([k \in 0 .. 0 |-> 0], l, rungs, 0)
    <3>1. \A k \in 0 .. 0 : k = 0
      OBVIOUS
    <3>2. QED
      BY <3>1 DEF SumsUp
  <2>2. QED
    BY <1>3, <1>4, <2>1
<1>5. CASE m # 0
  <2>1. m - 1 \in Nat /\ ~(m <= m - 1)
    BY <1>3, <1>5
  <2>2. m - 1 \notin T
    BY <1>2, <2>1
  <2>3. PICK g : SumsUp(g, l, rungs, m - 1)
    BY <2>1, <2>2
  <2> DEFINE h == [k \in 0 .. m |->
                     IF k = 0 THEN 0 ELSE g[k - 1] + IF k \in rungs THEN l[k].pct ELSE 0]
  <2>4. \A k \in 0 .. m - 1 :
          g[k] = IF k = 0 THEN 0 ELSE g[k - 1] + IF k \in rungs THEN l[k].pct ELSE 0
    BY <2>3 DEF SumsUp
  <2>5. \A k \in 0 .. m - 1 : k \in 0 .. m /\ h[k] = g[k]
    BY <1>3, <2>4
  <2>6. \A k \in 0 .. m : k # 0 => k - 1 \in 0 .. m - 1 /\ h[k - 1] = g[k - 1]
    <3>1. \A k \in 0 .. m : k # 0 => k - 1 \in 0 .. m - 1
      BY <1>3
    <3>2. QED
      BY <2>5, <3>1
  <2>7. SumsUp(h, l, rungs, m)
    <3>1. \A k \in 0 .. m :
            h[k] = IF k = 0 THEN 0 ELSE h[k - 1] + IF k \in rungs THEN l[k].pct ELSE 0
      BY <2>6
    <3>2. DOMAIN h = 0 .. m /\ h = [k \in 0 .. m |-> h[k]]
      OBVIOUS
    <3> HIDE DEF h
    <3>3. QED
      BY <3>1, <3>2 DEF SumsUp
  <2>8. QED
    BY <1>3, <2>7
<1>6. QED
  BY <1>4, <1>5

LEMMA RunningSumSteps ==
  ASSUME NEW l \in Seq(Rung), NEW rungs
  PROVE  /\ SellPct(l, rungs) = RunningSum(l, rungs)[Len(l)]
         /\ RunningSum(l, rungs)[0] = 0
         /\ \A k \in 1 .. Len(l) :
              RunningSum(l, rungs)[k]
                = RunningSum(l, rungs)[k - 1] + IF k \in rungs THEN l[k].pct ELSE 0
<1>1. Len(l) \in Nat
  OBVIOUS
<1> DEFINE g == RunningSum(l, rungs)
<1>2. SumsUp(g, l, rungs, Len(l))
  <2>1. \E f : SumsUp(f, l, rungs, Len(l))
    BY <1>1, RunningSumExists
  <2>2. QED
    BY <2>1, Zenon DEF RunningSum
<1>3. SellPct(l, rungs) = g[Len(l)]
  BY Zenon DEF SellPct, RunningSum, SumsUp
<1> HIDE DEF g
<1>4. \A k \in 0 .. Len(l) :
        g[k] = IF k = 0 THEN 0 ELSE g[k - 1] + IF k \in rungs THEN l[k].pct ELSE 0
  BY <1>2 DEF SumsUp
<1>5. g[0] = 0
  BY <1>1, <1>4
<1>6. \A k \in 1 .. Len(l) : k \in 0 .. Len(l) /\ k # 0
  BY <1>1
<1>7. QED
  BY <1>3, <1>4, <1>5, <1>6 DEF g

\* What has fired sells more by exactly the rung that fires next.
LEMMA SellPctGrows ==
  ASSUME NEW l \in Seq(Rung), NEW rungs, NEW i \in DOMAIN l, i \notin rungs
  PROVE  /\ SellPct(l, rungs) \in Int
         /\ SellPct(l, rungs \cup {i}) = SellPct(l, rungs) + l[i].pct
<1> DEFINE f == RunningSum(l, rungs)
           g == RunningSum(l, rungs \cup {i})
           Upto(k) == /\ f[k] \in Int
                      /\ g[k] = f[k] + IF i <= k THEN l[i].pct ELSE 0
           T == {k \in 0 .. Len(l) : ~Upto(k)}
<1>1. Len(l) \in Nat /\ i \in 1 .. Len(l) /\ \A k \in 1 .. Len(l) : l[k].pct \in Int
  <2>1. Len(l) \in Nat /\ DOMAIN l = 1 .. Len(l)
    OBVIOUS
  <2>2. \A k \in DOMAIN l : l[k] \in Rung
    BY ElementOfSeq
  <2>3. \A r \in Rung : r.pct \in Int
    BY DEF Rung
  <2>4. \A k \in DOMAIN l : l[k].pct \in Int
    BY <2>2, <2>3
  <2>5. QED
    BY <2>1, <2>4, Zenon
<1>2. /\ f[0] = 0 /\ g[0] = 0
      /\ SellPct(l, rungs) = f[Len(l)] /\ SellPct(l, rungs \cup {i}) = g[Len(l)]
      /\ \A k \in 1 .. Len(l) :
           /\ f[k] = f[k - 1] + IF k \in rungs THEN l[k].pct ELSE 0
           /\ g[k] = g[k - 1] + IF k \in rungs \cup {i} THEN l[k].pct ELSE 0
  BY RunningSumSteps
<1> HIDE DEF f, g
<1>3. T = {}
  <2>1. SUFFICES ASSUME T # {}
                 PROVE  FALSE
    OBVIOUS
  <2>2. T \subseteq Nat
    BY <1>1
  <2> HIDE DEF T
  <2>3. PICK m \in T : \A k \in T : m <= k
    BY <2>1, <2>2, LeastNumber
  <2>4. m \in 0 .. Len(l) /\ ~Upto(m)
    BY <2>3 DEF T
  <2>5. m # 0
    BY <1>1, <1>2, <2>4
  <2>6. m \in 1 .. Len(l) /\ m - 1 \in 0 .. Len(l) /\ ~(m <= m - 1)
    BY <1>1, <2>4, <2>5
  <2>7. Upto(m - 1)
    BY <2>3, <2>6 DEF T
  <2>8. Upto(m)
    <3>1. /\ f[m] = f[m - 1] + IF m \in rungs THEN l[m].pct ELSE 0
          /\ g[m] = g[m - 1] + IF m \in rungs \cup {i} THEN l[m].pct ELSE 0
          /\ l[m].pct \in Int
      BY <1>1, <1>2, <2>6
    <3>2. CASE m = i
      BY <1>1, <2>6, <2>7, <3>1, <3>2
    <3>3. CASE m # i
      BY <1>1, <2>6, <2>7, <3>1, <3>3
    <3>4. QED
      BY <3>2, <3>3
  <2>9. QED
    BY <2>4, <2>8
<1>4. Upto(Len(l))
  BY <1>1, <1>3
<1>5. QED
  BY <1>1, <1>2, <1>4

LEMMA NothingSold ==
  ASSUME NEW l \in Seq(Rung)
  PROVE  SellPct(l, {}) = 0
<1> DEFINE f == RunningSum(l, {})
           T == {k \in 0 .. Len(l) : f[k] # 0}
<1>1. /\ Len(l) \in Nat /\ f[0] = 0 /\ SellPct(l, {}) = f[Len(l)]
      /\ \A k \in 1 .. Len(l) : f[k] = f[k - 1] + IF k \in {} THEN l[k].pct ELSE 0
  BY RunningSumSteps
<1> HIDE DEF f
<1>2. T = {}
  <2>1. SUFFICES ASSUME T # {}
                 PROVE  FALSE
    OBVIOUS
  <2>2. T \subseteq Nat
    BY <1>1
  <2> HIDE DEF T
  <2>3. PICK m \in T : \A k \in T : m <= k
    BY <2>1, <2>2, LeastNumber
  <2>4. m \in 0 .. Len(l) /\ f[m] # 0
    BY <2>3 DEF T
  <2>5. m \in 1 .. Len(l) /\ m - 1 \in 0 .. Len(l) /\ ~(m <= m - 1)
    BY <1>1, <2>4
  <2>6. f[m - 1] = 0
    BY <2>3, <2>5 DEF T
  <2>7. f[m] = f[m - 1] + 0
    BY <1>1, <2>5
  <2>8. QED
    BY <2>4, <2>6, <2>7
<1>3. QED
  BY <1>1, <1>2

\* The state machine's share is what the fired rungs left of the original,
\* whatever the order of the ladder and however the price jumps.
THEOREM LadderIsAccounted == Spec => []LadderAccounting
<1> USE Inputs
<1>1. Init => LadderAccounting
  <2> SUFFICES ASSUME Init
               PROVE  LadderAccounting
    OBVIOUS
  <2>1. SoldBy(fired) = 0
    BY LadderType, NothingSold DEF Init, SoldBy, Rung
  <2>2. QED
    BY <2>1 DEF Init, LadderAccounting
<1>2. TypeOK /\ LadderAccounting /\ [Next]_vars => LadderAccounting'
  <2> SUFFICES ASSUME TypeOK, LadderAccounting, [Next]_vars
               PROVE  LadderAccounting'
    OBVIOUS
  <2>1. ASSUME NEW p \in Prices, NEW t \in Times, CheckTakeProfit(p, t)
        PROVE  LadderAccounting'
    <3>1. PICK i \in Rungs :
            /\ NextRung(p, i)
            /\ remaining' = remaining
                 - (IF ladder[i].pct > remaining THEN remaining ELSE ladder[i].pct)
            /\ fired' = fired \cup {i}
      BY <2>1 DEF CheckTakeProfit, MarkFired
    <3>2. ~IsClosed /\ cfg' = cfg
      BY <2>1 DEF CheckTakeProfit, Observe
    <3>3. ladder[i].pct \in 1 .. 100 /\ remaining \in 0 .. 100
      BY ValidRung DEF TypeOK
    <3>4. SoldBy(fired)' = SoldBy(fired \cup {i})
      BY <3>1, <3>2 DEF SoldBy, ladder
    <3>5. /\ SoldBy(fired) \in Int
          /\ SoldBy(fired \cup {i}) = SoldBy(fired) + ladder[i].pct
      <4>1. ladder \in Seq(Rung) /\ i \in DOMAIN ladder /\ i \notin fired
        BY <3>1, LadderType DEF TypeOK, Rung, Rungs, NextRung, RungHit
      <4>2. QED
        BY <4>1, SellPctGrows DEF SoldBy
    <3>6. remaining = 100 - SoldBy(fired)
      BY <3>2 DEF LadderAccounting
    <3> DEFINE pct == ladder[i].pct
    <3>7. remaining' = remaining - (IF pct > remaining THEN remaining ELSE pct)
      BY <3>1
    <3>8. /\ pct \in 1 .. 100 /\ SoldBy(fired) \in Int
          /\ SoldBy(fired)' = SoldBy(fired) + pct
      BY <3>3, <3>4, <3>5
    <3> HIDE DEF pct
    <3>9. remaining' # 0 => remaining' = 100 - SoldBy(fired)'
      BY <3>3, <3>6, <3>7, <3>8
    <3>10. QED
      BY <3>9 DEF LadderAccounting, IsClosed
  <2>2. CASE remaining' = 0
    BY <2>2 DEF LadderAccounting, IsClosed
  <2>3. CASE UNCHANGED <<cfg, remaining, fired>>
    BY <2>3 DEF LadderAccounting, IsClosed, SoldBy, ladder
  <2>4. QED
    BY <2>1, <2>2, <2>3
       DEF Next, OnTick, CheckStopLoss, CheckTrailingStop, CheckMaxHold, SellAll,
           HoldOn, Observe, TickClosed, position, vars
<1>3. QED
  BY <1>1, <1>2, TypeCorrect, PTL DEF Spec

-----------------------------------------------------------------------------
\* A position only ever shrinks, one rung per tick at most.
THEOREM Shrinking == Spec => OnlyShrinks
<1> USE Inputs
<1> DEFINE Shrinks ==
      /\ remaining' <= remaining
      /\ fired \subseteq fired' /\ Cardinality(fired' \ fired) <= 1
      /\ armed => armed'
      /\ peak' >= peak
      /\ IsClosed => action' = Closed
<1>1. \A S : Cardinality(S \ S) <= 1 /\ \A x : Cardinality((S \cup {x}) \ S) <= 1
  <2> SUFFICES ASSUME NEW S, NEW x
               PROVE  Cardinality(S \ S) <= 1 /\ Cardinality((S \cup {x}) \ S) <= 1
    OBVIOUS
  <2>1. S \ S = {} /\ (S \cup {x}) \ S \in {{}, {x}}
    OBVIOUS
  <2>2. Cardinality({}) = 0 /\ Cardinality({x}) = 1
    BY FS_EmptySet, FS_Singleton
  <2>3. QED
    BY <2>1, <2>2
<1>2. TypeOK /\ [Next]_vars => [Shrinks]_vars
  <2> SUFFICES ASSUME TypeOK, NEW p \in Prices, NEW t \in Times, OnTick(p, t)
               PROVE  Shrinks
    BY DEF Next
  <2>0. p \in Nat /\ peak \in Nat /\ remaining \in 0 .. 100 /\ NewPeak(p) >= peak
    BY DEF TypeOK, NewPeak
  <2>1. CASE CheckTakeProfit(p, t)
    <3>1. PICK i \in Rungs :
            /\ remaining' = remaining
                 - (IF ladder[i].pct > remaining THEN remaining ELSE ladder[i].pct)
            /\ fired' = fired \cup {i}
      BY <2>1 DEF CheckTakeProfit, MarkFired
    <3>2. remaining' <= remaining
      <4> DEFINE pct == ladder[i].pct
      <4>1. pct \in 1 .. 100
        BY ValidRung
      <4>2. remaining' = remaining - (IF pct > remaining THEN remaining ELSE pct)
        BY <3>1
      <4> HIDE DEF pct
      <4>3. QED
        BY <2>0, <4>1, <4>2
    <3>3. ~IsClosed /\ peak' = NewPeak(p) /\ armed' = armed
      BY <2>1 DEF CheckTakeProfit, Observe
    <3>4. Cardinality(fired' \ fired) <= 1
      <4>1. fired' \ fired = (fired \cup {i}) \ fired
        BY <3>1
      <4>2. Cardinality((fired \cup {i}) \ fired) <= 1
        BY <1>1
      <4>3. QED
        BY <4>1, <4>2
    <3>5. peak' >= peak /\ (armed => armed') /\ (IsClosed => action' = Closed)
      BY <2>0, <3>3
    <3>6. QED
      BY <3>1, <3>2, <3>4, <3>5
  <2>2. CASE TickClosed(p, t)
    BY <1>1, <2>0, <2>2 DEF TickClosed, position
  <2>3. ASSUME ~IsClosed, remaining' \in {0, remaining}, fired' = fired, peak' = NewPeak(p),
               armed => armed'
        PROVE  Shrinks
    BY <1>1, <2>0, <2>3
  <2>4. CASE CheckStopLoss(p, t)
    BY <2>3, <2>4 DEF CheckStopLoss, SellAll, Observe
  <2>5. CASE CheckTrailingStop(p, t)
    BY <2>3, <2>5 DEF CheckTrailingStop, SellAll, Observe
  <2>6. CASE CheckMaxHold(p, t)
    BY <2>3, <2>6 DEF CheckMaxHold, SellAll, Observe, Arming
  <2>7. CASE HoldOn(p, t)
    BY <2>3, <2>7 DEF HoldOn, Observe, Arming
  <2>8. QED
    BY <2>1, <2>2, <2>4, <2>5, <2>6, <2>7 DEF OnTick
<1>3. QED
  BY <1>2, TypeCorrect, PTL DEF Spec, OnlyShrinks
=============================================================================
