---------------------------- MODULE PositionState ----------------------------
(***************************************************************************)
(* The exit state machine of src/strategy.rs.  The caller feeds it a price *)
(* and a wall-clock time per tick, and gets back at most one thing to do.  *)
(*                                                                         *)
(* Prices are integers, and every multiplier of the configuration stands   *)
(* here as the price entry_price * multiplier.  Shares are integers: a     *)
(* percentage of the original position for remaining, a quotient for the   *)
(* fraction of a Sell.  The rounding of f64 is not modelled.               *)
(***************************************************************************)
EXTENDS Integers, Sequences, FiniteSets

CONSTANTS
  EntryPrice, EntryTs,  \* of PositionState::open
  Candidates,           \* the [strategy] sections a config file may hold
  Prices, Times         \* what a tick may bring

\* What the given rungs of ladder l sell, added up in ladder order.
SellPct(l, rungs) ==
  LET sum[n \in 0 .. Len(l)] ==
        IF n = 0 THEN 0 ELSE sum[n - 1] + IF n \in rungs THEN l[n].pct ELSE 0
  IN  sum[Len(l)]

\* Mutant: a rung may sell nothing.
ValidatesEmptyRungs(c) ==
  /\ c.stopLoss > 0 /\ c.stopLoss < EntryPrice
  /\ SellPct(c.ladder, DOMAIN c.ladder) <= 100
  /\ \A i \in DOMAIN c.ladder :
       c.ladder[i].target > EntryPrice /\ c.ladder[i].pct \in 0 .. 100

\* What Config::validate asks of the section.  A ladder need not be sorted, and
\* the fields of the trailing stop and max_hold_seconds are not looked at.
Validates(c) ==
  /\ c.stopLoss > 0 /\ c.stopLoss < EntryPrice
  /\ SellPct(c.ladder, DOMAIN c.ladder) <= 100
  /\ \A i \in DOMAIN c.ladder :
       c.ladder[i].target > EntryPrice /\ c.ladder[i].pct \in 1 .. 100

Configs == {c \in Candidates : Validates(c)}

\* The types of the fields; a float may be negative, maxHold is a u64.
ASSUME PositionAssumption ==
  /\ EntryPrice \in Nat \ {0}
  /\ EntryTs \in Nat
  /\ \A c \in Candidates :
       /\ c.ladder \in Seq([target : Int, pct : Int])
       /\ c.stopLoss \in Int /\ c.activation \in Int /\ c.drawdownPct \in Int
       /\ c.maxHold \in Nat
  /\ Prices \subseteq Nat
  /\ Times \subseteq Nat

VARIABLES
  cfg,        \* the section the bot was started with
  peak,       \* peak_price
  remaining,  \* percent of the original position, 0 when closed
  fired,      \* fired_rungs, as the set of their indices
  armed,      \* trailing_armed
  action,     \* the StrategyAction returned last
  tick,       \* the price and time it answers
  held        \* the caller's tokens, in 1/100 % of the original position, when
              \* it sells the fraction it is told to of what it holds

position == <<cfg, peak, remaining, fired, armed>>
vars == <<position, action, tick, held>>

\* Its fields: target prices and percentages, prices, a percentage, seconds.
ladder == cfg.ladder
StopLoss == cfg.stopLoss
Activation == cfg.activation
DrawdownPct == cfg.drawdownPct
MaxHold == cfg.maxHold

Rungs == DOMAIN ladder

\* The percentage that a set of rungs sells.
SoldBy(rungs) == SellPct(ladder, rungs)

\* The caller's holdings at the start, in the unit of held.
Whole == 10000

Reasons == {"TakeProfit", "StopLoss", "TrailingStop", "MaxHold"}
Unticked == [kind |-> "Unticked"]  \* before the first tick
Hold == [kind |-> "Hold"]
Closed == [kind |-> "Closed"]
Sell(num, den, reason) ==
  [kind |-> "Sell", num |-> num, den |-> den, reason |-> reason]

\* StrategyAction: a Sell is of a fraction in (0, 1].
Sells ==
  {a \in [kind : {"Sell"}, num : 1 .. 100, den : 1 .. 100, reason : Reasons] :
     a.num <= a.den}
Actions == {Unticked, Hold, Closed} \cup Sells

TypeOK ==
  /\ cfg \in Configs
  /\ peak \in Nat
  /\ remaining \in 0 .. 100
  /\ fired \subseteq Rungs
  /\ armed \in BOOLEAN
  /\ action \in Actions
  /\ tick \in [price : Nat, now : Nat]
  /\ held \in 0 .. Whole

Init ==
  /\ cfg \in Configs
  /\ peak = EntryPrice
  /\ remaining = 100
  /\ fired = {}
  /\ armed = FALSE
  /\ action = Unticked
  /\ tick = [price |-> EntryPrice, now |-> EntryTs]
  /\ held = Whole

-----------------------------------------------------------------------------
IsClosed == remaining = 0

\* Mutant: the peak follows the price down.
PeakIsLast(p) == p

NewPeak(p) == IF p > peak THEN p ELSE peak

\* The conditions on_tick looks at, in its order.
StopHit(p) == p <= StopLoss
\* Mutant: fired_rungs is not looked at.
RungHitAgain(p, i) == p >= ladder[i].target

RungHit(p, i) == i \notin fired /\ p >= ladder[i].target
\* Mutant: the price arms the trailing stop, not the peak.
ArmingByPrice(p) == armed \/ p >= Activation

Arming(p) == armed \/ NewPeak(p) >= Activation
DrawdownHit(p) == p * 100 <= NewPeak(p) * (100 - DrawdownPct)
TrailHit(p) == Arming(p) /\ DrawdownHit(p)
Held(t) == IF t < EntryTs THEN 0 ELSE t - EntryTs  \* saturating_sub

\* Mutant: > for >=.
OverdueStrictly(t) == Held(t) > MaxHold

Overdue(t) == Held(t) >= MaxHold

Quiet(p) == ~StopHit(p) /\ \A i \in Rungs : ~RungHit(p, i)

\* What a caller keeps of h tokens when it sells the fraction num / den.
Kept(h, num, den) == h - (h * num) \div den

\* An open position sees price p at time t, and answers a.
Observe(p, t, a) ==
  /\ ~IsClosed
  /\ UNCHANGED cfg
  /\ tick' = [price |-> p, now |-> t]
  /\ peak' = NewPeak(p)
  /\ action' = a
  /\ held' = IF a.kind = "Sell" THEN Kept(held, a.num, a.den) ELSE held

\* The three full exits return the remaining share of the ORIGINAL position as
\* the fraction to sell.
SellAll(p, t, reason) ==
  /\ Observe(p, t, Sell(remaining, 100, reason))
  /\ remaining' = 0
  /\ UNCHANGED fired

CheckStopLoss(p, t) ==
  /\ StopHit(p)
  /\ SellAll(p, t, "StopLoss")
  /\ UNCHANGED armed

\* Mutant: the highest rung that is reached.
HighestRung(p, i) ==
  RungHit(p, i) /\ \A j \in i + 1 .. Len(ladder) : ~RungHit(p, j)

\* The first rung in ladder order that is reached and has not fired.
NextRung(p, i) == RungHit(p, i) /\ \A j \in 1 .. i - 1 : ~RungHit(p, j)

MarkFired(i) == fired' = fired \cup {i}

\* Mutant: no conversion to a fraction of what is left.
SellOfOriginal(sold) == Sell(sold, 100, "TakeProfit")

\* sell_from_rung converts a share of the original to a fraction of what is left.
SellOfRemaining(sold) == Sell(sold, remaining, "TakeProfit")

\* One rung per tick, however many are reached.
CheckTakeProfit(p, t) ==
  /\ ~StopHit(p)
  /\ \E i \in Rungs :
       /\ NextRung(p, i)
       /\ LET wanted == ladder[i].pct
              sold == IF wanted > remaining THEN remaining ELSE wanted
          IN /\ Observe(p, t, SellOfRemaining(sold))
             /\ remaining' = remaining - sold
       /\ MarkFired(i)
  /\ UNCHANGED armed

CheckTrailingStop(p, t) ==
  /\ Quiet(p)
  /\ TrailHit(p)
  /\ armed' = TRUE
  /\ SellAll(p, t, "TrailingStop")

CheckMaxHold(p, t) ==
  /\ Quiet(p)
  /\ ~TrailHit(p)
  /\ Overdue(t)
  /\ armed' = Arming(p)
  /\ SellAll(p, t, "MaxHold")

HoldOn(p, t) ==
  /\ Quiet(p)
  /\ ~TrailHit(p)
  /\ ~Overdue(t)
  /\ armed' = Arming(p)
  /\ Observe(p, t, Hold)
  /\ UNCHANGED <<remaining, fired>>

TickClosed(p, t) ==
  /\ IsClosed
  /\ tick' = [price |-> p, now |-> t]
  /\ action' = Closed
  /\ UNCHANGED <<position, held>>

OnTick(p, t) ==
  \/ CheckStopLoss(p, t)
  \/ CheckTakeProfit(p, t)
  \/ CheckTrailingStop(p, t)
  \/ CheckMaxHold(p, t)
  \/ HoldOn(p, t)
  \/ TickClosed(p, t)

Next == \E p \in Prices, t \in Times : OnTick(p, t)

Spec == Init /\ [][Next]_vars

-----------------------------------------------------------------------------
\* While the position is open its remaining share is the original one less the
\* rungs that fired, each counted once, whatever the order of the ladder and
\* however the price jumps.
LadderAccounting == ~IsClosed => remaining = 100 - SoldBy(fired)

\* The caller's holdings follow the state machine's share through every rung.
HoldingsFollow == ~IsClosed => held = 100 * remaining

SoldRung == action.kind = "Sell" /\ action.reason = "TakeProfit"

\* A position past max_hold_seconds stays open only through a tick that sold a
\* take-profit rung, however late the ticks come.
OverdueWaitsForRungsOnly ==
  tick.now >= EntryTs + MaxHold /\ ~IsClosed /\ action # Unticked => SoldRung

\* The same for a position in drawdown whose peak reached the activation price:
\* a spike seen by a tick that only sold a rung arms the trailing stop as well.
TrailWaitsForRungsOnly ==
  /\ peak >= Activation
  /\ tick.price * 100 <= peak * (100 - DrawdownPct)
  /\ ~IsClosed
  /\ action # Unticked
  => SoldRung

\* Rungs of a sorted ladder fire lowest first, also when the price jumps over
\* several, so a later rung never sells before an earlier one.
SortedLadder == \A i, j \in Rungs : i < j => ladder[i].target <= ladder[j].target
RungsFireInOrder ==
  SortedLadder => \A i, j \in Rungs : i < j /\ j \in fired => i \in fired

\* A position only ever shrinks: no tick re-opens it, un-fires a rung, disarms
\* the trailing stop or lowers the peak, and one tick fires one rung at most.
OnlyShrinks ==
  [][/\ remaining' <= remaining
     /\ fired \subseteq fired' /\ Cardinality(fired' \ fired) <= 1
     /\ armed => armed'
     /\ peak' >= peak
     /\ IsClosed => action' = Closed]_vars

\* "Sell a fraction of the remaining position" (the doc of StrategyAction::Sell):
\* a caller that does so has sold everything once the position is closed.
ClosedMeansSold == IsClosed => held = 0
=============================================================================
