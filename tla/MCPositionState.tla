--------------------------- MODULE MCPositionState ---------------------------
(* PositionState with concrete ladders, for TLC.                            *)
EXTENDS PositionState

Rung(target, pct) == [target |-> target, pct |-> pct]

\* 30 % at 1.5x and again at 2x, 40 % at 3x: sells everything.
FullLadder == <<Rung(15, 30), Rung(20, 30), Rung(30, 40)>>

\* Not sorted, two rungs at one price, and 10 % left over.
RaggedLadder == <<Rung(30, 20), Rung(15, 30), Rung(15, 15), Rung(20, 25)>>

Section(l, stop, activation, drawdown, hold) ==
  [ladder |-> l, stopLoss |-> stop, activation |-> activation,
   drawdownPct |-> drawdown, maxHold |-> hold]

Usual(l) == Section(l, 7, 18, 25, 60)

\* The usual section with each ladder; trailing stops that nothing validates:
\* armed from the start, fired by every tick, and beyond reach; a hold of zero;
\* and sections that are refused.
Sections ==
  {Usual(FullLadder), Usual(RaggedLadder), Usual(<<>>),
   Section(<<Rung(15, 40)>>, 7, -5, 25, 60),
   Section(<<Rung(15, 40)>>, 9, 12, 0, 60),
   Section(<<Rung(15, 40)>>, 7, 12, 120, 60),
   Section(<<Rung(15, 40)>>, 7, 100, 25, 0),
   Usual(<<Rung(15, 60), Rung(20, 60)>>), Usual(<<Rung(15, 130), Rung(20, -30)>>),
   Usual(<<Rung(10, 50)>>), Usual(<<Rung(15, 0)>>),
   Section(<<>>, 10, 18, 25, 60), Section(<<>>, 0, 18, 25, 60)}

\* One section with one rung, for the run that shows what a full exit leaves.
OneRung == {Section(<<Rung(15, 40)>>, 7, 18, 25, 60)}
=============================================================================
