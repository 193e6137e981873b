--------------------------- MODULE WalletRotation ---------------------------
(***************************************************************************)
(* WalletPool with two history variables: how often the round-robin cursor *)
(* was drawn, and how often it handed out each wallet.  The cursor is a    *)
(* fixed-width counter that wraps around, and the width need not be a      *)
(* multiple of the pool size, so the rotation restarts at wallet 0 in the  *)
(* middle of a round.                                                      *)
(***************************************************************************)
EXTENDS WalletPool

CONSTANT MaxPicks  \* bound on the round-robin picks of a behaviour

ASSUME RotationAssumption == MaxPicks \in Nat

VARIABLES
  picks,  \* history: round-robin picks so far
  handed  \* history: how many of them went to each wallet

rotationVars == <<vars, picks, handed>>

RotationInit ==
  /\ Init
  /\ picks = 0
  /\ handed = [w \in Wallets |-> 0]

Pick(t) ==
  /\ picks < MaxPicks
  /\ PickRoundRobin(t)
  /\ picks' = picks + 1
  /\ handed' = [handed EXCEPT ![idx'[t]] = @ + 1]

RotationNext ==
  \E t \in Tasks :
    \/ Pick(t)
    \/ /\ \/ PickRandom(t)
          \/ MarkBusy(t)
          \/ TakeFirstAvailable(t)
          \/ Deny(t)
          \/ Release(t)
       /\ UNCHANGED <<picks, handed>>

RotationSpec == RotationInit /\ [][RotationNext]_rotationVars

-----------------------------------------------------------------------------
\* Times the cursor has passed its modulus.
Wraps == picks \div CursorModulus

\* Concurrent callers never skip or repeat a wallet: the shares of any two
\* wallets differ by at most one, plus one for each time the cursor wrapped.
BalancedRotation ==
  \A v, w \in Wallets : handed[v] <= handed[w] + 1 + Wraps
=============================================================================
