------------------------ MODULE WalletRotationProofs ------------------------
(***************************************************************************)
(* Proofs about WalletRotation, for every pool size, cursor width, set of  *)
(* tasks and bound on the picks.  The histories change nothing the pool    *)
(* does, so what WalletPoolProofs proves holds here as well.               *)
(***************************************************************************)
EXTENDS WalletRotation, WalletPoolProofs, NaturalLemmas

\* With its histories the pool takes the steps of WalletPool and no others:
\* the leases, denials and flags of the counted pool are those of the pool.
THEOREM RotationIsThePool == RotationSpec => Spec
<1>1. RotationInit => Init
  BY DEF RotationInit
<1>2. [RotationNext]_rotationVars => [Next]_vars
  BY DEF RotationNext, rotationVars, Pick, Next
<1>3. QED
  BY <1>1, <1>2, PTL DEF RotationSpec, Spec

-----------------------------------------------------------------------------
\* How often wallet w comes up among the first c values of the cursor.
Share(w, c) == c \div NumWallets + IF w < c % NumWallets THEN 1 ELSE 0

\* The cursor value c goes to wallet c % NumWallets and to no other.
LEMMA ShareGrows ==
  ASSUME NEW w \in Wallets, NEW c \in Nat
  PROVE  Share(w, c + 1) = Share(w, c) + IF w = c % NumWallets THEN 1 ELSE 0
<1>1. /\ c % NumWallets \in 0 .. NumWallets - 1
      /\ c \div NumWallets \in Int
  BY PoolAssumption
<1>2. CASE c % NumWallets = NumWallets - 1
  <2>1. /\ (c + 1) % NumWallets = 0
        /\ (c + 1) \div NumWallets = c \div NumWallets + 1
    BY <1>2, DivModSuccessor, PoolAssumption
  <2>2. QED
    BY <1>1, <1>2, <2>1, PoolAssumption DEF Share, Wallets
<1>3. CASE c % NumWallets # NumWallets - 1
  <2>1. /\ (c + 1) % NumWallets = (c % NumWallets) + 1
        /\ (c + 1) \div NumWallets = c \div NumWallets
    BY <1>3, DivModSuccessor, PoolAssumption
  <2>2. QED
    BY <1>1, <1>3, <2>1, PoolAssumption DEF Share, Wallets
<1>4. QED
  BY <1>2, <1>3

\* In a run of consecutive cursor values from 0 two shares differ by one at
\* most.
LEMMA SharesAreEven ==
  ASSUME NEW v \in Wallets, NEW w \in Wallets, NEW c \in Nat
  PROVE  /\ Share(v, c) \in Int /\ Share(w, c) \in Int
         /\ Share(v, c) <= Share(w, c) + 1
<1>1. c % NumWallets \in Int /\ c \div NumWallets \in Int
  BY PoolAssumption
<1>2. QED
  BY <1>1 DEF Share

-----------------------------------------------------------------------------
\* BalancedRotation alone is not inductive: it does not say where the cursor
\* stands.  Between two wraps the counts grow as the shares of the cursor do,
\* and the difference a wrap leaves behind is the one it adds to Wraps.
RotationInv ==
  /\ picks \in Nat
  /\ cursor = picks % CursorModulus
  /\ handed \in [Wallets -> Nat]
  /\ \A v, w \in Wallets :
       handed[v] - handed[w] <= Wraps + Share(v, cursor) - Share(w, cursor)

LEMMA PickKeepsShares ==
  ASSUME TypeOK, RotationInv, NEW t \in Tasks, Pick(t)
  PROVE  RotationInv'
<1> USE PoolAssumption
<1>1. /\ cursor \in Nat /\ cursor < CursorModulus
      /\ cursor' = (cursor + 1) % CursorModulus
      /\ picks \in Nat /\ picks' = picks + 1 /\ Wraps \in Int
      /\ handed \in [Wallets -> Nat] /\ Turn \in Wallets
      /\ handed' = [handed EXCEPT ![Turn] = @ + 1]
  <2>1. idx'[t] = Turn
    BY DEF TypeOK, Pick, PickRoundRobin, Move
  <2>2. Turn \in Wallets
    BY DEF TypeOK, Turn, Wallets
  <2>3. QED
    BY <2>1, <2>2 DEF TypeOK, Pick, PickRoundRobin, NextCursor, RotationInv, Wraps
<1>2. handed' \in [Wallets -> Nat]
  BY <1>1
<1>3. ASSUME NEW v \in Wallets, NEW w \in Wallets
      PROVE  handed'[v] - handed'[w]
               <= Wraps + Share(v, cursor + 1) - Share(w, cursor + 1)
  <2>1. handed[v] - handed[w] <= Wraps + Share(v, cursor) - Share(w, cursor)
    BY DEF RotationInv
  <2>2. /\ handed'[v] = handed[v] + IF v = Turn THEN 1 ELSE 0
        /\ handed'[w] = handed[w] + IF w = Turn THEN 1 ELSE 0
        /\ handed[v] \in Nat /\ handed[w] \in Nat
    BY <1>1
  <2>3. /\ Share(v, cursor + 1) = Share(v, cursor) + IF v = Turn THEN 1 ELSE 0
        /\ Share(w, cursor + 1) = Share(w, cursor) + IF w = Turn THEN 1 ELSE 0
    BY <1>1, ShareGrows DEF Turn
  <2>4. Share(v, cursor) \in Int /\ Share(w, cursor) \in Int
    BY <1>1, SharesAreEven
  <2>5. QED
    BY <1>1, <2>1, <2>2, <2>3, <2>4
<1>4. cursor' = picks' % CursorModulus
  <2>1. cursor = picks % CursorModulus
    BY DEF RotationInv
  <2>2. CASE cursor = CursorModulus - 1
    <3>1. (cursor + 1) % CursorModulus = 0
      BY <1>1, <2>2, DivModSuccessor
    <3>2. QED
      BY <1>1, <2>1, <2>2, <3>1, DivModSuccessor
  <2>3. CASE cursor # CursorModulus - 1
    <3>1. (cursor + 1) % CursorModulus = cursor + 1
      BY <1>1, <2>3
    <3>2. QED
      BY <1>1, <2>1, <2>3, <3>1, DivModSuccessor
  <2>4. QED
    BY <2>2, <2>3
<1>5. \A v, w \in Wallets :
        handed'[v] - handed'[w] <= Wraps' + Share(v, cursor') - Share(w, cursor')
  <2> SUFFICES ASSUME NEW v \in Wallets, NEW w \in Wallets
               PROVE  handed'[v] - handed'[w]
                        <= Wraps' + Share(v, cursor') - Share(w, cursor')
    OBVIOUS
  <2>0. handed'[v] \in Nat /\ handed'[w] \in Nat
    BY <1>2
  <2>1. cursor = picks % CursorModulus
    BY DEF RotationInv
  <2>2. CASE cursor = CursorModulus - 1
    <3>1. cursor' = 0 /\ Wraps' = Wraps + 1
      <4>1. picks' \div CursorModulus = picks \div CursorModulus + 1
        BY <1>1, <2>1, <2>2, DivModSuccessor
      <4>2. CursorModulus % CursorModulus = 0
        BY <1>1, <2>2, DivModSuccessor
      <4>3. QED
        BY <1>1, <2>2, <4>1, <4>2 DEF Wraps
    <3>2. /\ Share(v, cursor + 1) <= Share(w, cursor + 1) + 1
          /\ Share(v, cursor + 1) \in Int /\ Share(w, cursor + 1) \in Int
      BY <1>1, SharesAreEven
    <3>3. Share(v, 0) = Share(w, 0) /\ Share(v, 0) \in Int
      BY DEF Share, Wallets
    <3>4. QED
      BY <1>1, <1>3, <2>0, <3>1, <3>2, <3>3
  <2>3. CASE cursor # CursorModulus - 1
    <3>1. cursor' = cursor + 1
      BY <1>1, <2>3
    <3>2. Wraps' = Wraps
      BY <1>1, <2>1, <2>3, DivModSuccessor DEF Wraps
    <3>3. QED
      BY <1>3, <3>1, <3>2
  <2>4. QED
    BY <2>2, <2>3
<1>6. picks' \in Nat
  BY <1>1
<1>7. QED
  BY <1>2, <1>4, <1>5, <1>6, Zenon DEF RotationInv

LEMMA RotationInvariance == RotationSpec => []RotationInv
<1> USE PoolAssumption
<1>1. RotationInit => RotationInv
  <2> SUFFICES ASSUME RotationInit
               PROVE  RotationInv
    OBVIOUS
  <2>1. picks = 0 /\ cursor = 0 /\ handed = [w \in Wallets |-> 0]
    BY DEF RotationInit, Init
  <2>2. 0 % CursorModulus = 0 /\ 0 \div CursorModulus = 0
    <3> DEFINE q == 0 \div CursorModulus
               r == 0 % CursorModulus
    <3>1. q \in Int /\ r \in 0 .. CursorModulus - 1 /\ 0 = CursorModulus * q + r
      OBVIOUS
    <3> HIDE DEF q, r
    <3>2. q = 0
      <4>1. CASE q >= 1
        <5>1. CursorModulus * q >= CursorModulus * 1
          BY <3>1, <4>1
        <5>2. QED
          BY <3>1, <5>1
      <4>2. CASE q <= -1
        <5>1. CursorModulus * q <= CursorModulus * (-1)
          BY <3>1, <4>2
        <5>2. QED
          BY <3>1, <5>1
      <4>3. QED
        BY <3>1, <4>1, <4>2
    <3>3. QED
      BY <3>1, <3>2 DEF q, r
  <2>3. \A v, w \in Wallets : Share(v, 0) = Share(w, 0) /\ Share(v, 0) \in Int
    BY DEF Share, Wallets
  <2>4. QED
    BY <2>1, <2>2, <2>3 DEF RotationInv, Wraps
<1>2. TypeOK /\ RotationInv /\ [RotationNext]_rotationVars => RotationInv'
  <2> SUFFICES ASSUME TypeOK, RotationInv, [RotationNext]_rotationVars
               PROVE  RotationInv'
    OBVIOUS
  <2>1. ASSUME NEW t \in Tasks, Pick(t)
        PROVE  RotationInv'
    BY <2>1, PickKeepsShares
  <2>2. CASE UNCHANGED <<cursor, picks, handed>>
    BY <2>2 DEF RotationInv, Wraps
  <2>3. QED
    BY <2>1, <2>2 DEF RotationNext, rotationVars, vars, PickRandom, MarkBusy,
       TakeFirstAvailable, Deny, Release
<1>3. QED
  BY <1>1, <1>2, RotationIsThePool, TypeCorrect, PTL DEF RotationSpec

\* Round-robin is fair for every width of the cursor and every size of the
\* pool: between two wraps two wallets are handed out equally often but for
\* one pick, and each wrap costs one pick more.
THEOREM RotationIsBalanced == RotationSpec => []BalancedRotation
<1>1. RotationInv /\ TypeOK => BalancedRotation
  <2> SUFFICES ASSUME RotationInv, TypeOK, NEW v \in Wallets, NEW w \in Wallets
               PROVE  handed[v] <= handed[w] + 1 + Wraps
    BY DEF BalancedRotation
  <2>1. handed[v] \in Nat /\ handed[w] \in Nat /\ Wraps \in Int
    BY PoolAssumption DEF RotationInv, Wraps
  <2>2. /\ Share(v, cursor) <= Share(w, cursor) + 1
        /\ Share(v, cursor) \in Int /\ Share(w, cursor) \in Int
    BY PoolAssumption, SharesAreEven DEF TypeOK
  <2>3. handed[v] - handed[w] <= Wraps + Share(v, cursor) - Share(w, cursor)
    BY DEF RotationInv
  <2>4. QED
    BY <2>1, <2>2, <2>3
<1>2. QED
  BY <1>1, RotationInvariance, RotationIsThePool, TypeCorrect, PTL
=============================================================================
