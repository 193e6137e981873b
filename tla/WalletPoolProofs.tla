-------------------------- MODULE WalletPoolProofs --------------------------
(***************************************************************************)
(* Proofs about WalletPool, for every pool size, strategy, cursor width    *)
(* and set of tasks.                                                       *)
(***************************************************************************)
EXTENDS WalletPool, TLAPS

\* A task that moves keeps the types of what Move assigns.
LEMMA MoveKeepsTypes ==
  ASSUME TypeOK, NEW t \in Tasks, NEW p \in Phases, NEW w \in Wallets, Move(t, p, w)
  PROVE  /\ strategy' \in Strategies
         /\ phase' \in [Tasks -> Phases]
         /\ idx' \in [Tasks -> Wallets]
BY DEF TypeOK, Move

\* Both halves of acquire() that leave the flags alone: the choice of a wallet
\* before the lock is taken, and the search that finds none.
LEMMA ChoiceKeepsTypes ==
  ASSUME TypeOK, NEW t \in Tasks, PickRoundRobin(t) \/ PickRandom(t) \/ Deny(t)
  PROVE  TypeOK'
<1>1. Turn \in Wallets /\ NextCursor \in 0 .. CursorModulus - 1
  BY PoolAssumption DEF TypeOK, Turn, NextCursor, Wallets
<1>2. \E p \in Phases, w \in Wallets : Move(t, p, w)
  BY <1>1 DEF TypeOK, Phases, PickRoundRobin, PickRandom, Deny
<1>3. cursor' \in 0 .. CursorModulus - 1 /\ busy' = busy
  BY <1>1 DEF TypeOK, PickRoundRobin, PickRandom, Deny
<1>4. QED
  BY <1>2, <1>3, MoveKeepsTypes DEF TypeOK

\* The writes under the lock: marking, the search that marks, the guard's drop.
LEMMA FlaggingKeepsTypes ==
  ASSUME TypeOK, NEW t \in Tasks, MarkBusy(t) \/ TakeFirstAvailable(t) \/ Release(t)
  PROVE  TypeOK'
<1>1. \E p \in Phases, w \in Wallets : Move(t, p, w)
  BY DEF TypeOK, Phases, MarkBusy, TakeFirstAvailable, Release
<1>2. busy' \in [Wallets -> BOOLEAN] /\ cursor' = cursor
  BY DEF TypeOK, MarkBusy, TakeFirstAvailable, Release
<1>3. QED
  BY <1>1, <1>2, MoveKeepsTypes DEF TypeOK

\* The state space of the pool is closed under its steps: in particular the
\* cursor stays below its modulus and every guard names a wallet of the pool.
THEOREM TypeCorrect == Spec => []TypeOK
<1>1. ASSUME Init
      PROVE  TypeOK
  BY <1>1, PoolAssumption DEF Init, TypeOK, Wallets, Phases
<1>2. ASSUME TypeOK, UNCHANGED vars
      PROVE  TypeOK'
  BY <1>2 DEF TypeOK, vars
<1>3. TypeOK /\ [Next]_vars => TypeOK'
  BY <1>2, ChoiceKeepsTypes, FlaggingKeepsTypes DEF Next
<1>4. QED
  BY <1>1, <1>3, PTL DEF Spec

-----------------------------------------------------------------------------
\* A wallet that stays marked keeps its holder, unless that holder drops it.
LEMMA HolderStays ==
  ASSUME TypeOK, NoLeakedWallet, NEW t \in Tasks, NEW p, NEW v, Move(t, p, v),
         NEW w \in Wallets, busy[w], ~Holds(t, w)
  PROVE  \E u \in Tasks : Holds(u, w)'
<1>1. PICK u \in Tasks : Holds(u, w)
  BY DEF NoLeakedWallet
<1>2. u # t
  BY <1>1
<1>3. phase'[u] = phase[u] /\ idx'[u] = idx[u]
  BY <1>2 DEF Move, TypeOK
<1>4. QED
  BY <1>1, <1>3 DEF Holds

\* A flag is set only together with the guard that stands behind it.
LEMMA FlagHasGuard ==
  ASSUME TypeOK, NEW t \in Tasks, MarkBusy(t) \/ TakeFirstAvailable(t),
         NEW w \in Wallets, ~busy[w], busy'[w]
  PROVE  Holds(t, w)'
<1>1. PICK v \in Wallets : Move(t, "held", v) /\ busy' = [busy EXCEPT ![v] = TRUE]
  BY DEF TypeOK, MarkBusy, TakeFirstAvailable
<1>2. v = w
  BY <1>1 DEF TypeOK
<1>3. QED
  BY <1>1, <1>2 DEF TypeOK, Move, Holds

\* No step of the pool, under any strategy, leaves a flag set without a guard.
THEOREM LeakFreedom == Spec => []NoLeakedWallet
<1>1. Init => NoLeakedWallet
  BY DEF Init, NoLeakedWallet
<1>2. ASSUME TypeOK, NoLeakedWallet, NEW t \in Tasks, NEW w \in Wallets, busy'[w],
             \/ PickRoundRobin(t) \/ PickRandom(t) \/ Deny(t)
             \/ MarkBusy(t) \/ TakeFirstAvailable(t)
      PROVE  \E u \in Tasks : Holds(u, w)'
  <2>1. ~Holds(t, w) /\ \E p, v : Move(t, p, v)
    BY <1>2 DEF Holds, MayAcquire, PickRoundRobin, PickRandom, Deny, MarkBusy,
                TakeFirstAvailable
  <2>2. CASE busy[w]
    BY <1>2, <2>1, <2>2, HolderStays
  <2>3. CASE ~busy[w]
    <3>1. MarkBusy(t) \/ TakeFirstAvailable(t)
      BY <1>2, <2>3 DEF PickRoundRobin, PickRandom, Deny
    <3>2. QED
      BY <1>2, <2>3, <3>1, FlagHasGuard
  <2>4. QED
    BY <2>2, <2>3
<1>3. ASSUME TypeOK, NoLeakedWallet, NEW t \in Tasks, NEW w \in Wallets, busy'[w], Release(t)
      PROVE  \E u \in Tasks : Holds(u, w)'
  <2>1. busy[w] /\ ~Holds(t, w)
    BY <1>3 DEF TypeOK, Release, Holds
  <2>2. Move(t, "idle", idx[t])
    BY <1>3 DEF Release
  <2>3. QED
    BY <1>3, <2>1, <2>2, HolderStays
<1>4. TypeOK /\ NoLeakedWallet /\ [Next]_vars => NoLeakedWallet'
  <2> SUFFICES ASSUME TypeOK, NoLeakedWallet, [Next]_vars, NEW w \in Wallets, busy'[w]
               PROVE  \E u \in Tasks : Holds(u, w)'
    BY DEF NoLeakedWallet, Wallets
  <2>1. UNCHANGED vars => \E u \in Tasks : Holds(u, w)'
    BY DEF NoLeakedWallet, Holds, vars
  <2>2. QED
    BY <1>2, <1>3, <2>1 DEF Next
<1>5. QED
  BY <1>1, <1>4, TypeCorrect, PTL DEF Spec

-----------------------------------------------------------------------------
\* Under FirstAvailable no task is ever between choosing and marking a wallet,
\* which is what makes the search and the mark one step.
NoPick == strategy = "FirstAvailable" => \A t \in Tasks : phase[t] # "picked"

\* ExclusiveLease alone is not inductive: that a wallet whose flag is clear has
\* no holder is what lets FirstAvailable hand it out.
LeaseInv == NoPick /\ NoUnmarkedLease /\ ExclusiveLease

\* With nobody between the choice and the mark, a step under FirstAvailable is a
\* search, with or without a find, or the drop of a guard.
LEMMA SearchOrDrop ==
  ASSUME NoPick, strategy = "FirstAvailable", Next
  PROVE  \E t \in Tasks : TakeFirstAvailable(t) \/ Deny(t) \/ Release(t)
BY DEF Next, NoPick, PickRoundRobin, PickRandom, MarkBusy

\* The search hands out a wallet whose flag is clear: nobody holds it.
LEMMA SearchKeepsLeases ==
  ASSUME TypeOK, LeaseInv, NEW t \in Tasks, TakeFirstAvailable(t)
  PROVE  LeaseInv'
<1> USE DEF TypeOK, LeaseInv, NoPick, NoUnmarkedLease, ExclusiveLease, Holds
<1>1. PICK w \in Wallets :
        ~busy[w] /\ busy' = [busy EXCEPT ![w] = TRUE] /\ Move(t, "held", w)
  BY DEF TakeFirstAvailable
<1>2. \A u \in Tasks : phase[u] = "held" => idx[u] # w
  BY <1>1 DEF TakeFirstAvailable
<1>3. NoPick' /\ NoUnmarkedLease'
  BY <1>1 DEF Move
<1>4. ExclusiveLease'
  BY <1>1, <1>2 DEF Move
<1>5. QED
  BY <1>3, <1>4

\* The drop clears the flag of a wallet that had this one guard.
LEMMA DropKeepsLeases ==
  ASSUME TypeOK, LeaseInv, strategy = "FirstAvailable", NEW t \in Tasks, Release(t)
  PROVE  LeaseInv'
<1> USE DEF TypeOK, LeaseInv, NoPick, NoUnmarkedLease, ExclusiveLease, Holds, Move
<1>1. \A u \in Tasks \ {t} : phase[u] = "held" => idx[u] # idx[t]
  BY DEF Release
<1>2. NoUnmarkedLease'
  BY <1>1 DEF Release
<1>3. NoPick' /\ ExclusiveLease'
  BY DEF Release
<1>4. QED
  BY <1>2, <1>3

\* The lease invariant holds from the empty pool on.
LEMMA LeaseInvariance == Spec => []LeaseInv
<1>1. Init => LeaseInv
  BY DEF Init, LeaseInv, NoPick, NoUnmarkedLease, ExclusiveLease, Holds
<1>2. [Next]_vars => strategy' = strategy
  BY DEF Next, vars, Move, PickRoundRobin, PickRandom, MarkBusy, TakeFirstAvailable, Deny,
         Release
<1>3. ASSUME LeaseInv, \/ UNCHANGED vars
                       \/ \E t \in Tasks : TypeOK /\ Deny(t)
      PROVE  LeaseInv'
  BY <1>3 DEF TypeOK, LeaseInv, NoPick, NoUnmarkedLease, ExclusiveLease, Holds, Deny, Move,
              vars
<1>4. strategy' # "FirstAvailable" => LeaseInv'
  BY DEF LeaseInv, NoPick, NoUnmarkedLease, ExclusiveLease
<1>5. TypeOK /\ LeaseInv /\ [Next]_vars => LeaseInv'
  <2>1. LeaseInv => NoPick
    BY DEF LeaseInv
  <2>2. QED
    BY <1>2, <1>3, <1>4, <2>1, SearchOrDrop, SearchKeepsLeases, DropKeepsLeases
<1>6. QED
  BY <1>1, <1>5, TypeCorrect, PTL DEF Spec

\* FirstAvailable leases a wallet to one task at a time.
THEOREM Exclusion == Spec => []ExclusiveLease
<1>1. LeaseInv => ExclusiveLease
  BY DEF LeaseInv
<1>2. QED
  BY <1>1, LeaseInvariance, PTL

\* Under FirstAvailable every live guard is covered by a set flag.
THEOREM FlagsCoverGuards == Spec => []NoUnmarkedLease
<1>1. LeaseInv => NoUnmarkedLease
  BY DEF LeaseInv
<1>2. QED
  BY <1>1, LeaseInvariance, PTL

\* acquire() returns None only while every wallet has another live holder.
THEOREM DenialIsHonest == Spec => DeniedOnlyWhenExhausted
<1> DEFINE Honest ==
      \A t \in Tasks :
        phase[t] # "denied" /\ phase'[t] = "denied" =>
          \A w \in Wallets : \E u \in Tasks \ {t} : Holds(u, w)
<1>1. TypeOK /\ NoLeakedWallet /\ [Next]_vars => [Honest]_vars
  <2> SUFFICES ASSUME TypeOK, NoLeakedWallet, Next,
                      NEW t \in Tasks, phase[t] # "denied", phase'[t] = "denied",
                      NEW w \in Wallets
               PROVE  \E u \in Tasks \ {t} : Holds(u, w)
    OBVIOUS
  <2>1. Deny(t)
    BY DEF Next, PickRoundRobin, NextCursor, Turn, PickRandom, MarkBusy, TakeFirstAvailable,
           Deny, Release, Move, TypeOK
  <2>2. PICK u \in Tasks : Holds(u, w)
    BY <2>1 DEF Deny, NoLeakedWallet
  <2>3. u # t
    BY <2>1, <2>2 DEF Deny, MayAcquire, Holds
  <2>4. QED
    BY <2>2, <2>3
<1>2. QED
  BY <1>1, TypeCorrect, LeakFreedom, PTL DEF Spec, DeniedOnlyWhenExhausted
=============================================================================
